--------------------------- MODULE Engine_proofs ---------------------------
(* Theorems about Engine, for every plan, pool size and bound.             *)
EXTENDS EngineProperties, TLAPS

-----------------------------------------------------------------------------
(* The operators the actions are built from.                               *)

\* A step sees a view, whatever artifacts it may draw on.
LEMMA ViewType ==
    ASSUME NEW s \in Steps, NEW bundle \in Bundles
    PROVE  ViewOf(s, bundle) \in Views
  BY DEF ViewOf, ValueOf, Bundles, Artifacts, Views

\* Artifacts laid over artifacts are artifacts by field.
LEMMA OverlayType ==
    ASSUME NEW low \in Bundles, NEW high \in Bundles
    PROVE  Overlay(low, high) \in Bundles
  BY DEF Overlay, Bundles

LEMMA LineageType ==
    ASSUME NEW s \in Steps, NEW disposition, NEW view \in Views
    PROVE  LineageOf(s, disposition, view) \in Views
  BY DEF LineageOf, Views

\* What an outcome is stored as: artifacts of the fields the step writes.
LEMMA ComputedType ==
    ASSUME NEW s \in Steps, NEW outcome \in Views, NEW lineage \in Views
    PROVE  /\ Computed(s, outcome, lineage) \subseteq Artifacts
           /\ ByField(s, outcome, lineage) \in Bundles
           /\ Firsts(s, outcome, lineage) \subseteq Artifacts \cup {None}
<1>1. WriteSet(s) \subseteq Fields
  BY ShapeAssumption DEF WriteSet
<1>2. ASSUME NEW f \in WriteSet(s), outcome[f] # None
      PROVE  Artifact(f, s, outcome[f], lineage) \in Artifacts
  BY <1>1, <1>2, StepsAssumption DEF Artifact, Artifacts, Views, Steps
<1>3. Computed(s, outcome, lineage) \subseteq Artifacts
  BY <1>2 DEF Computed
<1>4. ByField(s, outcome, lineage) \in Bundles
  BY <1>2 DEF ByField, Bundles
<1>5. Firsts(s, outcome, lineage) \subseteq Artifacts \cup {None}
  BY <1>3 DEF Firsts
<1> QED BY <1>3, <1>4, <1>5

-----------------------------------------------------------------------------
(* Type correctness.                                                       *)

\* The start of a run, and what is left of one after a crash.
LEMMA ForgetWorkType ==
    ASSUME ForgetWork
    PROVE  /\ pc' \in [Records -> PCs]
           /\ at' \in [Records -> 1 .. NSteps + 1]
           /\ loaded' \in [Records -> Bundles]
           /\ produced' \in [Records -> Bundles]
           /\ status' \in [Records -> [Steps -> StepStates \cup {"none"}]]
           /\ hand' \in [Records -> Hands]
           /\ result' \in [Records -> Results]
  BY StepsAssumption
  DEF ForgetWork, PCs, Bundles, NoBundle, NoHand, NoView, Hands, Views, Results

LEMMA InitType == Init => TypeOK
<1> SUFFICES ASSUME Init PROVE TypeOK
  OBVIOUS
<1>1. /\ InitialBundle \in Bundles
      /\ InSet(InitialBundle) \subseteq Artifacts
  BY ShapeAssumption, StepsAssumption
  DEF InitialBundle, InitialArtifact, InSet, Bundles, Artifacts, Artifact, Views, NoView
<1>2. /\ InitialVersion \in Versions
      /\ Row(InitialVersion, "published") \in Rows
  BY <1>1 DEF InitialVersion, Versions, Row, Rows
<1>3. /\ NoBundle \in Bundles
      /\ NoHand \in Hands
  BY DEF NoBundle, Bundles, NoHand, NoView, Hands, Views
<1>4. at \in [Records -> 1 .. NSteps + 1] /\ runs \in 0 .. MaxRuns /\ crashes \in 0 .. MaxCrashes
  BY StepsAssumption, BoundsAssumption DEF Init
<1>5. checkpoint \in [Records -> [Steps -> Checkpoints]]
  BY DEF Init, Checkpoints
<1>6. /\ cache \in [Records -> [Questions -> Views \cup {Rejected, None}]]
      /\ paid \in [Records -> [Questions -> Nat]]
      /\ lost \in [Records -> [Questions -> Nat]]
  BY DEF Init
<1>7. /\ artifacts \in [Records -> SUBSET Artifacts]
      /\ newest \in [Records -> Bundles]
      /\ items \in [Records -> SUBSET (Steps \X Fields)]
      /\ versions \in [Records -> SUBSET Rows]
      /\ pointer \in [Records -> Versions]
  BY <1>1, <1>2 DEF Init
<1>8. /\ status \in [Records -> [Steps -> StepStates \cup {"none"}]]
      /\ loaded \in [Records -> Bundles]
      /\ produced \in [Records -> Bundles]
      /\ hand \in [Records -> Hands]
      /\ pc \in [Records -> PCs]
      /\ result \in [Records -> Results]
  BY <1>3 DEF Init, PCs, Results
<1> QED
  BY <1>4, <1>5, <1>6, <1>7, <1>8 DEF Init, TypeOK, ExecutionStates

\* Finishing a record with one of the result words, and the rest untouched.
LEMMA FinishType ==
    ASSUME TypeOK, NEW r \in Records, NEW outcome \in Results, Finish(r, outcome)
    PROVE  /\ pc' \in [Records -> PCs]
           /\ at' \in [Records -> 1 .. NSteps + 1]
           /\ loaded' \in [Records -> Bundles]
           /\ produced' \in [Records -> Bundles]
           /\ status' \in [Records -> [Steps -> StepStates \cup {"none"}]]
           /\ hand' \in [Records -> Hands]
           /\ result' \in [Records -> Results]
<1>1. NoHand \in Hands
  BY DEF NoHand, NoView, Hands, Views
<1> QED BY <1>1 DEF Finish, TypeOK, PCs

\* Settling a step with one of the step states, an artifact and a bundle.
LEMMA SettleType ==
    ASSUME TypeOK, NEW r \in Records, at[r] \in Steps, NEW state \in StepStates,
           NEW art \in Artifacts \cup {None}, NEW bundle \in Bundles,
           Settle(r, state, art, bundle)
    PROVE  /\ checkpoint' \in [Records -> [Steps -> Checkpoints]]
           /\ pc' \in [Records -> PCs]
           /\ at' \in [Records -> 1 .. NSteps + 1]
           /\ loaded' \in [Records -> Bundles]
           /\ produced' \in [Records -> Bundles]
           /\ status' \in [Records -> [Steps -> StepStates \cup {"none"}]]
           /\ hand' \in [Records -> Hands]
           /\ result' \in [Records -> Results]
<1>1. NoHand \in Hands
  BY DEF NoHand, NoView, Hands, Views
<1>2. [state |-> state, art |-> art] \in Checkpoints
  BY DEF Checkpoints
<1>3. at' \in [Records -> 1 .. NSteps + 1]
  BY StepsAssumption DEF Settle, TypeOK, Steps
<1> QED BY <1>1, <1>2, <1>3 DEF Settle, TypeOK, PCs

\* Opening review items for the step in hand.
LEMMA OpenItemsType ==
    ASSUME TypeOK, NEW r \in Records, at[r] \in Steps,
           NEW first \in Artifacts \cup {None}, OpenItems(r, first)
    PROVE  /\ items' \in [Records -> SUBSET (Steps \X Fields)]
           /\ pc' \in [Records -> PCs]
           /\ hand' \in [Records -> Hands]
           /\ UNCHANGED <<at, loaded, status, result>>
<1>1. WriteSet(at[r]) \subseteq Fields
  BY ShapeAssumption DEF WriteSet
<1>2. {<<at[r], f>> : f \in WriteSet(at[r])} \subseteq Steps \X Fields
  BY <1>1
<1>3. hand' \in [Records -> Hands]
  BY DEF OpenItems, TypeOK, Hands
<1> QED BY <1>2, <1>3 DEF OpenItems, TypeOK, PCs

\* What a step sees, asks and takes up.
LEMMA AskingType ==
    ASSUME TypeOK, NEW r \in Records, at[r] \in Steps
    PROVE  /\ View(r) \in Views
           /\ Question(r) \in Questions
           /\ Asking(r) \in Hands
           /\ Outcomes(at[r], View(r)) \subseteq Views \cup {Rejected}
           /\ Available(r) \in Bundles
<1>1. Available(r) \in Bundles
  BY OverlayType DEF Available, TypeOK
<1>2. View(r) \in Views
  BY <1>1, ViewType DEF View
<1>3. Question(r) \in Questions /\ Outcomes(at[r], View(r)) \subseteq Views \cup {Rejected}
  BY <1>2, OutcomeAssumption DEF Question, Questions
<1>4. LineageOf(at[r], StepPlan(r), View(r)) \in Views
  BY <1>2, LineageType
<1> QED BY <1>1, <1>2, <1>3, <1>4 DEF Asking, Hands

LEMMA TakeUpType ==
    ASSUME TypeOK, NEW r \in Records, at[r] \in Steps, NEW where \in {"asked", "answered"},
           NEW outcome \in Views \cup {Rejected}, TakeUp(r, where, outcome)
    PROVE  /\ pc' \in [Records -> PCs]
           /\ hand' \in [Records -> Hands]
           /\ hand'[r].question = Question(r)
           /\ UNCHANGED <<at, loaded, produced, status, result>>
<1>1. [Asking(r) EXCEPT !.outcome = outcome] \in Hands
  BY AskingType DEF Hands
<1>2. [Asking(r) EXCEPT !.outcome = outcome].question = Question(r)
  BY DEF Asking
<1> QED BY <1>1, <1>2 DEF TakeUp, TypeOK, PCs

\* The version a record's artifacts make.
LEMMA VersionType ==
    ASSUME TypeOK, NEW r \in Records
    PROVE  /\ NextVersion(r) \in Versions
           /\ \A state \in {"published", "review_needed", "failed"} :
                 Row(NextVersion(r), state) \in Rows
<1>1. Merged(r) \in Bundles
  BY OverlayType DEF Merged, TypeOK
<1>2. Chosen(r) \subseteq Artifacts
  BY <1>1, ShapeAssumption DEF Chosen, Bundles
<1>3. pointer[r].depth + 1 \in Nat
  BY DEF TypeOK, Versions
<1> QED BY <1>2, <1>3 DEF NextVersion, Versions, Row, Rows

\* Counting one more for a question, known or not.
LEMMA BumpType ==
    ASSUME NEW f \in [Records -> [Questions -> Nat]], NEW r \in Records, NEW q
    PROVE  [f EXCEPT ![r][q] = @ + 1] \in [Records -> [Questions -> Nat]]
<1> DEFINE g == f[r]
<1>1. g \in [Questions -> Nat]
  OBVIOUS
<1> HIDE DEF g
<1>2. [g EXCEPT ![q] = g[q] + 1] \in [Questions -> Nat]
  <2>1. CASE q \in Questions
    <3>1. g[q] + 1 \in Nat
      BY <1>1, <2>1
    <3> QED BY <1>1, <3>1
  <2>2. CASE q \notin Questions
    <3>1. [g EXCEPT ![q] = g[q] + 1] = g
      BY <1>1, <2>2
    <3> QED BY <1>1, <3>1
  <2> QED BY <2>1, <2>2
<1> QED BY <1>2 DEF g

-----------------------------------------------------------------------------
\* Every step of the engine keeps the types, and a worker in the middle of a
\* step stays at one of the plan's steps.
LEMMA TypeStep == TypeOK /\ InStep /\ [Next]_vars => TypeOK' /\ InStep'
<1> SUFFICES ASSUME TypeOK, InStep, [Next]_vars
             PROVE  TypeOK' /\ InStep'
  OBVIOUS
<1>1. CASE Run \/ Resume
  <2>1. BeginRun
    BY <1>1 DEF Run, Resume
  <2>2. ForgetWork
    BY <2>1 DEF BeginRun
  <2>3. runs' \in 0 .. MaxRuns
    BY <2>1, BoundsAssumption DEF BeginRun, TypeOK
  <2>4. InStep'
    BY <2>2 DEF ForgetWork, InStep, Underway
  <2> QED BY <2>1, <2>2, <2>3, <2>4, ForgetWorkType DEF BeginRun, TypeOK, ExecutionStates
<1>2. CASE EndRun
  BY <1>2 DEF EndRun, work, counters, TypeOK, InStep, Underway, FinalStatus, ExecutionStates
<1>3. CASE Cancel
  BY <1>3 DEF Cancel, durable, work, counters, TypeOK, InStep, Underway
<1>4. CASE Crash
  <2>1. crashes' \in 0 .. MaxCrashes
    BY <1>4, BoundsAssumption DEF Crash, TypeOK
  <2>2. lost' \in [Records -> [Questions -> Nat]]
    BY <1>4 DEF Crash, TypeOK
  <2>3. InStep'
    BY <1>4 DEF Crash, ForgetWork, InStep, Underway
  <2> QED BY <1>4, <2>1, <2>2, <2>3, ForgetWorkType DEF Crash, durable, TypeOK
<1>5. ASSUME NEW r \in Records, StartRecord(r)
      PROVE  TypeOK' /\ InStep'
  BY <1>5 DEF StartRecord, durable, counters, TypeOK, InStep, Underway, PCs
<1>6. ASSUME NEW r \in Records, BlockRecord(r)
      PROVE  TypeOK' /\ InStep'
  <2>1. InStep'
    BY <1>6 DEF BlockRecord, Finish, TypeOK, InStep, Underway
  <2> QED BY <1>6, <2>1, FinishType DEF BlockRecord, counters, TypeOK, Results
<1>7. ASSUME NEW r \in Records, CancelRecord(r)
      PROVE  TypeOK' /\ InStep'
  <2>1. InStep'
    BY <1>7 DEF CancelRecord, Finish, TypeOK, InStep, Underway
  <2> QED BY <1>7, <2>1, FinishType DEF CancelRecord, durable, counters, TypeOK, Results
<1>8. ASSUME NEW r \in Records, RaiseRecord(r)
      PROVE  TypeOK' /\ InStep'
  <2>1. InStep'
    BY <1>8 DEF RaiseRecord, Finish, TypeOK, InStep, Underway
  <2>2. lost' \in [Records -> [Questions -> Nat]]
    BY <1>8, BumpType DEF RaiseRecord, TypeOK
  <2> QED BY <1>8, <2>1, <2>2, FinishType DEF RaiseRecord, durable, TypeOK, Results
<1>9. ASSUME NEW r \in Records, HoldRecord(r)
      PROVE  TypeOK' /\ InStep'
  <2>1. InStep'
    BY <1>9 DEF HoldRecord, Finish, TypeOK, InStep, Underway
  <2>2. versions' \in [Records -> SUBSET Rows]
    BY <1>9, VersionType DEF HoldRecord, TypeOK
  <2>3. PICK outcome \in {"review", "held"} : Finish(r, outcome)
    BY <1>9 DEF HoldRecord
  <2> QED BY <1>9, <2>1, <2>2, <2>3, FinishType DEF HoldRecord, counters, TypeOK, Results
<1>10. ASSUME NEW r \in Records, PublishRecord(r)
       PROVE  TypeOK' /\ InStep'
  <2>1. InStep'
    BY <1>10 DEF PublishRecord, Finish, TypeOK, InStep, Underway
  <2>2. versions' \in [Records -> SUBSET Rows]
    <3> DEFINE Superseded(row) ==
                 IF row.arts = pointer[r].arts /\ row.depth = pointer[r].depth
                 THEN [row EXCEPT !.state = "superseded"] ELSE row
               new == Row(NextVersion(r), "published")
    <3>1. \A row \in versions[r] : Superseded(row) \in Rows
      <4>1. ASSUME NEW row \in Rows
            PROVE  [row EXCEPT !.state = "superseded"] \in Rows
        BY DEF Rows
      <4> QED BY <4>1 DEF TypeOK
    <3>2. new \in Rows
      BY VersionType
    <3>3. {Superseded(row) : row \in versions[r]}
            \cup (IF HasRow(r, NextVersion(r)) THEN {} ELSE {new}) \in SUBSET Rows
      BY <3>1, <3>2
    <3> QED BY <1>10, <3>3 DEF PublishRecord, TypeOK
  <2>3. pointer' \in [Records -> Versions]
    BY <1>10, VersionType DEF PublishRecord, TypeOK
  <2> QED BY <1>10, <2>1, <2>2, <2>3, FinishType DEF PublishRecord, counters, TypeOK, Results
<1>11. ASSUME NEW r \in Records, SkipStep(r)
       PROVE  TypeOK' /\ InStep'
  <2>1. at[r] \in Steps /\ at[r] + 1 \in 1 .. NSteps + 1
    BY <1>11, StepsAssumption DEF SkipStep, TypeOK, Steps
  <2>2. InStep'
    BY <1>11 DEF SkipStep, TypeOK, InStep, Underway
  <2>3. produced' \in [Records -> Bundles]
    BY <1>11, <2>1 DEF SkipStep, TypeOK, Bundles
  <2> QED BY <1>11, <2>1, <2>2, <2>3 DEF SkipStep, durable, counters, TypeOK, StepStates
<1>12. ASSUME NEW r \in Records, ReuseStep(r)
       PROVE  TypeOK' /\ InStep'
  <2>1. at[r] \in Steps
    BY <1>12, StepsAssumption DEF ReuseStep, Takes, TypeOK, Steps
  <2>2. PICK state \in StepStates, art \in Artifacts \cup {None}, bundle \in Bundles :
            Settle(r, state, art, bundle)
    <3> DEFINE bundle == [f \in Fields |-> IF f \in WriteSet(at[r]) THEN Available(r)[f]
                                         ELSE produced[r][f]]
    <3>1. bundle \in Bundles
      BY <2>1, AskingType DEF TypeOK, Bundles
    <3>2. Settle(r, "succeeded", None, bundle)
      BY <1>12 DEF ReuseStep
    <3> QED BY <3>1, <3>2 DEF StepStates
  <2>3. InStep'
    BY <2>2 DEF Settle, TypeOK, InStep, Underway
  <2> QED BY <1>12, <2>1, <2>2, <2>3, SettleType DEF ReuseStep, counters, TypeOK
<1>13. ASSUME NEW r \in Records, MarkStep(r)
       PROVE  TypeOK' /\ InStep'
  <2>1. at[r] \in Steps
    BY <1>13, StepsAssumption DEF MarkStep, Takes, TypeOK, Steps
  <2>2. PICK state \in StepStates, art \in Artifacts \cup {None}, bundle \in Bundles :
            Settle(r, state, art, bundle)
    BY <1>13 DEF MarkStep, TypeOK, StepStates, Blocking
  <2>3. InStep'
    BY <2>2 DEF Settle, TypeOK, InStep, Underway
  <2> QED BY <1>13, <2>1, <2>2, <2>3, SettleType DEF MarkStep, counters, TypeOK
<1>14. ASSUME NEW r \in Records, RefuseStep(r)
       PROVE  TypeOK' /\ InStep'
  <2>1. at[r] \in Steps
    BY <1>14, StepsAssumption DEF RefuseStep, Takes, TypeOK, Steps
  <2>2. PICK state \in StepStates, art \in Artifacts \cup {None}, bundle \in Bundles :
            Settle(r, state, art, bundle)
    BY <1>14 DEF RefuseStep, TypeOK, StepStates, Blocking
  <2>3. InStep'
    BY <2>2 DEF Settle, TypeOK, InStep, Underway
  <2> QED BY <1>14, <2>1, <2>2, <2>3, SettleType DEF RefuseStep, counters, TypeOK
<1>15. ASSUME NEW r \in Records, FailStep(r)
       PROVE  TypeOK' /\ InStep'
  <2>1. at[r] \in Steps
    BY <1>15, StepsAssumption DEF FailStep, InStep, Underway, TypeOK, Steps
  <2>2. PICK state \in StepStates, art \in Artifacts \cup {None}, bundle \in Bundles :
            Settle(r, state, art, bundle)
    BY <1>15 DEF FailStep, TypeOK, StepStates, Blocking
  <2>3. InStep'
    BY <2>2 DEF Settle, TypeOK, InStep, Underway
  <2> QED BY <1>15, <2>1, <2>2, <2>3, SettleType DEF FailStep, counters, TypeOK
<1>16. ASSUME NEW r \in Records, CheckpointReview(r)
       PROVE  TypeOK' /\ InStep'
  <2>1. at[r] \in Steps
    BY <1>16, StepsAssumption DEF CheckpointReview, InStep, Underway, TypeOK, Steps
  <2>2. PICK state \in StepStates, art \in Artifacts \cup {None}, bundle \in Bundles :
            Settle(r, state, art, bundle)
    BY <1>16 DEF CheckpointReview, TypeOK, Hands, StepStates, Blocking
  <2>3. InStep'
    BY <2>2 DEF Settle, TypeOK, InStep, Underway
  <2> QED BY <1>16, <2>1, <2>2, <2>3, SettleType DEF CheckpointReview, counters, TypeOK
<1>17. ASSUME NEW r \in Records, CheckpointSuccess(r)
       PROVE  TypeOK' /\ InStep'
  <2>1. at[r] \in Steps
    BY <1>17, StepsAssumption DEF CheckpointSuccess, InStep, Underway, TypeOK, Steps
  <2>2. PICK state \in StepStates, art \in Artifacts \cup {None}, bundle \in Bundles :
            Settle(r, state, art, bundle)
    BY <1>17 DEF CheckpointSuccess, TypeOK, Hands, StepStates
  <2>3. InStep'
    BY <2>2 DEF Settle, TypeOK, InStep, Underway
  <2> QED BY <1>17, <2>1, <2>2, <2>3, SettleType DEF CheckpointSuccess, counters, TypeOK
<1>18. ASSUME NEW r \in Records, ReviewStep(r)
       PROVE  TypeOK' /\ InStep'
  <2>1. at[r] \in Steps
    BY <1>18, StepsAssumption DEF ReviewStep, Takes, TypeOK, Steps
  <2>2. PICK first \in Artifacts \cup {None} : OpenItems(r, first)
    BY <1>18 DEF ReviewStep, TypeOK, Hands
  <2>3. InStep'
    BY <2>1, <2>2 DEF OpenItems, TypeOK, InStep, Underway
  <2> QED BY <1>18, <2>1, <2>2, <2>3, OpenItemsType DEF ReviewStep, counters, TypeOK
<1>19. ASSUME NEW r \in Records, DeferStep(r)
       PROVE  TypeOK' /\ InStep'
  <2>1. at[r] \in Steps
    BY <1>19, StepsAssumption DEF DeferStep, Takes, TypeOK, Steps
  <2>2. PICK first \in Artifacts \cup {None} : OpenItems(r, first)
    BY <1>19 DEF DeferStep, TypeOK, Hands
  <2>3. InStep'
    BY <2>1, <2>2 DEF OpenItems, TypeOK, InStep, Underway
  <2> QED BY <1>19, <2>1, <2>2, <2>3, OpenItemsType DEF DeferStep, counters, TypeOK
<1>20. ASSUME NEW r \in Records, FlagStep(r)
       PROVE  TypeOK' /\ InStep'
  <2>1. at[r] \in Steps
    BY <1>20, StepsAssumption DEF FlagStep, InStep, Underway, TypeOK, Steps
  <2>2. PICK first \in Artifacts \cup {None} : OpenItems(r, first)
    BY <1>20 DEF FlagStep, TypeOK, Hands
  <2>3. InStep'
    BY <2>1, <2>2 DEF OpenItems, TypeOK, InStep, Underway
  <2> QED BY <1>20, <2>1, <2>2, <2>3, OpenItemsType DEF FlagStep, counters, TypeOK
<1>21. ASSUME NEW r \in Records, DropAnswer(r)
       PROVE  TypeOK' /\ InStep'
  <2>1. at[r] \in Steps
    BY <1>21 DEF DropAnswer, InStep, Underway
  <2>2. OpenItems(r, None)
    BY <1>21 DEF DropAnswer
  <2>3. InStep'
    BY <2>1, <2>2 DEF OpenItems, TypeOK, InStep, Underway
  <2>4. lost' \in [Records -> [Questions -> Nat]]
    BY <1>21, BumpType DEF DropAnswer, TypeOK
  <2> QED BY <1>21, <2>1, <2>2, <2>3, <2>4, OpenItemsType DEF DropAnswer, TypeOK
<1>22. ASSUME NEW r \in Records, RunTransform(r)
       PROVE  TypeOK' /\ InStep'
  <2>1. at[r] \in Steps
    BY <1>22, StepsAssumption DEF RunTransform, Takes, TypeOK, Steps
  <2>2. PICK outcome \in Views \cup {Rejected} : TakeUp(r, "answered", outcome)
    BY <1>22, <2>1, AskingType DEF RunTransform, TypeOK
  <2>3. InStep'
    BY <2>1, <2>2 DEF TakeUp, TypeOK, InStep, Underway
  <2> QED BY <1>22, <2>1, <2>2, <2>3, TakeUpType DEF RunTransform, durable, counters, TypeOK
<1>23. ASSUME NEW r \in Records, UseCache(r)
       PROVE  TypeOK' /\ InStep'
  <2>1. at[r] \in Steps
    BY <1>23, StepsAssumption DEF UseCache, Takes, TypeOK, Steps
  <2>2. PICK outcome \in Views \cup {Rejected} : TakeUp(r, "answered", outcome)
    BY <1>23, <2>1, AskingType DEF UseCache, TypeOK
  <2>3. InStep'
    BY <2>1, <2>2 DEF TakeUp, TypeOK, InStep, Underway
  <2> QED BY <1>23, <2>1, <2>2, <2>3, TakeUpType DEF UseCache, durable, counters, TypeOK
<1>24. ASSUME NEW r \in Records, CallModel(r)
       PROVE  TypeOK' /\ InStep'
  <2>1. at[r] \in Steps
    BY <1>24, StepsAssumption DEF CallModel, Takes, TypeOK, Steps
  <2>2. PICK outcome \in Views \cup {Rejected} : TakeUp(r, "asked", outcome)
    BY <1>24, <2>1, AskingType DEF CallModel, TypeOK
  <2>3. InStep'
    BY <2>1, <2>2 DEF TakeUp, TypeOK, InStep, Underway
  <2>4. paid' \in [Records -> [Questions -> Nat]]
    BY <1>24, BumpType DEF CallModel, TypeOK
  <2> QED BY <1>24, <2>1, <2>2, <2>3, <2>4, TakeUpType DEF CallModel, durable, counters, TypeOK
<1>25. ASSUME NEW r \in Records, KeepAnswer(r)
       PROVE  TypeOK' /\ InStep'
  <2>1. cache' \in [Records -> [Questions -> Views \cup {Rejected, None}]]
    BY <1>25 DEF KeepAnswer, TypeOK, Hands
  <2>2. InStep'
    BY <1>25 DEF KeepAnswer, TypeOK, InStep, Underway
  <2> QED BY <1>25, <2>1, <2>2 DEF KeepAnswer, counters, TypeOK, PCs
<1>26. ASSUME NEW r \in Records, StoreArtifacts(r)
       PROVE  TypeOK' /\ InStep'
  <2> DEFINE outcome == hand[r].outcome
             lineage == hand[r].lineage
             new == ByField(at[r], outcome, lineage)
  <2>1. /\ at[r] \in Steps
        /\ outcome \in Views
        /\ lineage \in Views
    BY <1>26 DEF StoreArtifacts, InStep, Underway, TypeOK, Hands
  <2>2. /\ Computed(at[r], outcome, lineage) \subseteq Artifacts
        /\ new \in Bundles
        /\ Firsts(at[r], outcome, lineage) \subseteq Artifacts \cup {None}
    BY <2>1, ComputedType
  <2>3. artifacts' \in [Records -> SUBSET Artifacts]
    BY <1>26, <2>2 DEF StoreArtifacts, TypeOK
  <2>4. newest' \in [Records -> Bundles]
    BY <1>26, <2>2 DEF StoreArtifacts, TypeOK, Bundles
  <2>5. produced' \in [Records -> Bundles]
    BY <1>26, <2>2, OverlayType DEF StoreArtifacts, TypeOK
  <2>6. PICK first \in Artifacts \cup {None} : hand' = [hand EXCEPT ![r].first = first]
    BY <1>26, <2>2 DEF StoreArtifacts
  <2>7. hand' \in [Records -> Hands]
    BY <2>6 DEF TypeOK, Hands
  <2>8. InStep'
    BY <1>26 DEF StoreArtifacts, TypeOK, InStep, Underway
  <2> QED BY <1>26, <2>3, <2>4, <2>5, <2>7, <2>8 DEF StoreArtifacts, counters, TypeOK, PCs
<1>28. ASSUME NEW r \in Records, SpoilAnswer(r)
       PROVE  TypeOK' /\ InStep'
  <2>1. at[r] \in Steps
    BY <1>28, StepsAssumption DEF SpoilAnswer, InStep, Underway, TypeOK, Steps
  <2>2. PICK state \in StepStates, art \in Artifacts \cup {None}, bundle \in Bundles :
            Settle(r, state, art, bundle)
    BY <1>28 DEF SpoilAnswer, TypeOK, StepStates, Blocking
  <2>3. InStep'
    BY <2>2 DEF Settle, TypeOK, InStep, Underway
  <2>4. lost' \in [Records -> [Questions -> Nat]]
    BY <1>28, BumpType DEF SpoilAnswer, TypeOK
  <2> QED BY <1>28, <2>1, <2>2, <2>3, <2>4, SettleType DEF SpoilAnswer, TypeOK
<1>27. CASE UNCHANGED vars
  BY <1>27 DEF vars, durable, work, counters, TypeOK, InStep, Underway
<1> QED
  BY <1>1, <1>2, <1>3, <1>4, <1>5, <1>6, <1>7, <1>8, <1>9, <1>10, <1>11, <1>12, <1>13, <1>14, <1>15, <1>16, <1>17, <1>18, <1>19, <1>20, <1>21, <1>22, <1>23, <1>24, <1>25, <1>26, <1>27, <1>28 DEF Next, Work

\* Every reachable state is well typed, whatever the plan, the steps and the bounds.
THEOREM TypeCorrect == Spec => [](TypeOK /\ InStep)
<1>1. Init => TypeOK /\ InStep
  BY InitType DEF Init, InStep, Underway
<1> QED BY <1>1, TypeStep, PTL DEF Spec

-----------------------------------------------------------------------------
(* Publication: a version this execution made current has every step       *)
(* behind it.  The checkpoint of a step in progress has not succeeded, so  *)
(* settling it can disturb no published record; and at the end of a record *)
(* the statuses _finish_record looks at are the checkpoints.               *)

\* Settling the step in hand keeps what publication rests on.
LEMMA SettleKeeps ==
    ASSUME SettledInv, NEW r \in Records, at[r] \in Steps, pc[r] \in Active,
           checkpoint[r][at[r]].state # "succeeded",
           NEW state \in StepStates, NEW art, NEW bundle,
           Settle(r, state, art, bundle), UNCHANGED pointer
    PROVE  UnsettledStep' /\ StatusIsCheckpoint' /\ PublishedMeansSettled'
<1>1. UnsettledStep'
  BY DEF Settle, SettledInv, TypeOK, UnsettledStep, Underway
<1>2. StatusIsCheckpoint'
  <2>1. ASSUME NEW x \in Records, pc'[x] \in Active, NEW t \in Steps, t < at'[x], x # r
        PROVE  status'[x][t] = checkpoint'[x][t].state /\ status'[x][t] \in StepStates
    BY <2>1 DEF Settle, SettledInv, TypeOK, StatusIsCheckpoint
  <2>2. ASSUME NEW t \in Steps, t < at'[r]
        PROVE  status'[r][t] = checkpoint'[r][t].state /\ status'[r][t] \in StepStates
    <3>1. at'[r] = at[r] + 1
      BY DEF Settle, SettledInv, TypeOK
    <3>2. CASE t = at[r]
      BY <3>2 DEF Settle, SettledInv, TypeOK
    <3>3. CASE t # at[r]
      <4>1. t < at[r]
        BY <2>2, <3>1, <3>3, StepsAssumption DEF Steps
      <4> QED BY <4>1, <3>3 DEF Settle, SettledInv, TypeOK, StatusIsCheckpoint
    <3> QED BY <3>2, <3>3
  <2> QED BY <2>1, <2>2 DEF StatusIsCheckpoint
<1>3. PublishedMeansSettled'
  <2>1. ~ (pointer[r].depth > 0)
    BY DEF SettledInv, PublishedMeansSettled, Settled
  <2>2. ASSUME NEW x \in Records, x # r
        PROVE  checkpoint'[x] = checkpoint[x]
    BY <2>2 DEF Settle, SettledInv, TypeOK
  <2> QED BY <2>1, <2>2 DEF SettledInv, PublishedMeansSettled, Settled
<1> QED BY <1>1, <1>2, <1>3

\* Finishing a record leaves its checkpoints alone.
LEMMA FinishKeeps ==
    ASSUME SettledInv, NEW r \in Records, NEW outcome, Finish(r, outcome),
           UNCHANGED <<checkpoint, pointer>>
    PROVE  UnsettledStep' /\ StatusIsCheckpoint' /\ PublishedMeansSettled'
<1>1. UnsettledStep'
  BY DEF Finish, SettledInv, TypeOK, UnsettledStep, Underway
<1>2. StatusIsCheckpoint'
  BY DEF Finish, SettledInv, TypeOK, StatusIsCheckpoint, Active, PCs
<1>3. PublishedMeansSettled'
  BY DEF SettledInv, PublishedMeansSettled, Settled
<1> QED BY <1>1, <1>2, <1>3

\* Moving within the step in hand writes no checkpoint.
LEMMA MoveKeeps ==
    ASSUME SettledInv, NEW r \in Records, pc[r] \in Active,
           checkpoint[r][at[r]].state # "succeeded",
           NEW where, pc' = [pc EXCEPT ![r] = where],
           UNCHANGED <<checkpoint, pointer, status, at>>
    PROVE  UnsettledStep' /\ StatusIsCheckpoint' /\ PublishedMeansSettled'
<1>1. UnsettledStep'
  BY DEF SettledInv, TypeOK, UnsettledStep, Underway
<1>2. StatusIsCheckpoint'
  BY DEF SettledInv, TypeOK, StatusIsCheckpoint
<1>3. PublishedMeansSettled'
  BY DEF SettledInv, PublishedMeansSettled, Settled
<1> QED BY <1>1, <1>2, <1>3

\* A record at its end that nothing holds has succeeded at every step.
LEMMA EndMeansSettled ==
    ASSUME SettledInv, NEW r \in Records, AtEnd(r), ~Held(r)
    PROVE  Settled(r)
<1>1. ASSUME NEW t \in Steps
      PROVE  t < at[r]
  BY StepsAssumption DEF AtEnd, SettledInv, TypeOK, Steps
<1>2. pc[r] \in Active
  BY DEF AtEnd, Active, PCs
<1> QED BY <1>1, <1>2 DEF SettledInv, StatusIsCheckpoint, Held, StepStates, Settled

LEMMA SettledStep == SettledInv /\ [Next]_vars => SettledInv'
<1> SUFFICES ASSUME SettledInv, [Next]_vars
             PROVE  SettledInv'
  OBVIOUS
<1>0. TypeOK' /\ InStep'
  BY TypeStep DEF SettledInv
<1> SUFFICES UnsettledStep' /\ StatusIsCheckpoint' /\ PublishedMeansSettled'
  BY <1>0 DEF SettledInv
<1>1. CASE Run \/ Resume \/ Crash
  <2>1. ForgetWork /\ UNCHANGED <<checkpoint, pointer>>
    BY <1>1 DEF Run, Resume, BeginRun, Crash, durable
  <2>2. UnsettledStep' /\ StatusIsCheckpoint'
    BY <2>1 DEF ForgetWork, UnsettledStep, StatusIsCheckpoint, Underway, Active, PCs
  <2> QED BY <2>1, <2>2 DEF SettledInv, PublishedMeansSettled, Settled
<1>2. CASE EndRun \/ Cancel \/ UNCHANGED vars
  <2>1. UNCHANGED <<checkpoint, pointer, status, at, pc>>
    BY <1>2 DEF EndRun, Cancel, durable, work, vars
  <2> QED
    BY <2>1 DEF SettledInv, UnsettledStep, StatusIsCheckpoint, PublishedMeansSettled, Settled,
                Underway
<1>3. ASSUME NEW r \in Records, StartRecord(r)
      PROVE  UnsettledStep' /\ StatusIsCheckpoint' /\ PublishedMeansSettled'
  <2>1. /\ at[r] = 1
        /\ pc' = [pc EXCEPT ![r] = "step"]
        /\ UNCHANGED <<checkpoint, pointer, status, at>>
    BY <1>3 DEF StartRecord, durable, SettledInv, InStep
  <2>2. StatusIsCheckpoint'
    BY <2>1 DEF SettledInv, TypeOK, StatusIsCheckpoint, Steps
  <2>3. UnsettledStep'
    BY <2>1 DEF SettledInv, TypeOK, UnsettledStep, Underway
  <2> QED BY <2>1, <2>2, <2>3 DEF SettledInv, PublishedMeansSettled, Settled
<1>4. ASSUME NEW r \in Records,
             BlockRecord(r) \/ CancelRecord(r) \/ RaiseRecord(r) \/ HoldRecord(r)
      PROVE  UnsettledStep' /\ StatusIsCheckpoint' /\ PublishedMeansSettled'
  <2>1. PICK outcome : Finish(r, outcome)
    BY <1>4 DEF BlockRecord, CancelRecord, RaiseRecord, HoldRecord
  <2>2. UNCHANGED <<checkpoint, pointer>>
    BY <1>4 DEF BlockRecord, CancelRecord, RaiseRecord, HoldRecord, durable
  <2> QED BY <2>1, <2>2, FinishKeeps
<1>5. ASSUME NEW r \in Records, PublishRecord(r)
      PROVE  UnsettledStep' /\ StatusIsCheckpoint' /\ PublishedMeansSettled'
  <2>1. Settled(r)
    BY <1>5, EndMeansSettled DEF PublishRecord
  <2>2. Finish(r, "published") /\ UNCHANGED checkpoint
    BY <1>5 DEF PublishRecord
  <2>3. ASSUME NEW x \in Records, x # r
        PROVE  pointer'[x] = pointer[x]
    BY <1>5, <2>3 DEF PublishRecord, SettledInv, TypeOK
  <2>4. PublishedMeansSettled'
    BY <2>1, <2>2, <2>3 DEF SettledInv, PublishedMeansSettled, Settled
  <2>5. UnsettledStep'
    BY <2>2 DEF Finish, SettledInv, TypeOK, UnsettledStep, Underway
  <2>6. StatusIsCheckpoint'
    BY <2>2 DEF Finish, SettledInv, TypeOK, StatusIsCheckpoint, Active, PCs
  <2> QED BY <2>4, <2>5, <2>6
<1>6. ASSUME NEW r \in Records, SkipStep(r)
      PROVE  UnsettledStep' /\ StatusIsCheckpoint' /\ PublishedMeansSettled'
  <2>1. /\ status' = [status EXCEPT ![r][at[r]] = "succeeded"]
        /\ at' = [at EXCEPT ![r] = at[r] + 1]
        /\ checkpoint[r][at[r]].state = "succeeded"
        /\ pc[r] = "step"
        /\ UNCHANGED <<checkpoint, pointer, pc>>
    BY <1>6 DEF SkipStep, durable
  <2>2. StatusIsCheckpoint'
    <3>1. ASSUME NEW x \in Records, x # r
          PROVE  status'[x] = status[x] /\ at'[x] = at[x]
      BY <2>1, <3>1 DEF SettledInv, TypeOK
    <3>2. ASSUME NEW t \in Steps, t < at'[r]
          PROVE  status'[r][t] = checkpoint[r][t].state /\ status'[r][t] \in StepStates
      <4>1. CASE t = at[r]
        BY <2>1, <4>1 DEF SettledInv, TypeOK, StepStates
      <4>2. CASE t # at[r]
        <5>1. t < at[r]
          BY <2>1, <3>2, <4>2, StepsAssumption DEF SettledInv, TypeOK, Steps
        <5> QED BY <2>1, <4>2, <5>1
                DEF SettledInv, TypeOK, StatusIsCheckpoint, Active, PCs
      <4> QED BY <4>1, <4>2
    <3> QED BY <2>1, <3>1, <3>2 DEF SettledInv, StatusIsCheckpoint
  <2>3. UnsettledStep'
    BY <2>1 DEF SettledInv, TypeOK, UnsettledStep, Underway
  <2> QED BY <2>1, <2>2, <2>3 DEF SettledInv, PublishedMeansSettled, Settled
<1>7. ASSUME NEW r \in Records,
             \/ ReuseStep(r) \/ MarkStep(r) \/ RefuseStep(r) \/ SpoilAnswer(r) \/ FailStep(r)
             \/ CheckpointReview(r) \/ CheckpointSuccess(r)
      PROVE  UnsettledStep' /\ StatusIsCheckpoint' /\ PublishedMeansSettled'
  <2>1. /\ at[r] \in Steps
        /\ pc[r] \in Active
        /\ checkpoint[r][at[r]].state # "succeeded"
        /\ UNCHANGED pointer
    BY <1>7, StepsAssumption
    DEF ReuseStep, MarkStep, RefuseStep, SpoilAnswer, FailStep, CheckpointReview,
        CheckpointSuccess, Takes,
        SettledInv, TypeOK, InStep, UnsettledStep, Underway, Active, PCs, Steps
  <2>2. PICK state, art, bundle : state \in StepStates /\ Settle(r, state, art, bundle)
    BY <1>7 DEF ReuseStep, MarkStep, RefuseStep, SpoilAnswer, FailStep, CheckpointReview,
                CheckpointSuccess, StepStates, Blocking
  <2> QED BY <2>1, <2>2, SettleKeeps
<1>8. ASSUME NEW r \in Records,
             \/ ReviewStep(r) \/ RunTransform(r) \/ UseCache(r) \/ CallModel(r)
             \/ DeferStep(r) \/ DropAnswer(r) \/ KeepAnswer(r) \/ StoreArtifacts(r)
             \/ FlagStep(r)
      PROVE  UnsettledStep' /\ StatusIsCheckpoint' /\ PublishedMeansSettled'
  <2>1. /\ pc[r] \in Active
        /\ checkpoint[r][at[r]].state # "succeeded"
    BY <1>8
    DEF ReviewStep, RunTransform, UseCache, CallModel, DeferStep, DropAnswer, KeepAnswer,
        StoreArtifacts, FlagStep, Takes, SettledInv, UnsettledStep, Underway, Active, PCs
  <2>2. UNCHANGED <<checkpoint, pointer, status, at>>
    BY <1>8
    DEF ReviewStep, RunTransform, UseCache, CallModel, DeferStep, DropAnswer, KeepAnswer,
        StoreArtifacts, FlagStep, OpenItems, TakeUp, durable
  <2>3. PICK where : pc' = [pc EXCEPT ![r] = where]
    BY <1>8
    DEF ReviewStep, RunTransform, UseCache, CallModel, DeferStep, DropAnswer, KeepAnswer,
        StoreArtifacts, FlagStep, OpenItems, TakeUp
  <2> QED BY <2>1, <2>2, <2>3, MoveKeeps
<1> QED
  BY <1>1, <1>2, <1>3, <1>4, <1>5, <1>6, <1>7, <1>8 DEF Next, Work

LEMMA SettledInit == Init => SettledInv
<1> SUFFICES ASSUME Init PROVE SettledInv
  OBVIOUS
<1>1. TypeOK /\ InStep /\ UnsettledStep
  BY InitType DEF Init, InStep, UnsettledStep, Underway
<1>2. StatusIsCheckpoint
  BY DEF Init, StatusIsCheckpoint, Active, PCs
<1>3. PublishedMeansSettled
  BY DEF Init, InitialVersion, PublishedMeansSettled
<1> QED BY <1>1, <1>2, <1>3 DEF SettledInv

\* FR-EXE-008 for every plan, pool and history of crashes: a record this
\* execution published succeeded at every one of its steps.
THEOREM PublicationIsEarned == Spec => []PublishedMeansSettled
<1>1. SettledInv => PublishedMeansSettled
  BY DEF SettledInv
<1> QED BY <1>1, SettledInit, SettledStep, PTL DEF Spec

-----------------------------------------------------------------------------
(* The engine implements Publication.                                      *)

SettledRecords == {r \in Records : Settled(r)}

\* A checkpoint settles one record at most, and unsettles none.
LEMMA SettleRefines ==
    ASSUME SettledInv, NEW r \in Records, at[r] \in Steps,
           checkpoint[r][at[r]].state # "succeeded",
           NEW state, NEW art, NEW bundle, Settle(r, state, art, bundle), UNCHANGED pointer
    PROVE  [Abstract!Next]_<<pointer, SettledRecords>>
<1>1. r \notin SettledRecords
  BY DEF SettledRecords, Settled
<1>2. ASSUME NEW x \in Records, x # r
      PROVE  checkpoint'[x] = checkpoint[x]
  BY <1>2 DEF Settle, SettledInv, TypeOK
<1>3. SettledRecords' = SettledRecords \/ SettledRecords' = SettledRecords \cup {r}
  BY <1>1, <1>2 DEF SettledRecords, Settled
<1>4. CASE SettledRecords' = SettledRecords
  BY <1>4
<1>5. CASE SettledRecords' = SettledRecords \cup {r}
  <2>1. Abstract!Settle(r)
    BY <1>1, <1>5 DEF Abstract!Settle, SettledRecords
  <2> QED BY <2>1 DEF Abstract!Next
<1> QED BY <1>3, <1>4, <1>5

LEMMA PublishRefines ==
    ASSUME SettledInv, NEW r \in Records, PublishRecord(r)
    PROVE  [Abstract!Next]_<<pointer, SettledRecords>>
<1>1. r \in SettledRecords
  BY EndMeansSettled DEF PublishRecord, SettledRecords
<1>2. SettledRecords' = SettledRecords
  BY DEF PublishRecord, SettledRecords, Settled
<1>3. pointer' = [pointer EXCEPT ![r] = NextVersion(r)]
  BY DEF PublishRecord
<1>4. pointer'[r] = NextVersion(r) /\ \A x \in Records \ {r} : pointer'[x] = pointer[x]
  BY <1>3 DEF SettledInv, TypeOK
<1>5. Abstract!Validates(pointer'[r])
  BY <1>4 DEF PublishRecord, StructuralFailure, NextVersion, Abstract!Validates
<1>6. pointer'[r].depth = pointer[r].depth + 1
  BY <1>4 DEF NextVersion
<1>7. Abstract!Publish(r)
  BY <1>1, <1>2, <1>4, <1>5, <1>6 DEF Abstract!Publish, SettledRecords
<1> QED BY <1>7 DEF Abstract!Next

LEMMA StepRefines == SettledInv /\ [Next]_vars => [Abstract!Next]_<<pointer, SettledRecords>>
<1> SUFFICES ASSUME SettledInv, [Next]_vars
             PROVE  [Abstract!Next]_<<pointer, SettledRecords>>
  OBVIOUS
<1>1. ASSUME UNCHANGED <<checkpoint, pointer>>
      PROVE  [Abstract!Next]_<<pointer, SettledRecords>>
  BY <1>1 DEF SettledRecords, Settled
<1>2. CASE Run \/ Resume \/ EndRun \/ Cancel \/ Crash \/ UNCHANGED vars
  BY <1>1, <1>2 DEF Run, Resume, BeginRun, EndRun, Cancel, Crash, durable, vars
<1>3. ASSUME NEW r \in Records, PublishRecord(r)
      PROVE  [Abstract!Next]_<<pointer, SettledRecords>>
  BY <1>3, PublishRefines
<1>4. ASSUME NEW r \in Records,
             \/ ReuseStep(r) \/ MarkStep(r) \/ RefuseStep(r) \/ SpoilAnswer(r) \/ FailStep(r)
             \/ CheckpointReview(r) \/ CheckpointSuccess(r)
      PROVE  [Abstract!Next]_<<pointer, SettledRecords>>
  <2>1. /\ at[r] \in Steps
        /\ checkpoint[r][at[r]].state # "succeeded"
        /\ UNCHANGED pointer
    BY <1>4, StepsAssumption
    DEF ReuseStep, MarkStep, RefuseStep, SpoilAnswer, FailStep, CheckpointReview,
        CheckpointSuccess, Takes,
        SettledInv, TypeOK, InStep, UnsettledStep, Underway, Steps
  <2>2. PICK state, art, bundle : Settle(r, state, art, bundle)
    BY <1>4 DEF ReuseStep, MarkStep, RefuseStep, SpoilAnswer, FailStep, CheckpointReview,
                CheckpointSuccess
  <2> QED BY <2>1, <2>2, SettleRefines
<1>5. ASSUME NEW r \in Records,
             \/ StartRecord(r) \/ BlockRecord(r) \/ CancelRecord(r) \/ RaiseRecord(r)
             \/ HoldRecord(r) \/ SkipStep(r)
      PROVE  [Abstract!Next]_<<pointer, SettledRecords>>
  BY <1>1, <1>5
  DEF StartRecord, BlockRecord, CancelRecord, RaiseRecord, HoldRecord, SkipStep, durable
<1>6. ASSUME NEW r \in Records,
             \/ ReviewStep(r) \/ RunTransform(r) \/ UseCache(r) \/ CallModel(r)
             \/ DeferStep(r) \/ DropAnswer(r) \/ KeepAnswer(r) \/ StoreArtifacts(r)
             \/ FlagStep(r)
      PROVE  [Abstract!Next]_<<pointer, SettledRecords>>
  BY <1>1, <1>6
  DEF ReviewStep, RunTransform, UseCache, CallModel, DeferStep, DropAnswer, KeepAnswer,
      StoreArtifacts, FlagStep, durable
<1> QED
  BY <1>2, <1>3, <1>4, <1>5, <1>6 DEF Next, Work

\* FR-EXE-007/008: seen through the pointer and the checkpoints, the engine
\* with its crashes, resumes and threads is the abstract publication.
THEOREM EngineImplementsPublication == Spec => ImplementsPublication
<1>1. Init => Abstract!Init
  <2> SUFFICES ASSUME Init PROVE Abstract!Init
    OBVIOUS
  <2>1. 1 \in Steps
    BY StepsAssumption DEF Steps
  <2>2. {r \in Records : Settled(r)} = {}
    BY <2>1 DEF Init, Settled
  <2>3. \A r \in Records : pointer[r].depth = 0
    BY DEF Init, InitialVersion
  <2> QED BY <2>2, <2>3 DEF Abstract!Init
<1>2. SettledInv /\ [Next]_vars => [Abstract!Next]_<<pointer, {r \in Records : Settled(r)}>>
  BY StepRefines DEF SettledRecords
<1> QED
  BY <1>1, <1>2, SettledInit, SettledStep, PTL DEF Spec, ImplementsPublication, Abstract!Spec

-----------------------------------------------------------------------------
(* What the model is paid for.  Every answer bought is in the cache, on     *)
(* its way there, or lost; a question is asked only when it is not cached.  *)

\* The three facts besides the types.
Account == AnswersAccountedFor /\ TransitIsUncached /\ DownMeansQuiet

\* A step that neither buys, keeps nor loses an answer.
LEMMA QuietKeeps ==
    ASSUME BoughtInv, NEW r \in Records, up, pc[r] # "asked", pc'[r] # "asked",
           \A x \in Records \ {r} : pc'[x] = pc[x] /\ hand'[x] = hand[x],
           UNCHANGED <<up, cache, paid, lost>>
    PROVE  Account'
  BY DEF BoughtInv, Account, AnswersAccountedFor, TransitIsUncached, DownMeansQuiet, InTransit

\* Losing the answer in transit.
LEMMA LossKeeps ==
    ASSUME BoughtInv, NEW r \in Records, up, pc[r] = "asked", pc'[r] # "asked",
           \A x \in Records \ {r} : pc'[x] = pc[x] /\ hand'[x] = hand[x],
           lost' = [lost EXCEPT ![r][hand[r].question] = @ + 1],
           UNCHANGED <<up, cache, paid>>
    PROVE  Account'
<1>1. hand[r].question \in Questions
  BY DEF BoughtInv, TransitIsUncached
<1>2. ASSUME NEW x \in Records, NEW q \in Questions
      PROVE  paid'[x][q] = lost'[x][q] + (IF cache'[x][q] # None THEN 1 ELSE 0)
                                       + (IF InTransit(x, q)' THEN 1 ELSE 0)
  <2> DEFINE kept == IF cache[x][q] # None THEN 1 ELSE 0
  <2>1. paid[x][q] = lost[x][q] + kept + (IF InTransit(x, q) THEN 1 ELSE 0)
    BY DEF BoughtInv, AnswersAccountedFor
  <2>2. lost[x][q] \in Nat
    BY DEF BoughtInv, TypeOK
  <2>3. CASE x # r
    <3>1. lost'[x][q] = lost[x][q] /\ (InTransit(x, q)' <=> InTransit(x, q))
      BY <2>3 DEF InTransit, BoughtInv, TypeOK
    <3> QED BY <2>1, <3>1
  <2>4. CASE x = r /\ q = hand[r].question
    <3>1. lost'[x][q] = lost[x][q] + 1 /\ InTransit(x, q) /\ ~InTransit(x, q)'
      BY <2>4, <1>1 DEF InTransit, BoughtInv, TypeOK
    <3> QED BY <2>1, <2>2, <3>1
  <2>5. CASE x = r /\ q # hand[r].question
    <3>1. lost'[x][q] = lost[x][q] /\ ~InTransit(x, q) /\ ~InTransit(x, q)'
      BY <2>5, <1>1 DEF InTransit, BoughtInv, TypeOK
    <3> QED BY <2>1, <3>1
  <2> QED BY <2>3, <2>4, <2>5
<1>3. AnswersAccountedFor'
  BY <1>2 DEF AnswersAccountedFor
<1>4. TransitIsUncached' /\ DownMeansQuiet'
  BY DEF BoughtInv, TransitIsUncached, DownMeansQuiet
<1> QED BY <1>3, <1>4 DEF Account

LEMMA CallKeeps ==
    ASSUME BoughtInv, NEW r \in Records, CallModel(r)
    PROVE  Account'
<1> DEFINE asked == Question(r)
<1>1. at[r] \in Steps
  BY StepsAssumption DEF CallModel, Takes, BoughtInv, TypeOK, Steps
<1>2. asked \in Questions
  BY <1>1, AskingType DEF BoughtInv
<1>3. PICK outcome \in Views \cup {Rejected} : TakeUp(r, "asked", outcome)
  BY <1>1, AskingType DEF CallModel, BoughtInv
<1>4. /\ pc' = [pc EXCEPT ![r] = "asked"]
      /\ hand'[r].question = asked
      /\ \A x \in Records \ {r} : hand'[x] = hand[x]
  BY <1>1, <1>3, TakeUpType DEF TakeUp, BoughtInv, TypeOK
<1>5. /\ pc[r] = "step" /\ up
      /\ cache[r][asked] = None
      /\ paid' = [paid EXCEPT ![r][asked] = @ + 1]
      /\ UNCHANGED <<up, cache, lost>>
  BY DEF CallModel, Takes, durable
<1> HIDE DEF asked
<1>6. ASSUME NEW x \in Records, NEW q \in Questions
      PROVE  paid'[x][q] = lost'[x][q] + (IF cache'[x][q] # None THEN 1 ELSE 0)
                                       + (IF InTransit(x, q)' THEN 1 ELSE 0)
  <2>1. paid[x][q] = lost[x][q] + (IF cache[x][q] # None THEN 1 ELSE 0)
                                + (IF InTransit(x, q) THEN 1 ELSE 0)
    BY DEF BoughtInv, AnswersAccountedFor
  <2>2. lost[x][q] \in Nat
    BY DEF BoughtInv, TypeOK
  <2>3. CASE x # r
    <3>1. paid'[x][q] = paid[x][q] /\ (InTransit(x, q)' <=> InTransit(x, q))
      BY <1>4, <1>5, <2>3 DEF InTransit, BoughtInv, TypeOK
    <3> QED BY <1>5, <2>1, <3>1
  <2>4. CASE x = r /\ q = asked
    <3>1. paid'[x][q] = paid[x][q] + 1 /\ ~InTransit(x, q) /\ InTransit(x, q)'
      BY <1>2, <1>4, <1>5, <2>4 DEF InTransit, BoughtInv, TypeOK
    <3> QED BY <1>5, <2>1, <2>2, <2>4, <3>1
  <2>5. CASE x = r /\ q # asked
    <3>1. paid'[x][q] = paid[x][q] /\ ~InTransit(x, q) /\ ~InTransit(x, q)'
      BY <1>2, <1>4, <1>5, <2>5 DEF InTransit, BoughtInv, TypeOK
    <3> QED BY <1>5, <2>1, <3>1
  <2> QED BY <2>3, <2>4, <2>5
<1>7. AnswersAccountedFor'
  BY <1>6 DEF AnswersAccountedFor
<1>8. TransitIsUncached' /\ DownMeansQuiet'
  BY <1>2, <1>4, <1>5 DEF BoughtInv, TypeOK, TransitIsUncached, DownMeansQuiet
<1> QED BY <1>7, <1>8 DEF Account

LEMMA KeepKeeps ==
    ASSUME BoughtInv, NEW r \in Records, KeepAnswer(r)
    PROVE  Account'
<1> DEFINE asked == hand[r].question
<1>1. /\ asked \in Questions
      /\ cache[r][asked] = None
      /\ hand[r].outcome # None
  BY NoneAssumption DEF KeepAnswer, BoughtInv, TransitIsUncached, TypeOK, Hands
<1>2. /\ pc[r] = "asked" /\ up
      /\ pc' = [pc EXCEPT ![r] = "answered"]
      /\ cache' = [cache EXCEPT ![r][asked] = hand[r].outcome]
      /\ UNCHANGED <<up, hand, paid, lost>>
  BY DEF KeepAnswer, counters
<1> HIDE DEF asked
<1>3. ASSUME NEW x \in Records, NEW q \in Questions
      PROVE  paid'[x][q] = lost'[x][q] + (IF cache'[x][q] # None THEN 1 ELSE 0)
                                       + (IF InTransit(x, q)' THEN 1 ELSE 0)
  <2>1. paid[x][q] = lost[x][q] + (IF cache[x][q] # None THEN 1 ELSE 0)
                                + (IF InTransit(x, q) THEN 1 ELSE 0)
    BY DEF BoughtInv, AnswersAccountedFor
  <2>2. lost[x][q] \in Nat
    BY DEF BoughtInv, TypeOK
  <2>3. CASE x # r
    <3>1. cache'[x][q] = cache[x][q] /\ (InTransit(x, q)' <=> InTransit(x, q))
      BY <1>2, <2>3 DEF InTransit, BoughtInv, TypeOK
    <3> QED BY <1>2, <2>1, <3>1
  <2>4. CASE x = r /\ q = asked
    <3>1. cache'[x][q] # None /\ InTransit(x, q) /\ ~InTransit(x, q)'
      BY <1>1, <1>2, <2>4 DEF InTransit, BoughtInv, TypeOK, asked
    <3> QED BY <1>1, <1>2, <2>1, <2>2, <2>4, <3>1
  <2>5. CASE x = r /\ q # asked
    <3>1. cache'[x][q] = cache[x][q] /\ ~InTransit(x, q) /\ ~InTransit(x, q)'
      BY <1>1, <1>2, <2>5 DEF InTransit, BoughtInv, TypeOK, asked
    <3> QED BY <1>2, <2>1, <3>1
  <2> QED BY <2>3, <2>4, <2>5
<1>4. AnswersAccountedFor'
  BY <1>3 DEF AnswersAccountedFor
<1>5. TransitIsUncached' /\ DownMeansQuiet'
  BY <1>2 DEF BoughtInv, TypeOK, TransitIsUncached, DownMeansQuiet
<1> QED BY <1>4, <1>5 DEF Account

LEMMA CrashKeeps ==
    ASSUME BoughtInv, Crash
    PROVE  Account'
<1>1. \A r \in Records : pc'[r] = "idle"
  BY DEF Crash, ForgetWork
<1>2. UNCHANGED <<cache, paid>>
  BY DEF Crash, durable
<1>3. ASSUME NEW x \in Records, NEW q \in Questions
      PROVE  paid'[x][q] = lost'[x][q] + (IF cache'[x][q] # None THEN 1 ELSE 0)
                                       + (IF InTransit(x, q)' THEN 1 ELSE 0)
  <2>1. paid[x][q] = lost[x][q] + (IF cache[x][q] # None THEN 1 ELSE 0)
                                + (IF InTransit(x, q) THEN 1 ELSE 0)
    BY DEF BoughtInv, AnswersAccountedFor
  <2>2. lost[x][q] \in Nat
    BY DEF BoughtInv, TypeOK
  <2>3. lost'[x][q] = IF InTransit(x, q) THEN lost[x][q] + 1 ELSE lost[x][q]
    BY DEF Crash, InTransit
  <2>4. ~InTransit(x, q)'
    BY <1>1 DEF InTransit
  <2> QED BY <1>2, <2>1, <2>2, <2>3, <2>4
<1> QED BY <1>1, <1>3 DEF Account, AnswersAccountedFor, TransitIsUncached, DownMeansQuiet

\* Only a record the run was asked for leaves "idle".
LEMMA SelectedStep ==
    ASSUME TypeOK, OnlySelectedWork, [Next]_vars
    PROVE  OnlySelectedWork'
<1>1. CASE Run \/ Resume \/ Crash
  BY <1>1 DEF Run, Resume, BeginRun, Crash, ForgetWork, OnlySelectedWork
<1>2. CASE EndRun \/ Cancel \/ UNCHANGED vars
  BY <1>2 DEF EndRun, Cancel, work, vars, OnlySelectedWork
<1>3. ASSUME NEW r \in Records, r \in selected, UNCHANGED selected,
             NEW where, pc' = pc \/ pc' = [pc EXCEPT ![r] = where]
      PROVE  OnlySelectedWork'
  BY <1>3 DEF TypeOK, OnlySelectedWork
<1>4. ASSUME NEW r \in Records,
             \/ StartRecord(r) \/ BlockRecord(r) \/ CancelRecord(r) \/ RaiseRecord(r)
             \/ HoldRecord(r) \/ PublishRecord(r)
      PROVE  OnlySelectedWork'
  <2>1. r \in selected /\ UNCHANGED selected
    BY <1>4 DEF StartRecord, BlockRecord, CancelRecord, RaiseRecord, HoldRecord, PublishRecord,
                AtEnd, Active, OnlySelectedWork
  <2>2. PICK where : pc' = [pc EXCEPT ![r] = where]
    BY <1>4 DEF StartRecord, BlockRecord, CancelRecord, RaiseRecord, HoldRecord, PublishRecord,
                Finish
  <2> QED BY <2>1, <2>2, <1>3
<1>5. ASSUME NEW r \in Records,
             \/ ReuseStep(r) \/ MarkStep(r) \/ RefuseStep(r) \/ SpoilAnswer(r) \/ FailStep(r)
             \/ CheckpointReview(r) \/ CheckpointSuccess(r)
      PROVE  OnlySelectedWork'
  <2>1. r \in selected /\ UNCHANGED selected
    BY <1>5 DEF ReuseStep, MarkStep, RefuseStep, SpoilAnswer, FailStep, CheckpointReview,
                CheckpointSuccess, Takes, OnlySelectedWork
  <2>2. pc' = [pc EXCEPT ![r] = "step"]
    BY <1>5 DEF ReuseStep, MarkStep, RefuseStep, SpoilAnswer, FailStep, CheckpointReview,
                CheckpointSuccess, Settle
  <2> QED BY <2>1, <2>2, <1>3
<1>6. ASSUME NEW r \in Records,
             \/ SkipStep(r) \/ ReviewStep(r) \/ RunTransform(r) \/ UseCache(r) \/ CallModel(r)
             \/ DeferStep(r) \/ DropAnswer(r) \/ KeepAnswer(r) \/ StoreArtifacts(r)
             \/ FlagStep(r)
      PROVE  OnlySelectedWork'
  <2>1. r \in selected /\ UNCHANGED selected
    BY <1>6 DEF SkipStep, ReviewStep, RunTransform, UseCache, CallModel, DeferStep, DropAnswer,
                KeepAnswer, StoreArtifacts, FlagStep, Takes, OnlySelectedWork
  <2>2. PICK where : pc' = pc \/ pc' = [pc EXCEPT ![r] = where]
    BY <1>6 DEF SkipStep, ReviewStep, RunTransform, UseCache, CallModel, DeferStep, DropAnswer,
                KeepAnswer, StoreArtifacts, FlagStep, OpenItems, TakeUp
  <2> QED BY <2>1, <2>2, <1>3
<1> QED
  BY <1>1, <1>2, <1>4, <1>5, <1>6 DEF Next, Work

LEMMA BoughtStep == BoughtInv /\ [Next]_vars => BoughtInv'
<1> SUFFICES ASSUME BoughtInv, [Next]_vars
             PROVE  BoughtInv'
  OBVIOUS
<1>0. TypeOK' /\ InStep' /\ OnlySelectedWork'
  BY TypeStep, SelectedStep DEF BoughtInv
<1> SUFFICES Account'
  BY <1>0 DEF BoughtInv, Account
<1>1. CASE Run \/ Resume
  <2>1. /\ ~up /\ up'
        /\ \A r \in Records : pc'[r] = "idle"
        /\ UNCHANGED <<cache, paid, lost>>
    BY <1>1 DEF Run, Resume, BeginRun, ForgetWork
  <2>2. \A r \in Records : pc[r] # "asked"
    BY <2>1 DEF BoughtInv, DownMeansQuiet
  <2> QED BY <2>1, <2>2 DEF BoughtInv, Account, AnswersAccountedFor, TransitIsUncached,
                            DownMeansQuiet, InTransit
<1>2. CASE EndRun
  <2>1. /\ \A r \in selected : pc[r] = "done"
        /\ up /\ ~up'
        /\ UNCHANGED <<pc, hand, cache, paid, lost>>
    BY <1>2 DEF EndRun, work, counters
  <2>2. \A r \in Records : pc[r] \in {"idle", "done"}
    BY <2>1 DEF BoughtInv, OnlySelectedWork
  <2> QED
    BY <2>1, <2>2 DEF BoughtInv, Account, AnswersAccountedFor, TransitIsUncached,
                      DownMeansQuiet, InTransit
<1>3. CASE Cancel \/ UNCHANGED vars
  BY <1>3 DEF Cancel, vars, durable, work, counters, BoughtInv, Account, AnswersAccountedFor,
              TransitIsUncached, DownMeansQuiet, InTransit
<1>4. CASE Crash
  BY <1>4, CrashKeeps
<1>5. ASSUME NEW r \in Records, CallModel(r) \/ KeepAnswer(r)
      PROVE  Account'
  BY <1>5, CallKeeps, KeepKeeps
<1>6. ASSUME NEW r \in Records, DropAnswer(r)
      PROVE  Account'
  <2>1. /\ pc' = [pc EXCEPT ![r] = "opened"]
        /\ hand' = [hand EXCEPT ![r].first = None]
        /\ up /\ pc[r] = "asked"
        /\ lost' = [lost EXCEPT ![r][hand[r].question] = @ + 1]
        /\ UNCHANGED <<up, cache, paid>>
    BY <1>6 DEF DropAnswer, OpenItems
  <2>2. pc'[r] # "asked" /\ \A x \in Records \ {r} : pc'[x] = pc[x] /\ hand'[x] = hand[x]
    BY <2>1 DEF BoughtInv, TypeOK
  <2> QED BY <2>1, <2>2, LossKeeps
<1>11. ASSUME NEW r \in Records, SpoilAnswer(r)
       PROVE  Account'
  <2>1. /\ pc' = [pc EXCEPT ![r] = "step"]
        /\ hand' = [hand EXCEPT ![r] = NoHand]
        /\ up /\ pc[r] = "asked"
        /\ lost' = [lost EXCEPT ![r][hand[r].question] = @ + 1]
        /\ UNCHANGED <<up, cache, paid>>
    BY <1>11 DEF SpoilAnswer, Settle
  <2>2. pc'[r] # "asked" /\ \A x \in Records \ {r} : pc'[x] = pc[x] /\ hand'[x] = hand[x]
    BY <2>1 DEF BoughtInv, TypeOK
  <2> QED BY <2>1, <2>2, LossKeeps
<1>7. ASSUME NEW r \in Records, RaiseRecord(r)
      PROVE  Account'
  <2>1. /\ pc' = [pc EXCEPT ![r] = "done"]
        /\ hand' = [hand EXCEPT ![r] = NoHand]
        /\ up
        /\ UNCHANGED <<up, cache, paid>>
    BY <1>7 DEF RaiseRecord, Finish, durable
  <2>2. pc'[r] # "asked" /\ \A x \in Records \ {r} : pc'[x] = pc[x] /\ hand'[x] = hand[x]
    BY <2>1 DEF BoughtInv, TypeOK
  <2>3. CASE pc[r] = "asked"
    <3>1. lost' = [lost EXCEPT ![r][hand[r].question] = @ + 1]
      BY <1>7, <2>3 DEF RaiseRecord
    <3> QED BY <2>1, <2>2, <2>3, <3>1, LossKeeps
  <2>4. CASE pc[r] # "asked"
    <3>1. lost' = lost
      BY <1>7, <2>4 DEF RaiseRecord
    <3> QED BY <2>1, <2>2, <2>4, <3>1, QuietKeeps
  <2> QED BY <2>3, <2>4
<1>8. ASSUME NEW r \in Records,
             \/ StartRecord(r) \/ BlockRecord(r) \/ CancelRecord(r)
             \/ HoldRecord(r) \/ PublishRecord(r)
      PROVE  Account'
  <2>1. /\ up /\ pc[r] # "asked"
        /\ UNCHANGED <<up, cache, paid, lost>>
    BY <1>8 DEF StartRecord, BlockRecord, CancelRecord, HoldRecord, PublishRecord, AtEnd,
                durable, counters
  <2>2. \E where \in {"step", "done"} : pc' = [pc EXCEPT ![r] = where]
    BY <1>8 DEF StartRecord, BlockRecord, CancelRecord, HoldRecord, PublishRecord, Finish
  <2>3. hand' = hand \/ hand' = [hand EXCEPT ![r] = NoHand]
    BY <1>8 DEF StartRecord, BlockRecord, CancelRecord, HoldRecord, PublishRecord, Finish
  <2>4. pc'[r] # "asked" /\ \A x \in Records \ {r} : pc'[x] = pc[x] /\ hand'[x] = hand[x]
    BY <2>2, <2>3 DEF BoughtInv, TypeOK
  <2> QED BY <2>1, <2>4, QuietKeeps
<1>9. ASSUME NEW r \in Records,
             \/ SkipStep(r) \/ ReuseStep(r) \/ MarkStep(r) \/ RefuseStep(r) \/ FailStep(r)
             \/ CheckpointReview(r) \/ CheckpointSuccess(r)
      PROVE  Account'
  <2>1. /\ up /\ pc[r] # "asked"
        /\ UNCHANGED <<up, cache, paid, lost>>
    BY <1>9 DEF SkipStep, ReuseStep, MarkStep, RefuseStep, FailStep, CheckpointReview,
                CheckpointSuccess, Takes, durable, counters
  <2>2. pc' = pc \/ pc' = [pc EXCEPT ![r] = "step"]
    BY <1>9 DEF SkipStep, ReuseStep, MarkStep, RefuseStep, FailStep, CheckpointReview,
                CheckpointSuccess, Settle
  <2>3. hand' = hand \/ hand' = [hand EXCEPT ![r] = NoHand]
    BY <1>9 DEF SkipStep, ReuseStep, MarkStep, RefuseStep, FailStep, CheckpointReview,
                CheckpointSuccess, Settle
  <2>4. pc'[r] # "asked" /\ \A x \in Records \ {r} : pc'[x] = pc[x] /\ hand'[x] = hand[x]
    BY <2>1, <2>2, <2>3 DEF BoughtInv, TypeOK
  <2> QED BY <2>1, <2>4, QuietKeeps
<1>10. ASSUME NEW r \in Records,
              ReviewStep(r) \/ RunTransform(r) \/ UseCache(r) \/ DeferStep(r) \/ FlagStep(r)
              \/ StoreArtifacts(r)
       PROVE  Account'
  <2>1. /\ up /\ pc[r] # "asked"
        /\ UNCHANGED <<up, cache, paid, lost>>
    BY <1>10 DEF ReviewStep, RunTransform, UseCache, DeferStep, FlagStep, StoreArtifacts, Takes,
                 durable, counters
  <2>2. \E where \in {"answered", "opened", "stored"} : pc' = [pc EXCEPT ![r] = where]
    BY <1>10 DEF ReviewStep, RunTransform, UseCache, DeferStep, FlagStep, StoreArtifacts,
                 OpenItems, TakeUp
  <2>3. \E h : hand' = [hand EXCEPT ![r] = h]
    <3>1. CASE StoreArtifacts(r)
      <4>1. PICK first : hand' = [hand EXCEPT ![r].first = first]
        BY <3>1 DEF StoreArtifacts
      <4> QED BY <4>1
    <3>2. CASE RunTransform(r) \/ UseCache(r)
      BY <3>2 DEF RunTransform, UseCache, TakeUp
    <3>3. CASE ReviewStep(r) \/ DeferStep(r) \/ FlagStep(r)
      <4>1. PICK first : hand' = [hand EXCEPT ![r].first = first]
        BY <3>3 DEF ReviewStep, DeferStep, FlagStep, OpenItems
      <4> QED BY <4>1
    <3> QED BY <1>10, <3>1, <3>2, <3>3
  <2>4. pc'[r] # "asked" /\ \A x \in Records \ {r} : pc'[x] = pc[x] /\ hand'[x] = hand[x]
    BY <2>2, <2>3 DEF BoughtInv, TypeOK
  <2> QED BY <2>1, <2>4, QuietKeeps
<1> QED
  BY <1>1, <1>2, <1>3, <1>4, <1>5, <1>6, <1>7, <1>8, <1>9, <1>10, <1>11
  DEF Next, Work

LEMMA BoughtInit == Init => BoughtInv
<1> SUFFICES ASSUME Init PROVE BoughtInv
  OBVIOUS
<1>1. TypeOK /\ InStep
  BY InitType DEF Init, InStep, Underway
<1>2. TransitIsUncached /\ DownMeansQuiet /\ OnlySelectedWork
  BY DEF Init, TransitIsUncached, DownMeansQuiet, OnlySelectedWork
<1>3. AnswersAccountedFor
  BY DEF Init, AnswersAccountedFor, InTransit
<1> QED BY <1>1, <1>2, <1>3 DEF BoughtInv

\* NFR-PERF-004 for every plan and history of crashes: but for answers lost
\* before they were cached, each question is paid for once.
THEOREM NothingIsBoughtTwice == Spec => []NothingBoughtTwice
<1>1. BoughtInv => NothingBoughtTwice
  <2> SUFFICES ASSUME BoughtInv, NEW r \in Records, NEW q \in Questions
               PROVE  paid[r][q] <= lost[r][q] + 1
    BY DEF NothingBoughtTwice
  <2>1. paid[r][q] = lost[r][q] + (IF cache[r][q] # None THEN 1 ELSE 0)
                                + (IF InTransit(r, q) THEN 1 ELSE 0)
    BY DEF BoughtInv, AnswersAccountedFor
  <2>2. lost[r][q] \in Nat
    BY DEF BoughtInv, TypeOK
  <2>3. ~(cache[r][q] # None /\ InTransit(r, q))
    BY DEF BoughtInv, TransitIsUncached, InTransit
  <2> QED BY <2>1, <2>2, <2>3
<1> QED BY <1>1, BoughtInit, BoughtStep, PTL DEF Spec

-----------------------------------------------------------------------------
(* References.  Artifacts are never taken away, so what is named stays      *)
(* there; what a worker names it has loaded, stored or skipped over, and    *)
(* each of these is in the store by the time it is named.                   *)

LEMMA ReferenceInit == Init => ReferenceInv
<1> SUFFICES ASSUME Init PROVE ReferenceInv
  OBVIOUS
<1>1. TypeOK /\ InStep
  BY InitType DEF Init, InStep, Underway
<1>2. HeldIsStored
  BY DEF Init, HeldIsStored, Stores, InSet, NoBundle, NoHand
<1>3. NoDanglingReference
  BY DEF Init, NoDanglingReference, InitialVersion, Row
<1> QED BY <1>1, <1>2, <1>3 DEF ReferenceInv

\* A step that settles names only what is stored.
LEMMA SettleNamesStored ==
    ASSUME ReferenceInv, NEW r \in Records, at[r] \in Steps, NEW state,
           NEW art \in artifacts[r] \cup {None}, NEW bundle, Stores(r, bundle),
           Settle(r, state, art, bundle),
           UNCHANGED <<artifacts, newest, versions, pointer>>
    PROVE  HeldIsStored' /\ NoDanglingReference'
<1>1. HeldIsStored'
  BY DEF Settle, ReferenceInv, TypeOK, HeldIsStored, Stores, NoHand
<1>2. \A x \in Records : \A s \in Steps :
          checkpoint'[x][s].art \in artifacts'[x] \cup {None}
  BY DEF Settle, ReferenceInv, TypeOK, NoDanglingReference
<1> QED BY <1>1, <1>2 DEF ReferenceInv, NoDanglingReference

\* The version a record's artifacts make is made of stored artifacts.
LEMMA ChosenStored ==
    ASSUME ReferenceInv, NEW r \in Records
    PROVE  NextVersion(r).arts \subseteq artifacts[r]
<1>1. Stores(r, Merged(r))
  BY DEF ReferenceInv, HeldIsStored, Stores, Merged, Overlay
<1> QED BY <1>1, ShapeAssumption DEF Stores, Chosen, NextVersion

LEMMA ReferenceStep == ReferenceInv /\ [Next]_vars => ReferenceInv'
<1> SUFFICES ASSUME ReferenceInv, [Next]_vars
             PROVE  ReferenceInv'
  OBVIOUS
<1>0. TypeOK' /\ InStep'
  BY TypeStep DEF ReferenceInv
<1> SUFFICES HeldIsStored' /\ NoDanglingReference'
  BY <1>0 DEF ReferenceInv
<1>1. CASE Run \/ Resume \/ Crash
  <2>1. ForgetWork /\ UNCHANGED <<artifacts, newest, checkpoint, versions, pointer>>
    BY <1>1 DEF Run, Resume, BeginRun, Crash, durable
  <2>2. HeldIsStored'
    BY <2>1 DEF ForgetWork, ReferenceInv, HeldIsStored, Stores, NoBundle, NoHand
  <2> QED BY <2>1, <2>2 DEF ReferenceInv, NoDanglingReference
<1>2. CASE EndRun \/ Cancel \/ UNCHANGED vars
  <2>1. UNCHANGED <<artifacts, newest, checkpoint, versions, pointer, loaded, produced, hand>>
    BY <1>2 DEF EndRun, Cancel, durable, work, vars
  <2> QED BY <2>1 DEF ReferenceInv, HeldIsStored, Stores, NoDanglingReference
<1>3. ASSUME NEW r \in Records, StartRecord(r)
      PROVE  HeldIsStored' /\ NoDanglingReference'
  <2>1. /\ loaded' = [loaded EXCEPT ![r] = newest[r]]
        /\ UNCHANGED <<artifacts, newest, checkpoint, versions, pointer, produced, hand>>
    BY <1>3 DEF StartRecord, durable
  <2> QED BY <2>1 DEF ReferenceInv, TypeOK, HeldIsStored, Stores, NoDanglingReference
<1>4. ASSUME NEW r \in Records, BlockRecord(r) \/ CancelRecord(r) \/ RaiseRecord(r)
      PROVE  HeldIsStored' /\ NoDanglingReference'
  <2>1. /\ hand' = [hand EXCEPT ![r] = NoHand]
        /\ UNCHANGED <<artifacts, newest, checkpoint, versions, pointer, loaded, produced>>
    BY <1>4 DEF BlockRecord, CancelRecord, RaiseRecord, Finish, durable
  <2> QED BY <2>1 DEF ReferenceInv, TypeOK, HeldIsStored, Stores, NoDanglingReference, NoHand
<1>5. ASSUME NEW r \in Records, HoldRecord(r) \/ PublishRecord(r)
      PROVE  HeldIsStored' /\ NoDanglingReference'
  <2>1. /\ hand' = [hand EXCEPT ![r] = NoHand]
        /\ UNCHANGED <<artifacts, newest, checkpoint, loaded, produced>>
    BY <1>5 DEF HoldRecord, PublishRecord, Finish
  <2>2. HeldIsStored'
    BY <2>1 DEF ReferenceInv, TypeOK, HeldIsStored, Stores, NoHand
  <2>3. NextVersion(r).arts \subseteq artifacts[r]
    BY ChosenStored
  <2>4. \A x \in Records : pointer'[x].arts \subseteq artifacts[x]
    BY <1>5, <2>3 DEF HoldRecord, PublishRecord, ReferenceInv, TypeOK, NoDanglingReference
  <2>5. ASSUME NEW row \in versions'[r]
        PROVE  row.arts \subseteq artifacts[r]
    <3>1. CASE HoldRecord(r)
      <4>1. PICK state : \/ versions' = versions
                         \/ versions' = [versions EXCEPT ![r] =
                                            @ \cup {Row(NextVersion(r), state)}]
        BY <3>1 DEF HoldRecord
      <4>2. row \in versions[r] \/ row.arts = NextVersion(r).arts
        BY <4>1 DEF ReferenceInv, TypeOK, Row
      <4> QED BY <4>2, <2>3 DEF ReferenceInv, NoDanglingReference
    <3>2. CASE PublishRecord(r)
      <4> DEFINE Superseded(old) ==
                   IF old.arts = pointer[r].arts /\ old.depth = pointer[r].depth
                   THEN [old EXCEPT !.state = "superseded"] ELSE old
      <4>1. versions'[r] = {Superseded(old) : old \in versions[r]}
               \cup (IF HasRow(r, NextVersion(r)) THEN {}
                     ELSE {Row(NextVersion(r), "published")})
        BY <3>2 DEF PublishRecord, ReferenceInv, TypeOK
      <4>2. CASE row \in {Superseded(old) : old \in versions[r]}
        <5>1. PICK old \in versions[r] : row = Superseded(old)
          BY <4>2
        <5>2. old \in Rows
          BY DEF ReferenceInv, TypeOK
        <5>3. [old EXCEPT !.state = "superseded"].arts = old.arts
          BY <5>2 DEF Rows
        <5>4. row.arts = old.arts
          BY <5>1, <5>3
        <5> QED BY <5>4 DEF ReferenceInv, NoDanglingReference
      <4>3. CASE row = Row(NextVersion(r), "published")
        BY <4>3, <2>3 DEF Row
      <4> HIDE DEF Superseded
      <4> QED BY <4>1, <4>2, <4>3
    <3> QED BY <1>5, <3>1, <3>2
  <2>6. ASSUME NEW x \in Records, x # r
        PROVE  versions'[x] = versions[x]
    BY <1>5, <2>6 DEF HoldRecord, PublishRecord, ReferenceInv, TypeOK
  <2>7. NoDanglingReference'
    BY <2>1, <2>4, <2>5, <2>6 DEF ReferenceInv, NoDanglingReference
  <2> QED BY <2>2, <2>7
<1>6. ASSUME NEW r \in Records, SkipStep(r)
      PROVE  HeldIsStored' /\ NoDanglingReference'
  <2>1. UNCHANGED <<artifacts, newest, checkpoint, versions, pointer, loaded, hand>>
    BY <1>6 DEF SkipStep, durable
  <2>2. Stores(r, produced'[r]) /\ \A x \in Records \ {r} : produced'[x] = produced[x]
    BY <1>6 DEF SkipStep, ReferenceInv, TypeOK, HeldIsStored, Stores
  <2> QED BY <2>1, <2>2 DEF ReferenceInv, HeldIsStored, Stores, NoDanglingReference
<1>7. ASSUME NEW r \in Records,
             \/ ReuseStep(r) \/ MarkStep(r) \/ RefuseStep(r) \/ SpoilAnswer(r) \/ FailStep(r)
             \/ CheckpointReview(r) \/ CheckpointSuccess(r)
      PROVE  HeldIsStored' /\ NoDanglingReference'
  <2>1. /\ at[r] \in Steps
        /\ UNCHANGED <<artifacts, newest, versions, pointer>>
    BY <1>7, StepsAssumption
    DEF ReuseStep, MarkStep, RefuseStep, SpoilAnswer, FailStep, CheckpointReview,
        CheckpointSuccess, Takes,
        ReferenceInv, TypeOK, InStep, Underway, Steps
  <2>2. /\ Stores(r, produced[r])
        /\ hand[r].first \in artifacts[r] \cup {None}
    BY DEF ReferenceInv, HeldIsStored
  <2>3. PICK state, art, bundle :
            /\ art \in artifacts[r] \cup {None}
            /\ Stores(r, bundle)
            /\ Settle(r, state, art, bundle)
    <3>1. CASE ReuseStep(r)
      <4> DEFINE bundle == [f \in Fields |-> IF f \in WriteSet(at[r]) THEN Available(r)[f]
                                           ELSE produced[r][f]]
      <4>1. Stores(r, bundle)
        BY DEF ReferenceInv, HeldIsStored, Stores, Available, Overlay
      <4>2. Settle(r, "succeeded", None, bundle)
        BY <3>1 DEF ReuseStep
      <4> QED BY <4>1, <4>2
    <3>2. CASE ~ReuseStep(r)
      BY <1>7, <2>2, <3>2 DEF MarkStep, RefuseStep, SpoilAnswer, FailStep, CheckpointReview,
                         CheckpointSuccess
    <3> QED BY <3>1, <3>2
  <2> QED BY <2>1, <2>3, SettleNamesStored
<1>8. ASSUME NEW r \in Records,
             \/ ReviewStep(r) \/ RunTransform(r) \/ UseCache(r) \/ CallModel(r)
             \/ DeferStep(r) \/ DropAnswer(r) \/ KeepAnswer(r) \/ FlagStep(r)
      PROVE  HeldIsStored' /\ NoDanglingReference'
  <2>1. UNCHANGED <<artifacts, newest, checkpoint, versions, pointer, loaded, produced>>
    BY <1>8 DEF ReviewStep, RunTransform, UseCache, CallModel, DeferStep, DropAnswer, KeepAnswer,
                FlagStep, OpenItems, TakeUp, durable
  <2>2. \A x \in Records : hand'[x].first \in artifacts[x] \cup {None}
    <3>1. CASE KeepAnswer(r)
      BY <3>1 DEF KeepAnswer, ReferenceInv, HeldIsStored
    <3>2. CASE ReviewStep(r) \/ DeferStep(r) \/ DropAnswer(r) \/ FlagStep(r)
      <4>1. PICK first \in artifacts[r] \cup {None} : hand' = [hand EXCEPT ![r].first = first]
        BY <3>2 DEF ReviewStep, DeferStep, DropAnswer, FlagStep, OpenItems, ReferenceInv,
                    HeldIsStored
      <4> QED BY <4>1 DEF ReferenceInv, TypeOK, Hands, HeldIsStored
    <3>3. CASE RunTransform(r) \/ UseCache(r) \/ CallModel(r)
      <4>1. PICK outcome : hand' = [hand EXCEPT ![r] = [Asking(r) EXCEPT !.outcome = outcome]]
        BY <3>3 DEF RunTransform, UseCache, CallModel, TakeUp
      <4>2. [Asking(r) EXCEPT !.outcome = outcome].first = None
        BY DEF Asking
      <4> QED BY <4>1, <4>2 DEF ReferenceInv, TypeOK, HeldIsStored
    <3> QED BY <1>8, <3>1, <3>2, <3>3
  <2> QED BY <2>1, <2>2 DEF ReferenceInv, HeldIsStored, Stores, NoDanglingReference
<1>9. ASSUME NEW r \in Records, StoreArtifacts(r)
      PROVE  HeldIsStored' /\ NoDanglingReference'
  <2> DEFINE outcome == hand[r].outcome
             lineage == hand[r].lineage
             made == Computed(at[r], outcome, lineage)
             new == ByField(at[r], outcome, lineage)
  <2>1. \A f \in Fields : new[f] \in made \cup {None}
    BY DEF ByField, Computed
  <2>2. Firsts(at[r], outcome, lineage) \subseteq made \cup {None}
    BY DEF Firsts
  <2>3. artifacts' = [artifacts EXCEPT ![r] = @ \cup made]
    BY <1>9 DEF StoreArtifacts
  <2>4. newest' = [newest EXCEPT ![r] =
                     [f \in Fields |-> IF new[f] # None /\ new[f] \notin artifacts[r]
                                       THEN new[f] ELSE @[f]]]
    BY <1>9 DEF StoreArtifacts
  <2>5. produced' = [produced EXCEPT ![r] = Overlay(@, new)]
    BY <1>9 DEF StoreArtifacts
  <2>6. PICK first \in made \cup {None} : hand' = [hand EXCEPT ![r].first = first]
    BY <1>9, <2>2 DEF StoreArtifacts
  <2>7. UNCHANGED <<checkpoint, versions, pointer, loaded>>
    BY <1>9 DEF StoreArtifacts
  <2> HIDE DEF made, new
  <2>8. /\ artifacts'[r] = artifacts[r] \cup made
        /\ \A x \in Records : artifacts[x] \subseteq artifacts'[x]
    BY <2>3 DEF ReferenceInv, TypeOK
  <2>9. NoDanglingReference'
    BY <2>7, <2>8 DEF ReferenceInv, NoDanglingReference
  <2>10. \A x \in Records : Stores(x, newest[x])' /\ Stores(x, loaded[x])'
    BY <2>1, <2>4, <2>7, <2>8 DEF ReferenceInv, TypeOK, HeldIsStored, Stores
  <2>11. \A x \in Records : Stores(x, produced[x])'
    BY <2>1, <2>5, <2>8 DEF ReferenceInv, TypeOK, HeldIsStored, Stores, Overlay
  <2>12. \A x \in Records : hand'[x].first \in artifacts'[x] \cup {None}
    BY <2>6, <2>8 DEF ReferenceInv, TypeOK, Hands, HeldIsStored
  <2> QED BY <2>9, <2>10, <2>11, <2>12 DEF HeldIsStored
<1> QED
  BY <1>1, <1>2, <1>3, <1>4, <1>5, <1>6, <1>7, <1>8, <1>9 DEF Next, Work

\* Wherever the process stops, checkpoints and versions name artifacts the
\* store holds, for every plan, pool and history of crashes.
THEOREM ReferencesHold == Spec => []NoDanglingReference
<1>1. ReferenceInv => NoDanglingReference
  BY DEF ReferenceInv
<1> QED BY <1>1, ReferenceInit, ReferenceStep, PTL DEF Spec

-----------------------------------------------------------------------------
(* The queue.  Items are only ever added, so a step that has asked stays    *)
(* asked; and only a worker that has asked checkpoints a step that waits.   *)

LEMMA WaitingStep == WaitingInv /\ [Next]_vars => WaitingInv'
<1> SUFFICES ASSUME WaitingInv, [Next]_vars
             PROVE  WaitingInv'
  OBVIOUS
<1>0. TypeOK' /\ InStep'
  BY TypeStep DEF WaitingInv
<1> SUFFICES OpenedMeansAsked' /\ WaitingMeansAsked'
  BY <1>0 DEF WaitingInv
<1>1. CASE Run \/ Resume \/ Crash
  <2>1. ForgetWork /\ UNCHANGED <<checkpoint, items>>
    BY <1>1 DEF Run, Resume, BeginRun, Crash, durable
  <2>2. \A r \in Records : pc'[r] # "opened"
    BY <2>1 DEF ForgetWork
  <2> QED BY <2>1, <2>2 DEF WaitingInv, OpenedMeansAsked, WaitingMeansAsked
<1>2. CASE EndRun \/ Cancel \/ UNCHANGED vars
  <2>1. UNCHANGED <<checkpoint, items, pc, at>>
    BY <1>2 DEF EndRun, Cancel, durable, work, vars
  <2> QED BY <2>1 DEF WaitingInv, OpenedMeansAsked, WaitingMeansAsked
<1>3. ASSUME NEW r \in Records,
             \/ StartRecord(r) \/ BlockRecord(r) \/ CancelRecord(r) \/ RaiseRecord(r)
             \/ HoldRecord(r) \/ PublishRecord(r) \/ SkipStep(r)
             \/ RunTransform(r) \/ UseCache(r) \/ CallModel(r) \/ KeepAnswer(r)
             \/ StoreArtifacts(r)
      PROVE  OpenedMeansAsked' /\ WaitingMeansAsked'
  <2>1. UNCHANGED <<checkpoint, items>>
    BY <1>3 DEF StartRecord, BlockRecord, CancelRecord, RaiseRecord, HoldRecord, PublishRecord,
                SkipStep, RunTransform, UseCache, CallModel, KeepAnswer, StoreArtifacts, durable
  <2>2. \A x \in Records : pc'[x] = "opened" => pc[x] = "opened" /\ at'[x] = at[x]
    BY <1>3 DEF StartRecord, BlockRecord, CancelRecord, RaiseRecord, HoldRecord, PublishRecord,
                SkipStep, RunTransform, UseCache, CallModel, KeepAnswer, StoreArtifacts,
                Finish, TakeUp, WaitingInv, TypeOK
  <2> QED BY <2>1, <2>2 DEF WaitingInv, OpenedMeansAsked, WaitingMeansAsked
<1>4. ASSUME NEW r \in Records,
             \/ ReviewStep(r) \/ DeferStep(r) \/ DropAnswer(r) \/ FlagStep(r)
      PROVE  OpenedMeansAsked' /\ WaitingMeansAsked'
  <2>1. /\ items' = [items EXCEPT ![r] = @ \cup {<<at[r], f>> : f \in WriteSet(at[r])}]
        /\ pc' = [pc EXCEPT ![r] = "opened"]
        /\ UNCHANGED <<checkpoint, at>>
    BY <1>4 DEF ReviewStep, DeferStep, DropAnswer, FlagStep, OpenItems
  <2>2. \A x \in Records : items[x] \subseteq items'[x]
    BY <2>1 DEF WaitingInv, TypeOK
  <2>3. \A f \in WriteSet(at[r]) : <<at[r], f>> \in items'[r]
    BY <2>1 DEF WaitingInv, TypeOK
  <2>4. OpenedMeansAsked'
    BY <2>1, <2>2, <2>3 DEF WaitingInv, TypeOK, OpenedMeansAsked
  <2>5. WaitingMeansAsked'
    BY <2>1, <2>2 DEF WaitingInv, WaitingMeansAsked
  <2> QED BY <2>4, <2>5
<1>5. ASSUME NEW r \in Records,
             \/ ReuseStep(r) \/ MarkStep(r) \/ RefuseStep(r) \/ SpoilAnswer(r) \/ FailStep(r)
             \/ CheckpointReview(r) \/ CheckpointSuccess(r)
      PROVE  OpenedMeansAsked' /\ WaitingMeansAsked'
  <2>1. UNCHANGED items
    BY <1>5 DEF ReuseStep, MarkStep, RefuseStep, SpoilAnswer, FailStep, CheckpointReview,
                CheckpointSuccess
  <2>2. PICK state, art, bundle :
            /\ Settle(r, state, art, bundle)
            /\ state = "review_needed" => CheckpointReview(r)
    BY <1>5 DEF ReuseStep, MarkStep, RefuseStep, SpoilAnswer, FailStep, CheckpointReview,
                CheckpointSuccess
  <2>3. OpenedMeansAsked'
    BY <2>1, <2>2 DEF Settle, WaitingInv, TypeOK, OpenedMeansAsked
  <2>4. state = "review_needed" => \A f \in WriteSet(at[r]) : <<at[r], f>> \in items[r]
    BY <2>2 DEF CheckpointReview, WaitingInv, OpenedMeansAsked
  <2>5. ASSUME NEW x \in Records, NEW s \in Steps
        PROVE  \/ checkpoint'[x][s] = checkpoint[x][s]
               \/ x = r /\ s = at[r] /\ checkpoint'[x][s].state = state
    BY <2>2 DEF Settle, WaitingInv, TypeOK
  <2>6. WaitingMeansAsked'
    BY <2>1, <2>4, <2>5 DEF WaitingInv, WaitingMeansAsked
  <2> QED BY <2>3, <2>6
<1> QED
  BY <1>1, <1>2, <1>3, <1>4, <1>5 DEF Next, Work

\* FR-VAL-005 for every plan, pool and history of crashes: a step whose
\* checkpoint waits for a curator has an item in the queue for every field.
THEOREM WaitingIsAsked == Spec => []WaitingMeansAsked
<1>1. Init => WaitingInv
  BY InitType DEF Init, InStep, Underway, WaitingInv, OpenedMeansAsked, WaitingMeansAsked
<1>2. WaitingInv => WaitingMeansAsked
  BY DEF WaitingInv
<1> QED BY <1>1, <1>2, WaitingStep, PTL DEF Spec

-----------------------------------------------------------------------------
(* The name of an execution.  A depth only grows, so what one run reported  *)
(* as published is still current whatever later runs do.                    *)

LEMMA SucceededStep == SucceededInv /\ [Next]_vars => SucceededInv'
<1> SUFFICES ASSUME SucceededInv, [Next]_vars
             PROVE  SucceededInv'
  OBVIOUS
<1>0. SettledInv'
  BY SettledStep DEF SucceededInv
<1>1. \A r \in Records : pointer[r].depth \in Nat
  BY DEF SucceededInv, SettledInv, TypeOK, Versions
<1> SUFFICES ReportedIsCurrent' /\ SucceededIsCurrent'
  BY <1>0 DEF SucceededInv
<1>2. CASE Run \/ Resume
  <2>1. ForgetWork /\ execution' = "running"
    BY <1>2 DEF Run, Resume, BeginRun
  <2> QED BY <2>1 DEF ForgetWork, ReportedIsCurrent, SucceededIsCurrent
<1>3. CASE Crash
  <2>1. ForgetWork /\ selected' = {} /\ UNCHANGED <<execution, pointer>>
    BY <1>3 DEF Crash, durable
  <2> QED BY <2>1 DEF ForgetWork, SucceededInv, ReportedIsCurrent, SucceededIsCurrent
<1>4. CASE EndRun
  <2>1. execution' = FinalStatus /\ UNCHANGED <<pointer, result, selected>>
    BY <1>4 DEF EndRun, work
  <2>2. FinalStatus = "succeeded" => \A r \in selected : result[r] = "published"
    BY DEF FinalStatus
  <2>3. selected \subseteq Records
    BY DEF SucceededInv, SettledInv, TypeOK
  <2> QED BY <2>1, <2>2, <2>3 DEF SucceededInv, ReportedIsCurrent, SucceededIsCurrent
<1>5. CASE Cancel \/ UNCHANGED vars
  <2>1. UNCHANGED <<execution, pointer, result, selected>>
    BY <1>5 DEF Cancel, durable, work, vars
  <2> QED BY <2>1 DEF SucceededInv, ReportedIsCurrent, SucceededIsCurrent
<1>6. ASSUME NEW r \in Records, PublishRecord(r)
      PROVE  ReportedIsCurrent' /\ SucceededIsCurrent'
  <2>1. /\ pointer' = [pointer EXCEPT ![r] = NextVersion(r)]
        /\ result' = [result EXCEPT ![r] = "published"]
        /\ UNCHANGED <<execution, selected>>
    BY <1>6 DEF PublishRecord, Finish
  <2>2. NextVersion(r).depth = pointer[r].depth + 1
    BY DEF NextVersion
  <2>3. pointer'[r].depth > 0 /\ \A x \in Records \ {r} : pointer'[x] = pointer[x]
    BY <1>1, <2>1, <2>2 DEF SucceededInv, SettledInv, TypeOK
  <2> QED BY <2>1, <2>3 DEF SucceededInv, SettledInv, TypeOK, ReportedIsCurrent, SucceededIsCurrent
<1>7. ASSUME NEW r \in Records,
             BlockRecord(r) \/ CancelRecord(r) \/ RaiseRecord(r) \/ HoldRecord(r)
      PROVE  ReportedIsCurrent' /\ SucceededIsCurrent'
  <2>1. /\ UNCHANGED <<execution, pointer, selected>>
        /\ \E outcome : outcome # "published" /\ result' = [result EXCEPT ![r] = outcome]
    BY <1>7 DEF BlockRecord, CancelRecord, RaiseRecord, HoldRecord, Finish, durable
  <2> QED BY <2>1 DEF SucceededInv, SettledInv, TypeOK, ReportedIsCurrent, SucceededIsCurrent
<1>8. ASSUME NEW r \in Records,
             \/ StartRecord(r) \/ SkipStep(r) \/ ReuseStep(r) \/ MarkStep(r) \/ ReviewStep(r)
             \/ RunTransform(r) \/ UseCache(r) \/ CallModel(r) \/ RefuseStep(r)
             \/ DeferStep(r) \/ DropAnswer(r) \/ SpoilAnswer(r) \/ KeepAnswer(r) \/ FailStep(r)
             \/ StoreArtifacts(r) \/ FlagStep(r) \/ CheckpointReview(r)
             \/ CheckpointSuccess(r)
      PROVE  ReportedIsCurrent' /\ SucceededIsCurrent'
  <2>1. UNCHANGED <<execution, pointer, result, selected>>
    BY <1>8 DEF StartRecord, SkipStep, ReuseStep, MarkStep, ReviewStep, RunTransform, UseCache,
                CallModel, RefuseStep, DeferStep, DropAnswer, SpoilAnswer, KeepAnswer, FailStep,
                StoreArtifacts, FlagStep, CheckpointReview, CheckpointSuccess, Settle,
                OpenItems, TakeUp, durable
  <2> QED BY <2>1 DEF SucceededInv, ReportedIsCurrent, SucceededIsCurrent
<1> QED
  BY <1>2, <1>3, <1>4, <1>5, <1>6, <1>7, <1>8 DEF Next, Work

\* An execution the store calls succeeded, after any runs and crashes, has
\* settled and published every record its last run was asked for.
THEOREM SuccessIsEarned == Spec => []SucceededMeansSettled
<1>1. Init => SucceededInv
  BY SettledInit DEF Init, SucceededInv, ReportedIsCurrent, SucceededIsCurrent
<1>2. SucceededInv => SucceededMeansSettled
  BY DEF SucceededInv, SettledInv, TypeOK, PublishedMeansSettled, SucceededIsCurrent,
         SucceededMeansSettled
<1> QED BY <1>1, <1>2, SucceededStep, PTL DEF Spec
=============================================================================

-------------------------- MODULE EngineProperties --------------------------
(* What the engine owes its store and its users, as invariants, action and *)
(* liveness properties of Engine.                                          *)
EXTENDS Engine

Versions == [arts : SUBSET Artifacts, depth : Nat]
Rows == [arts : SUBSET Artifacts, depth : Nat,
         state : {"published", "superseded", "review_needed", "failed"}]
Checkpoints == [state : StepStates \cup {"none"}, art : Artifacts \cup {None}]
Hands == [question : Questions \cup {None}, lineage : Views,
          outcome : Views \cup {Rejected}, first : Artifacts \cup {None}]

\* Every variable keeps to its set (the rows and fields of the engine's state).
TypeOK ==
    /\ plan \in [Records -> Plans]
    /\ execution \in ExecutionStates
    /\ artifacts \in [Records -> SUBSET Artifacts]
    /\ newest \in [Records -> Bundles]
    /\ cache \in [Records -> [Questions -> Views \cup {Rejected, None}]]
    /\ checkpoint \in [Records -> [Steps -> Checkpoints]]
    /\ skipped \subseteq Records
    /\ items \in [Records -> SUBSET (Steps \X Fields)]
    /\ versions \in [Records -> SUBSET Rows]
    /\ pointer \in [Records -> Versions]
    /\ up \in BOOLEAN /\ selected \subseteq Records /\ cancel \in BOOLEAN
    /\ pc \in [Records -> PCs]
    /\ at \in [Records -> 1 .. NSteps + 1]
    /\ loaded \in [Records -> Bundles]
    /\ produced \in [Records -> Bundles]
    /\ status \in [Records -> [Steps -> StepStates \cup {"none"}]]
    /\ hand \in [Records -> Hands]
    /\ result \in [Records -> Results]
    /\ runs \in 0 .. MaxRuns /\ crashes \in 0 .. MaxCrashes
    /\ paid \in [Records -> [Questions -> Nat]]
    /\ lost \in [Records -> [Questions -> Nat]]

Settled(r) == \A s \in Steps : checkpoint[r][s].state = "succeeded"

\* A version this execution made current (FR-EXE-008: publication waits for
\* every step) is backed by a succeeded checkpoint of every step: held, failed,
\* blocked and cancelled records keep the version they had, across crashes and
\* resumes.
PublishedMeansSettled == \A r \in Records : pointer[r].depth > 0 => Settled(r)

\* No write refers to an artifact the store does not hold, wherever the process
\* stops: checkpoints and versions come after the artifacts they name.
NoDanglingReference ==
    \A r \in Records :
        /\ pointer[r].arts \subseteq artifacts[r]
        /\ \A row \in versions[r] : row.arts \subseteq artifacts[r]
        /\ \A s \in Steps : checkpoint[r][s].art \in artifacts[r] \cup {None}

\* NFR-PERF-004, across crashes, failures and resumes: an answer is bought a
\* second time only if the first one was lost before it was cached.
NothingBoughtTwice ==
    \A r \in Records : \A q \in Questions : paid[r][q] <= lost[r][q] + 1

\* A step that waits for a curator has its items in the queue (FR-VAL-005): the
\* checkpoint never gets ahead of the queue.
WaitingMeansAsked ==
    \A r \in Records : \A s \in Steps :
        checkpoint[r][s].state = "review_needed" =>
            \A f \in WriteSet(s) : <<s, f>> \in items[r]

\* An execution the store calls succeeded left none of the records behind that its
\* last run was asked for: each one is settled, in that run or by the ones before,
\* and current in the target schema.
SucceededMeansSettled ==
    execution = "succeeded" =>
        \A r \in selected : Settled(r) /\ pointer[r].depth > 0

\* What makes these inductive.  A worker in the middle of a step is at a step
\* that has not succeeded; the statuses a run holds in memory are those it has
\* checkpointed; and every answer paid for is cached, in transit or lost.
Underway(r) == pc[r] \in {"asked", "answered", "stored", "opened"}
InStep == \A r \in Records :
    /\ pc[r] = "idle" => at[r] = 1
    /\ Underway(r) => at[r] \in Steps
UnsettledStep == \A r \in Records :
    Underway(r) => checkpoint[r][at[r]].state # "succeeded"
StatusIsCheckpoint == \A r \in Records :
    pc[r] \in Active =>
        \A s \in Steps : s < at[r] =>
            status[r][s] = checkpoint[r][s].state /\ status[r][s] \in StepStates
SettledInv == TypeOK /\ InStep /\ UnsettledStep /\ StatusIsCheckpoint /\ PublishedMeansSettled

InTransit(r, q) == pc[r] = "asked" /\ hand[r].question = q
AnswersAccountedFor == \A r \in Records : \A q \in Questions :
    paid[r][q] = lost[r][q] + (IF cache[r][q] # None THEN 1 ELSE 0)
                            + (IF InTransit(r, q) THEN 1 ELSE 0)
TransitIsUncached == \A r \in Records :
    pc[r] = "asked" => /\ hand[r].question \in Questions
                       /\ cache[r][hand[r].question] = None
DownMeansQuiet == ~up => \A r \in Records : pc[r] \in {"idle", "done"}
OnlySelectedWork == \A r \in Records : pc[r] # "idle" => r \in selected
BoughtInv ==
    /\ TypeOK /\ InStep /\ OnlySelectedWork
    /\ AnswersAccountedFor /\ TransitIsUncached /\ DownMeansQuiet

\* What a worker holds, and what a later run will load, is in the store.
Stores(r, bundle) == \A f \in Fields : bundle[f] \in artifacts[r] \cup {None}
HeldIsStored == \A r \in Records :
    /\ Stores(r, loaded[r]) /\ Stores(r, produced[r]) /\ Stores(r, newest[r])
    /\ hand[r].first \in artifacts[r] \cup {None}
ReferenceInv == TypeOK /\ InStep /\ HeldIsStored /\ NoDanglingReference

\* A worker about to wait for a curator has asked.
OpenedMeansAsked == \A r \in Records :
    pc[r] = "opened" => \A f \in WriteSet(at[r]) : <<at[r], f>> \in items[r]
WaitingInv == TypeOK /\ InStep /\ OpenedMeansAsked /\ WaitingMeansAsked

\* What a run reports as published is current, and so is all of a run that
\* succeeded.
ReportedIsCurrent == \A r \in Records : result[r] = "published" => pointer[r].depth > 0
SucceededIsCurrent == execution = "succeeded" => \A r \in selected : pointer[r].depth > 0
SucceededInv == SettledInv /\ ReportedIsCurrent /\ SucceededIsCurrent

\* The engine implements the abstract publication: what is visible is the
\* pointer, what is settled is the checkpoints.
Abstract == INSTANCE Publication
    WITH visible <- pointer, settled <- {r \in Records : Settled(r)}
ImplementsPublication == Abstract!Spec

\* Every run comes to an end, with every record accounted for.
EveryRunEnds == up ~> ~up

-----------------------------------------------------------------------------
(* What the documentation says of the engine, and some behaviour of it does  *)
(* not keep.                                                                 *)

\* A value is reusable when what it was computed from is what holds now
\* (README, "What makes a value stale"): the values a published artifact was
\* derived from are those published beside it.
PublishedAgrees ==
    \A r \in Records : pointer[r].depth > 0 =>
        \A a, b \in pointer[r].arts :
            a.lineage[b.field] \in {None, b.val}

\* A partially migrated record is never visible (README, "Safety properties"):
\* a field one of the steps stored a value for is in the published version.
NothingDropped ==
    \A r \in Records : pointer[r].depth > 0 =>
        \A a \in artifacts[r] : a.step > 0 /\ a.field \in Target =>
            \E b \in pointer[r].arts : b.field = a.field
=============================================================================

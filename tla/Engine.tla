------------------------------- MODULE Engine -------------------------------
(***************************************************************************)
(* The execution engine (src/src/llmbic/execution/engine.py) running one   *)
(* approved plan against the store: a thread pool works through the        *)
(* records, each record through its steps in order, and every durable      *)
(* write (a cache entry, the artifacts of a step, a review item, a step    *)
(* checkpoint, a record version) is a transaction of its own.  The process *)
(* may crash between any two of them and is then resumed from the store.   *)
(*                                                                         *)
(* One artifact per field: entities of a record are left out.  A model     *)
(* call stands for the whole retry and fallback loop, and a step asks one  *)
(* question (no escalation).                                               *)
(***************************************************************************)
EXTENDS Integers, Sequences, FiniteSets

CONSTANTS
    Records,        \* records the plan covers
    Fields,         \* field ids of every schema on the path
    NSteps,         \* steps of a record's plan, numbered as _ordered runs them
    Writes,         \* Writes[s]: the fields step s writes, in declared order
    Reads,          \* Reads[s]: the fields step s reads
    Plans,          \* the record plans the planner may have produced
    Values,         \* field values
    Flagged,        \* values a validator or transform marked review_required
    Invalid,        \* values the target schema refuses
    Target,         \* fields of the target schema
    Required,       \* those it requires
    Initial,        \* Initial[f]: the value extracted before the run, or None
    Contexts,       \* identities of the context a question is asked with
    Context(_, _),  \* Context(s, view): the context step s resolves to
    Outcomes(_, _), \* Outcomes(s, view): what the step may compute or answer
    MaxWorkers,     \* threads of the pool
    MaxRuns,        \* bound: calls of run() and resume() together
    MaxCrashes,     \* bound: process crashes
    None,           \* no value, no artifact
    Rejected        \* a transform that raises, an answer that is refused

Steps == 1 .. NSteps
Dispositions == {"reuse", "blocked", "review", "validate", "deterministic", "semantic"}
Blocking == {"failed", "blocked", "review_needed"}
StepStates == Blocking \cup {"succeeded"}
ExecutionStates == {"none", "running", "succeeded", "partial", "failed", "cancelled"}
Results == {"none", "published", "held", "review", "blocked", "failed", "cancelled"}

\* A view maps every field to the value a step sees there; an outcome maps the
\* fields a step produced to their values.  None: absent, omitted.
Views == [Fields -> Values \cup {None}]
Artifacts ==
    [field : Fields, step : 0 .. NSteps, val : Values, lineage : Views]
Bundles == [Fields -> Artifacts \cup {None}]
RecordPlans ==
    [blocked : BOOLEAN, disposition : [Steps -> Dispositions]]
Questions == Steps \X Contexts

ASSUME StepsAssumption == NSteps \in Nat /\ NSteps > 0
ASSUME ShapeAssumption ==
    /\ Writes \in [Steps -> Seq(Fields)]
    /\ Reads \in [Steps -> SUBSET Fields]
    /\ Plans \subseteq RecordPlans
    /\ Initial \in Views
    /\ Flagged \subseteq Values
    /\ Invalid \subseteq Values
    /\ Required \subseteq Target
    /\ Target \subseteq Fields
ASSUME NoneAssumption ==
    /\ None \notin Values \cup Artifacts \cup Views \cup Questions
    /\ Rejected \notin Views \cup {None}
ASSUME OutcomeAssumption ==
    \A s \in Steps : \A view \in Views :
        /\ Outcomes(s, view) \subseteq Views \cup {Rejected}
        /\ Context(s, view) \in Contexts
ASSUME BoundsAssumption == MaxWorkers \in Nat /\ MaxRuns \in Nat /\ MaxCrashes \in Nat

VARIABLES
    \* Durable: rows of the store.
    plan,       \* the stored plan, per record
    execution,  \* state of the execution row
    artifacts,  \* field_artifact rows, per record
    newest,     \* the newest artifact of each field (latest_per_key)
    cache,      \* answer per question, per record
    checkpoint, \* execution_step rows, per record and step
    skipped,    \* records with a "__record__" checkpoint (blocked plans)
    items,      \* <<step, field>> of the open review items, per record
    versions,   \* record_version rows, per record
    pointer,    \* record_pointer: the version consumers see
    \* Volatile: the engine process.
    up,         \* a run() is in progress
    selected,   \* the records it was asked for
    cancel,     \* its cancellation event
    pc,         \* where each record's worker stands
    at,         \* the step it is at
    loaded,     \* artifacts it read when it started
    produced,   \* artifacts of this run, by field
    status,     \* step statuses of this run
    hand,       \* the outcome of the step in progress
    result,     \* ExecutionResult.records
    \* Counters: history and bounds.
    runs, crashes,
    paid,       \* model answers bought, per question
    lost        \* answers bought and gone before they reached the cache

durable == <<plan, execution, artifacts, newest, cache, checkpoint, skipped, items,
             versions, pointer>>
work == <<pc, at, loaded, produced, status, hand, result>>
counters == <<runs, crashes, paid, lost>>
vars == <<durable, up, selected, cancel, work, counters>>

-----------------------------------------------------------------------------
NoView == [f \in Fields |-> None]
NoBundle == [f \in Fields |-> None]
NoHand == [question |-> None, lineage |-> NoView, outcome |-> Rejected, first |-> None]
PCs == {"idle", "step", "asked", "answered", "stored", "opened", "done"}
Active == PCs \ {"idle", "done"}

\* Content address: an artifact is what was computed, by which step, from what.
Artifact(f, s, v, lineage) == [field |-> f, step |-> s, val |-> v, lineage |-> lineage]

WriteSet(s) == {Writes[s][i] : i \in DOMAIN Writes[s]}
InSet(bundle) == {bundle[f] : f \in Fields} \ {None}
Overlay(low, high) == [f \in Fields |-> IF high[f] = None THEN low[f] ELSE high[f]]
ValueOf(bundle, f) == IF bundle[f] = None THEN None ELSE bundle[f].val

\* _reads_for: what a step sees of its inputs.
ViewOf(s, bundle) == [f \in Fields |-> IF f \in Reads[s] THEN ValueOf(bundle, f) ELSE None]

\* The lineage kept in the content address: a deterministic step leaves out
\* the fields it edits in place.
LineageOf(s, disposition, view) ==
    [f \in Fields |->
        IF disposition = "deterministic" /\ f \in WriteSet(s) THEN None ELSE view[f]]

\* The artifacts of an outcome; a field the outcome omits gets none.
Computed(s, outcome, lineage) ==
    {Artifact(f, s, outcome[f], lineage) : f \in {g \in WriteSet(s) : outcome[g] # None}}
ByField(s, outcome, lineage) ==
    [f \in Fields |->
        IF f \in WriteSet(s) /\ outcome[f] # None
        THEN Artifact(f, s, outcome[f], lineage) ELSE None]
\* artifacts[0], in the order the step declares its writes.
Firsts(s, outcome, lineage) ==
    LET arts == Computed(s, outcome, lineage)
    IN  IF arts = {} THEN {None}
        ELSE {a \in arts : \E i \in DOMAIN Writes[s] :
                  /\ Writes[s][i] = a.field
                  /\ \A j \in 1 .. (i - 1) : outcome[Writes[s][j]] = None}

StepPlan(r) == plan[r].disposition[at[r]]
Available(r) == Overlay(loaded[r], produced[r])

-----------------------------------------------------------------------------
\* Records the planner found settled before the run: one artifact per value.
InitialArtifact(f) ==
    IF Initial[f] = None THEN None ELSE Artifact(f, 0, Initial[f], NoView)
InitialBundle == [f \in Fields |-> InitialArtifact(f)]
InitialVersion == [arts |-> InSet(InitialBundle), depth |-> 0]
Row(version, state) == [arts |-> version.arts, depth |-> version.depth, state |-> state]

Init ==
    /\ plan \in [Records -> Plans]
    /\ execution = "none"
    /\ artifacts = [r \in Records |-> InSet(InitialBundle)]
    /\ newest = [r \in Records |-> InitialBundle]
    /\ cache = [r \in Records |-> [q \in Questions |-> None]]
    /\ checkpoint = [r \in Records |-> [s \in Steps |-> [state |-> "none", art |-> None]]]
    /\ skipped = {}
    /\ items = [r \in Records |-> {}]
    /\ versions = [r \in Records |-> {Row(InitialVersion, "published")}]
    /\ pointer = [r \in Records |-> InitialVersion]
    /\ up = FALSE
    /\ selected = {}
    /\ cancel = FALSE
    /\ pc = [r \in Records |-> "idle"]
    /\ at = [r \in Records |-> 1]
    /\ loaded = [r \in Records |-> NoBundle]
    /\ produced = [r \in Records |-> NoBundle]
    /\ status = [r \in Records |-> [s \in Steps |-> "none"]]
    /\ hand = [r \in Records |-> NoHand]
    /\ result = [r \in Records |-> "none"]
    /\ runs = 0
    /\ crashes = 0
    /\ paid = [r \in Records |-> [q \in Questions |-> 0]]
    /\ lost = [r \in Records |-> [q \in Questions |-> 0]]

-----------------------------------------------------------------------------
(* The run: run(), resume(), cancel(), and the end of the pool.            *)

ForgetWork ==
    /\ pc' = [r \in Records |-> "idle"]
    /\ at' = [r \in Records |-> 1]
    /\ loaded' = [r \in Records |-> NoBundle]
    /\ produced' = [r \in Records |-> NoBundle]
    /\ status' = [r \in Records |-> [s \in Steps |-> "none"]]
    /\ hand' = [r \in Records |-> NoHand]
    /\ result' = [r \in Records |-> "none"]

\* run() takes every record of the plan, or those of them it is asked for.
BeginRun ==
    /\ ~up
    /\ runs < MaxRuns
    /\ up' = TRUE
    /\ selected' \in SUBSET Records
    /\ cancel' = FALSE
    /\ runs' = runs + 1
    /\ execution' = "running"
    /\ ForgetWork
    /\ UNCHANGED <<plan, artifacts, newest, cache, checkpoint, skipped, items, versions,
                   pointer, crashes, paid, lost>>

\* A fresh execution: the plan and the execution row are stored.
Run == execution = "none" /\ BeginRun

\* The same plan again, whatever the first run came to and whichever records it
\* was for; the cancellation event is dropped.
Resume == execution # "none" /\ BeginRun

\* Mutant: the records' own word for a state, not an execution state.
FinalStatus_Raw == IF \E r \in selected : result[r] = "blocked" THEN "blocked" ELSE "succeeded"
\* Mutant: a record that waits for a curator counts as done.
FinalStatus_Lenient ==
    IF cancel THEN "cancelled"
    ELSE IF {result[r] : r \in selected} \subseteq {"published", "review"} THEN "succeeded"
    ELSE "partial"

\* ExecutionResult.records, the records of this run, decides what it is called; a
\* run of no record succeeds.
FinalStatus ==
    LET states == {result[r] : r \in selected}
    IN  IF cancel THEN "cancelled"
        ELSE IF states \subseteq {"published"} THEN "succeeded"
        ELSE IF "published" \in states \/ states \subseteq {"blocked", "review", "held"}
             THEN "partial"
        ELSE "failed"

\* Every future has returned: the execution row is updated and run() returns.
EndRun ==
    /\ up
    /\ \A r \in selected : pc[r] = "done"
    /\ execution' = FinalStatus
    /\ up' = FALSE
    /\ UNCHANGED <<plan, artifacts, newest, cache, checkpoint, skipped, items, versions,
                   pointer, selected, cancel, work, counters>>

Cancel ==
    /\ up
    /\ ~cancel
    /\ cancel' = TRUE
    /\ UNCHANGED <<durable, up, selected, work, counters>>

\* What the process held is gone; an answer in transit was paid for.
Crash ==
    /\ up
    /\ crashes < MaxCrashes
    /\ crashes' = crashes + 1
    /\ up' = FALSE
    /\ selected' = {}
    /\ cancel' = FALSE
    /\ lost' = [r \in Records |->
                  [q \in Questions |->
                     IF pc[r] = "asked" /\ hand[r].question = q
                     THEN lost[r][q] + 1 ELSE lost[r][q]]]
    /\ ForgetWork
    /\ UNCHANGED <<durable, runs, paid>>

-----------------------------------------------------------------------------
(* A record: _run_record_guarded, _run_record, _finish_record.             *)

\* A thread of the pool is free.
WorkerFree == Cardinality({r \in Records : pc[r] \in Active}) < MaxWorkers

Finish(r, outcome) ==
    /\ result' = [result EXCEPT ![r] = outcome]
    /\ pc' = [pc EXCEPT ![r] = "done"]
    /\ hand' = [hand EXCEPT ![r] = NoHand]
    /\ UNCHANGED <<at, loaded, produced, status>>

StartRecord(r) ==
    /\ up
    /\ r \in selected
    /\ pc[r] = "idle"
    /\ WorkerFree
    /\ ~plan[r].blocked
    /\ pc' = [pc EXCEPT ![r] = "step"]
    /\ loaded' = [loaded EXCEPT ![r] = newest[r]]
    /\ UNCHANGED <<durable, up, selected, cancel, at, produced, status, hand, result, counters>>

BlockRecord(r) ==
    /\ up
    /\ r \in selected
    /\ pc[r] = "idle"
    /\ WorkerFree
    /\ plan[r].blocked
    /\ skipped' = skipped \cup {r}
    /\ Finish(r, "blocked")
    /\ UNCHANGED <<plan, execution, artifacts, newest, cache, checkpoint, items, versions,
                   pointer, up, selected, cancel, counters>>

\* Mutant: off by one, the last step is never cancelled.
CancelRecord_Late(r) ==
    /\ up
    /\ pc[r] = "step"
    /\ at[r] < NSteps
    /\ cancel
    /\ Finish(r, "cancelled")
    /\ UNCHANGED <<durable, up, selected, cancel, counters>>

\* The event is looked at before every step, and nowhere else.
CancelRecord(r) ==
    /\ up
    /\ pc[r] = "step"
    /\ at[r] <= NSteps
    /\ cancel
    /\ Finish(r, "cancelled")
    /\ UNCHANGED <<durable, up, selected, cancel, counters>>

\* An exception _run_step does not catch: the record fails, no checkpoint.
RaiseRecord(r) ==
    /\ up
    /\ pc[r] \in Active
    /\ lost' = IF pc[r] = "asked"
               THEN [lost EXCEPT ![r][hand[r].question] = @ + 1] ELSE lost
    /\ Finish(r, "failed")
    /\ UNCHANGED <<durable, up, selected, cancel, runs, crashes, paid>>

\* What _finish_record assembles: one artifact per target field, by the key it
\* was produced under.
Merged(r) == Overlay(loaded[r], produced[r])
Chosen(r) == {Merged(r)[f] : f \in Target} \ {None}
\* Mutant: a step stopped by the budget does not hold the record.
Held_NoBlocked(r) == \E s \in Steps : status[r][s] \in {"failed", "review_needed"}
Held(r) == \E s \in Steps : status[r][s] \in Blocking
\* Mutant: only presence is validated, not the values.
StructuralFailure_Shape(r) == Required \ {a.field : a \in Chosen(r)} # {}
\* validate_artifacts: a refused value, or a required field no artifact is for.
StructuralFailure(r) ==
    \/ \E a \in Chosen(r) : a.val \in Invalid
    \/ Required \ {a.field : a \in Chosen(r)} # {}
NextVersion(r) == [arts |-> Chosen(r), depth |-> pointer[r].depth + 1]
HasRow(r, version) ==
    \E row \in versions[r] : row.arts = version.arts /\ row.depth = version.depth

AtEnd(r) == up /\ pc[r] = "step" /\ at[r] > NSteps

\* put_record_version: INSERT OR IGNORE of a draft that never becomes current.
HoldRecord(r) ==
    LET state == IF (\E s \in Steps : status[r][s] = "review_needed") /\ ~StructuralFailure(r)
                 THEN "review_needed" ELSE "failed"
    IN  /\ AtEnd(r)
        /\ Held(r) \/ StructuralFailure(r)
        /\ versions' = IF HasRow(r, NextVersion(r)) THEN versions
                       ELSE [versions EXCEPT ![r] = @ \cup {Row(NextVersion(r), state)}]
        /\ Finish(r, IF state = "review_needed" THEN "review" ELSE "held")
        /\ UNCHANGED <<plan, execution, artifacts, newest, cache, checkpoint, skipped,
                       items, pointer, up, selected, cancel, counters>>

\* SqliteStore.publish: the row (unless it exists), the row of the version it
\* supersedes and the pointer, in one transaction.
PublishRecord(r) ==
    LET new == NextVersion(r)
        Superseded(row) ==
            IF row.arts = pointer[r].arts /\ row.depth = pointer[r].depth
            THEN [row EXCEPT !.state = "superseded"] ELSE row
    IN  /\ AtEnd(r)
        /\ ~Held(r)
        /\ ~StructuralFailure(r)
        /\ versions' = [versions EXCEPT ![r] =
                          {Superseded(row) : row \in @}
                          \cup (IF HasRow(r, new) THEN {} ELSE {Row(new, "published")})]
        /\ pointer' = [pointer EXCEPT ![r] = new]
        /\ Finish(r, "published")
        /\ UNCHANGED <<plan, execution, artifacts, newest, cache, checkpoint, skipped,
                       items, up, selected, cancel, counters>>

-----------------------------------------------------------------------------
(* A step: the body of the loop in _run_record, _run_step, _run_semantic.  *)

\* The worker takes its next step: not cancelled, not already succeeded.
Takes(r, dispositions) ==
    /\ up
    /\ pc[r] = "step"
    /\ at[r] <= NSteps
    /\ ~cancel
    /\ checkpoint[r][at[r]].state # "succeeded"
    /\ StepPlan(r) \in dispositions

\* _checkpoint, and on to the next step with what the step produced.
Settle(r, state, art, bundle) ==
    /\ checkpoint' = [checkpoint EXCEPT ![r][at[r]] = [state |-> state, art |-> art]]
    /\ status' = [status EXCEPT ![r][at[r]] = state]
    /\ produced' = [produced EXCEPT ![r] = bundle]
    /\ at' = [at EXCEPT ![r] = @ + 1]
    /\ pc' = [pc EXCEPT ![r] = "step"]
    /\ hand' = [hand EXCEPT ![r] = NoHand]
    /\ UNCHANGED <<loaded, result>>

\* A step that succeeded before is not run: every field it writes gets the one
\* artifact its checkpoint names, or else what the record started with.
SkipStep(r) ==
    LET s == at[r]
        named == checkpoint[r][s].art
    IN  /\ up
        /\ pc[r] = "step"
        /\ s <= NSteps
        /\ ~cancel
        /\ checkpoint[r][s].state = "succeeded"
        /\ status' = [status EXCEPT ![r][s] = "succeeded"]
        /\ produced' = [produced EXCEPT ![r] =
              [f \in Fields |->
                 IF f \notin WriteSet(s) THEN @[f]
                 ELSE IF named # None /\ named \in artifacts[r] THEN named
                 ELSE IF loaded[r][f] # None THEN loaded[r][f]
                 ELSE @[f]]]
        /\ at' = [at EXCEPT ![r] = @ + 1]
        /\ UNCHANGED <<durable, up, selected, cancel, pc, loaded, hand, result, counters>>

ReuseStep(r) ==
    /\ Takes(r, {"reuse"})
    /\ Settle(r, "succeeded", None,
              [f \in Fields |-> IF f \in WriteSet(at[r]) THEN Available(r)[f]
                                ELSE produced[r][f]])
    /\ UNCHANGED <<plan, execution, artifacts, newest, cache, skipped, items, versions,
                   pointer, up, selected, cancel, counters>>

\* Dispositions that only leave a checkpoint.
MarkStep(r) ==
    /\ Takes(r, {"blocked", "validate"})
    /\ Settle(r, IF StepPlan(r) = "blocked" THEN "blocked" ELSE "succeeded",
              None, produced[r])
    /\ UNCHANGED <<plan, execution, artifacts, newest, cache, skipped, items, versions,
                   pointer, up, selected, cancel, counters>>

\* Mutant: one item per step, for the first field it writes.
OpenItems_First(r, first) ==
    /\ items' = [items EXCEPT ![r] = @ \cup {<<at[r], Writes[at[r]][1]>>}]
    /\ pc' = [pc EXCEPT ![r] = "opened"]
    /\ hand' = [hand EXCEPT ![r].first = first]
    /\ UNCHANGED <<at, loaded, status, result>>

\* _open_review: an item per field the step writes; an upsert, always "open".
OpenItems(r, first) ==
    /\ items' = [items EXCEPT ![r] = @ \cup {<<at[r], f>> : f \in WriteSet(at[r])}]
    /\ pc' = [pc EXCEPT ![r] = "opened"]
    /\ hand' = [hand EXCEPT ![r].first = first]
    /\ UNCHANGED <<at, loaded, status, result>>

ReviewStep(r) ==
    /\ Takes(r, {"review"})
    /\ OpenItems(r, None)
    /\ UNCHANGED <<plan, execution, artifacts, newest, cache, checkpoint, skipped,
                   versions, pointer, up, selected, cancel, produced, counters>>

View(r) == ViewOf(at[r], Available(r))
Question(r) == <<at[r], Context(at[r], View(r))>>
Asking(r) == [question |-> Question(r), lineage |-> LineageOf(at[r], StepPlan(r), View(r)),
              outcome |-> Rejected, first |-> None]

\* Has the step's outcome in hand, and the view it was worked out from.
TakeUp(r, where, outcome) ==
    /\ pc' = [pc EXCEPT ![r] = where]
    /\ hand' = [hand EXCEPT ![r] = [Asking(r) EXCEPT !.outcome = outcome]]
    /\ UNCHANGED <<at, loaded, produced, status, result>>

RunTransform(r) ==
    /\ Takes(r, {"deterministic"})
    /\ \E outcome \in Outcomes(at[r], View(r)) : TakeUp(r, "answered", outcome)
    /\ UNCHANGED <<durable, up, selected, cancel, counters>>

UseCache(r) ==
    /\ Takes(r, {"semantic"})
    /\ cache[r][Question(r)] # None
    /\ TakeUp(r, "answered", cache[r][Question(r)])
    /\ UNCHANGED <<durable, up, selected, cancel, counters>>

\* A billable call that came back with an answer.
CallModel(r) ==
    /\ Takes(r, {"semantic"})
    /\ cache[r][Question(r)] = None
    /\ \E answer \in Outcomes(at[r], View(r)) : TakeUp(r, "asked", answer)
    /\ paid' = [paid EXCEPT ![r][Question(r)] = @ + 1]
    /\ UNCHANGED <<durable, up, selected, cancel, runs, crashes, lost>>

\* No answer: no context, every model failed ("failed"); the budget is spent or
\* the policy forbids the context ("blocked").
RefuseStep(r) ==
    /\ Takes(r, {"semantic"})
    /\ cache[r][Question(r)] = None
    /\ \E state \in {"failed", "blocked"} : Settle(r, state, None, produced[r])
    /\ UNCHANGED <<plan, execution, artifacts, newest, cache, skipped, items, versions,
                   pointer, up, selected, cancel, counters>>

\* No answer, and a curator is asked instead: on_missing_context = review.
DeferStep(r) ==
    /\ Takes(r, {"semantic"})
    /\ cache[r][Question(r)] = None
    /\ OpenItems(r, None)
    /\ UNCHANGED <<plan, execution, artifacts, newest, cache, checkpoint, skipped,
                   versions, pointer, up, selected, cancel, produced, counters>>

\* The answer is bought but not kept: the fingerprint is not the pinned one.
DropAnswer(r) ==
    /\ up
    /\ pc[r] = "asked"
    /\ OpenItems(r, None)
    /\ lost' = [lost EXCEPT ![r][hand[r].question] = @ + 1]
    /\ UNCHANGED <<plan, execution, artifacts, newest, cache, checkpoint, skipped,
                   versions, pointer, up, selected, cancel, produced, runs, crashes, paid>>

\* Mutant: only an answer the validators accept is cached.
KeepAnswer_Accepted(r) ==
    /\ up
    /\ pc[r] = "asked"
    /\ cache' = IF hand[r].outcome = Rejected THEN cache
                ELSE [cache EXCEPT ![r][hand[r].question] = hand[r].outcome]
    /\ pc' = [pc EXCEPT ![r] = "answered"]
    /\ UNCHANGED <<plan, execution, artifacts, newest, checkpoint, skipped, items,
                   versions, pointer, up, selected, cancel, at, loaded, produced, status, hand,
                   result, counters>>

\* cache_put, before the answer is looked at: a refused answer is kept as well.
KeepAnswer(r) ==
    /\ up
    /\ pc[r] = "asked"
    /\ cache' = [cache EXCEPT ![r][hand[r].question] = hand[r].outcome]
    /\ pc' = [pc EXCEPT ![r] = "answered"]
    /\ UNCHANGED <<plan, execution, artifacts, newest, checkpoint, skipped, items,
                   versions, pointer, up, selected, cancel, at, loaded, produced, status, hand,
                   result, counters>>

\* The answer is bought but not kept: the postprocessor raised.
SpoilAnswer(r) ==
    /\ up
    /\ pc[r] = "asked"
    /\ Settle(r, "failed", None, produced[r])
    /\ lost' = [lost EXCEPT ![r][hand[r].question] = @ + 1]
    /\ UNCHANGED <<plan, execution, artifacts, newest, cache, skipped, items, versions,
                   pointer, up, selected, cancel, runs, crashes, paid>>

\* The transform raised, or a validator refused the answer.
FailStep(r) ==
    /\ up
    /\ pc[r] = "answered"
    /\ hand[r].outcome = Rejected
    /\ Settle(r, "failed", None, produced[r])
    /\ UNCHANGED <<plan, execution, artifacts, newest, cache, skipped, items, versions,
                   pointer, up, selected, cancel, counters>>

\* Mutant: the artifacts wait for one batch at the end of the record.
StoreArtifacts_Batch(r) ==
    /\ up
    /\ pc[r] = "answered"
    /\ hand[r].outcome # Rejected
    /\ produced' = [produced EXCEPT ![r] =
                      Overlay(@, ByField(at[r], hand[r].outcome, hand[r].lineage))]
    /\ pc' = [pc EXCEPT ![r] = "stored"]
    /\ \E first \in Firsts(at[r], hand[r].outcome, hand[r].lineage) :
          hand' = [hand EXCEPT ![r].first = first]
    /\ UNCHANGED <<durable, up, selected, cancel, at, loaded, status, result, counters>>

\* put_artifacts: INSERT OR IGNORE, so an artifact stored before keeps its age.
StoreArtifacts(r) ==
    LET s == at[r]
        new == ByField(s, hand[r].outcome, hand[r].lineage)
    IN  /\ up
        /\ pc[r] = "answered"
        /\ hand[r].outcome # Rejected
        /\ artifacts' = [artifacts EXCEPT ![r] =
                            @ \cup Computed(s, hand[r].outcome, hand[r].lineage)]
        /\ newest' = [newest EXCEPT ![r] =
                        [f \in Fields |-> IF new[f] # None /\ new[f] \notin artifacts[r]
                                          THEN new[f] ELSE @[f]]]
        /\ produced' = [produced EXCEPT ![r] = Overlay(@, new)]
        /\ pc' = [pc EXCEPT ![r] = "stored"]
        /\ \E first \in Firsts(s, hand[r].outcome, hand[r].lineage) :
              hand' = [hand EXCEPT ![r].first = first]
        /\ UNCHANGED <<plan, execution, cache, checkpoint, skipped, items, versions,
                       pointer, up, selected, cancel, at, loaded, status, result, counters>>

FlaggedOutcome(r) == \E f \in WriteSet(at[r]) : hand[r].outcome[f] \in Flagged

\* A flagged value is stored but sends the step to a curator.
FlagStep(r) ==
    /\ up
    /\ pc[r] = "stored"
    /\ FlaggedOutcome(r)
    /\ OpenItems(r, hand[r].first)
    /\ UNCHANGED <<plan, execution, artifacts, newest, cache, checkpoint, skipped,
                   versions, pointer, up, selected, cancel, produced, counters>>

CheckpointReview(r) ==
    /\ up
    /\ pc[r] = "opened"
    /\ Settle(r, "review_needed", hand[r].first, produced[r])
    /\ UNCHANGED <<plan, execution, artifacts, newest, cache, skipped, items, versions,
                   pointer, up, selected, cancel, counters>>

CheckpointSuccess(r) ==
    /\ up
    /\ pc[r] = "stored"
    /\ ~FlaggedOutcome(r)
    /\ Settle(r, "succeeded", hand[r].first, produced[r])
    /\ UNCHANGED <<plan, execution, artifacts, newest, cache, skipped, items, versions,
                   pointer, up, selected, cancel, counters>>

-----------------------------------------------------------------------------
\* What a thread of the pool does for record r.
Work(r) ==
    \/ StartRecord(r) \/ BlockRecord(r) \/ CancelRecord(r)
    \/ SkipStep(r) \/ ReuseStep(r) \/ MarkStep(r) \/ ReviewStep(r)
    \/ RunTransform(r) \/ UseCache(r) \/ CallModel(r) \/ RefuseStep(r) \/ DeferStep(r)
    \/ DropAnswer(r) \/ SpoilAnswer(r) \/ KeepAnswer(r) \/ FailStep(r) \/ StoreArtifacts(r) \/ FlagStep(r)
    \/ CheckpointReview(r) \/ CheckpointSuccess(r)
    \/ HoldRecord(r) \/ PublishRecord(r)

Next ==
    \/ Run \/ Resume \/ EndRun \/ Cancel \/ Crash
    \/ \E r \in Records : Work(r) \/ RaiseRecord(r)

\* A thread that can go on does, and run() returns when its futures have; no
\* one has to resume, cancel or crash.
Fairness == WF_vars(EndRun) /\ \A r \in Records : WF_vars(Work(r))

Spec == Init /\ [][Next]_vars /\ Fairness

=============================================================================

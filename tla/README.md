# A TLA+ model of llmbic

llmbic keeps a corpus of records that a language model extracted from documents
in step with a schema that changes ("Alembic for LLM-extracted records"). A
migration is a list of steps; some are plain transforms, some ask a model again.
A planner decides, per record, which steps have work to do; an engine runs the
approved plan over the corpus with a pool of threads, pays for model calls,
checkpoints every step in a SQLite store, and publishes a record's new version
when all of its steps have succeeded. Runs are interrupted, cancelled, resumed,
and stopped halfway by a budget or by a curator's queue, and the promises of the
README (atomic publication, nothing paid twice, staleness is noticed) are about
exactly those histories. That is what is modelled here.

Paths below are relative to the repository; source lines are those of the commit
the models were written from.

## Contents

1. Inventory of the system
2. Plan: modules, composition, runs, theorems
3. The models: the engine and what it promises, a call, the review queue, the
   registry, the planner, context and evidence
4. Runs, bounds, and what they show
5. Fairness
6. Proofs
7. Where the program and its documentation part ways
8. Not modelled

## 1. Inventory

### Store (`src/llmbic/store/`, `provenance.py`, `records.py`)

*State.* One SQLite database, one connection under a lock: registry, sources and
parses, `field_artifact` (content addressed, insert-or-ignore), `record_version`
(content addressed, insert-or-ignore), `record_pointer` (the version consumers
see), `record_index`, `plan`, `execution`, `execution_step` (checkpoints, an
upsert), `attempt`, `cache` (insert-or-ignore), `review_item` (an upsert),
`review_event`.
*Operations.* Each method is a transaction; `publish` is the only one that
touches several tables.
*Hard.* Everything durable happens in an order of separate commits, and a process
may stop between any two. Content addresses leave some inputs out on purpose;
insert-or-ignore keeps the age of the first insert, and "the newest artifact of a
field" is what later plans and runs start from.
*Correct when* nothing refers to a row that is not there; the pointer moves with
its version; content that comes back is recognised as the same.

### Engine (`execution/engine.py`, `execution/state.py`)

*State.* Durable: all through the store. In memory: per run, a cancellation
event, the money spent and calls made, the results and metrics; per record, the
artifacts loaded, those produced, the status of each step.
*Operations.* `run`, `resume`, `cancel`; per record `_run_record`,
`_finish_record`; per step `_run_step` with its dispositions (reuse, blocked,
review, validate, deterministic, semantic and cached), `_run_semantic`, `_ask`,
`_call_model`, `_open_review`, `_checkpoint`.
*Interactions.* Called by the project and the CLI with a plan from the planner;
calls context resolution, model adapters, transforms, validators, and the store.
*Hard.* Threads share the result, the budget and the limiters; a resumed run
rebuilds its picture of a record from checkpoints and from whatever is newest in
the store; a failed step does not stop the steps behind it.
*Correct when* a record is published only complete and validated; an answer is
bought once; a resumed run does what an uninterrupted one would have done; every
run ends and its name for how it ended is the truth.

### Model calls (`models/`, and `_call_model`, `_reserve_budget` of the engine)

*State.* Spend and call count of the run under a lock, one rate limiter per
adapter, the attempt rows.
*Operations.* Reserve, wait for the limiter, ask, retry with backoff, fall back to
the next adapter, settle, record the attempt.
*Hard.* The cap is checked before the call and charged after it; the limiter is
shared and unlocked; what was spent reaches the store only when the run returns.
*Correct when* the overshoot of a cap is bounded, every candidate is tried before
the question fails, every attempt leaves a row.

### Context and escalation (`context/`, and `_ask`)

*State.* None of its own; a policy is a chain of sources with a ceiling.
*Operations.* Resolve the chain for a field; widen it when the model asks.
*Hard.* Every level is a question of its own with its own cache key; the walk must
end, and must not end beyond what the policy permits.

### Planner (`planner/`)

*State.* None durable except the plan it returns.
*Operations.* Find the migration path; per record and step, compare the hashes an
artifact recorded with those that hold now; give the step a disposition; link
steps by what they read; price the result.
*Hard.* Currency is judged against stored values, though the plan itself changes
some of them; steps of different migrations are ordered by dependencies and,
failing those, by key.
*Correct when* every stale field gets a step or a reason, no step runs before what
it reads, a run takes a record forward, and planning and running come to an end.

### Registry, schemas, migrations (`registry.py`, `schema/`, `migration/`)

*State.* Schemas, migrations, recipes, vocabularies, and the graph of upgrades.
*Operations.* Register (refusing a second approved migration between two
versions), find paths, diff schemas, scaffold a migration.
*Correct when* no version can be upgraded to itself, a path is found exactly when there
is one within the bound, it is the only best one, and what was registered in one order
can be registered again in another.

### Validation, review, diff, evaluation (`validation.py`, `review.py`, `diffing.py`, `evaluation.py`)

*State.* Review items and events, through the store.
*Operations.* `decide`, JSONL export and import, `accept_legacy_value`,
validators, reports.
*Hard.* A decision is an event, a read and a write of the item, and an artifact; the
engine may raise the same item again while a curator decides it, and a curator's file
may be older than the item.
*Correct when* a row that says it was decided has the event of that decision, a value in
a person's name was decided by that person, an open row shows what its step said last,
and history only grows.

### Re-anchoring (`reanchor.py`, `source.py`)

*State.* The parses of a source, the spans of each artifact, the parse the record's
index row names.
*Operations.* Import with evidence, add a parse, resolve a span, move spans to another
parse, store the moved artifacts.
*Hard.* A quote may occur twice, nowhere, or at the same place with other text; a moved
artifact keeps the timestamp of its original.
*Correct when* every span that is kept is the text it recorded, and every quote is a
span or counted as unlocated, however often evidence is moved.

### Recipes, values, identifiers, interfaces

`recipe.py`, `values.py`, `ids.py`, `functions.py` are immutable data and hashing;
`project.py`, `cli.py`, `config.py` are thin callers.

### Behaviours hard to test

The full list, each at its line and with the property that covers it or the reason
none does, is under `hazards` in `PROJECT.json`. The engine's are: a
stop between two commits of one step; upstream steps that fail in one run and
succeed in the next; steps with several outputs rebuilt from one checkpoint; a
cache key that does not know what the prompt was made of; cancellation between
steps; in-place edits that are replayed.

## 2. Plan

In this order, the most important behaviour first. All of it is written.

| module | models | composed with |
|---|---|---|
| `Publication` | what publication promises (abstract) | refined by `Engine` |
| `Engine` | runs, records, steps, store transactions, crashes | |
| `EngineProperties`, `Engine_proofs` | invariants, refinement, liveness, theorems of `Engine` | |
| `ModelCalls` | a call: reserve, limiter, retries, fallback, settle; threads share the budget; crash | what `Engine` takes as one action |
| `ModelCallsProperties`, `ModelCalls_proofs` | invariants, liveness, theorems of `ModelCalls` | |
| `Review` | the queue: the engine's replays of a step beside curators who export, decide and import, every commit a step | what `Engine` takes as raising an item, and what happens to it afterwards |
| `ReviewProperties`, `Review_proofs` | invariants, an action property, liveness, theorems of `Review` | |
| `Recursion_proofs` | induction on a number and recursion up to one, in the form the provers can use | used by the proofs of the registry, the planner and the context |
| `Registry` | schemas, recipes, migrations, the graph of upgrades, paths | |
| `RegistryProperties`, `Registry_proofs` | what a path and a registration owe; theorems | |
| `Planner` | currency, dispositions, order of steps, plans, and runs seen from the planner | extends `Registry`, whose actions interleave with its own |
| `PlannerProperties`, `Planner_proofs` | what a plan owes its reader; that replanning settles; theorems | extend `Registry_proofs` |
| `Evidence`, `Evidence_proofs` | parses, spans, moving them; what the operators on texts and spans return | |
| `Context` | the chain of sources of a policy, the walk down it, the cache | extends `Evidence`, whose actions interleave with its own |
| `ContextProperties`, `Context_proofs` | what a question may show and cost; evidence; theorems | |

`MCEngine`, `MCModelCalls`, `MCRegistry`, `MCPlanner` and `MCContext` give the constants
values for TLC; `Review` needs none but those in its `.cfg`.

What the code would still allow, in the order of what it adds: two processes on one
execution row (`store/sqlite.py:557`); nested records in the planner, where an entity may
be new. What is left to prove is liveness, which is out of the prover's reach (section 6).

## 3. The models

### `Engine.tla`

The state is in two halves. *Durable* variables are the rows of the store:
`plan`, `execution`, `artifacts` and `newest` (`field_artifact` and the newest row
of each field), `cache`, `checkpoint` (`execution_step`), `skipped` (the
`__record__` checkpoint of a blocked record), `items` (`review_item`), `versions`,
`pointer`. *Volatile* variables are the process: `up`, `selected` (the records this
run was asked for: `run` and `resume` take all of the plan's or the `record_ids`
given), `cancel`, and per record `pc`, `at` (the step it is at), `loaded`,
`produced`, `status`, `hand` (the outcome of the step in progress) and `result`.
`runs` and `crashes` are bounds; `paid` and `lost` are history.

One action per operation, cut where the program commits:

| action | code |
|---|---|
| `Run`, `Resume`, `EndRun`, `Cancel` | `run`, `resume`, `cancel` (206-336) |
| `Crash` | the process stops anywhere; memory is gone, rows stay |
| `StartRecord`, `BlockRecord`, `CancelRecord`, `RaiseRecord` | `_run_record_guarded`, `_run_record` (339-449) |
| `SkipStep` | a step whose checkpoint says succeeded (418-429) |
| `ReuseStep`, `MarkStep`, `ReviewStep` | the dispositions that compute nothing (552-587) |
| `RunTransform` | `_run_deterministic` (707-790) |
| `CallModel`, `KeepAnswer`, `DropAnswer`, `SpoilAnswer`, `UseCache` | a call that returned; `cache_put`; the answer refused for its fingerprint; a postprocessor that raises an error of the program's own (997-1000, handled at 633); a hit (946-1010, 1119-1227) |
| `RefuseStep`, `DeferStep`, `FailStep` | `_run_step`'s handlers (611-652) |
| `StoreArtifacts`, `FlagStep`, `CheckpointReview`, `CheckpointSuccess` | the rest of `_run_step` (653-704) |
| `HoldRecord`, `PublishRecord` | `_finish_record` (451-527), `SqliteStore.publish` |

A step is therefore several actions: *answered*, *artifacts stored*, *items opened*,
*checkpointed*; the crash and the other threads fall between any two.

Data is reduced to what the properties tell apart. An artifact is its content
address: field, step, value and lineage (`identity_part`). What a transform or a
model computes is a constant, `Outcomes(step, view)`: a set of partial maps from
fields to values, or `Rejected`; a transform may leave a field out, and a validator
may refuse or flag. `Context(step, view)` is what the prompt's documents are
resolved to; the cache key is the step and that context, **not** the view, because
that is what `cache_key` is given: the plan's dependencies, fixed at planning time.
`Plans` is the set of record plans the planner may have produced; the model takes
any of them.

Abstractions, and why they are safe for what is checked:

- one artifact per field: entities of a record (nested collections) are keyed apart
  everywhere in the engine, so they behave as further fields;
- a model call is the whole retry and fallback loop (which `ModelCalls` takes
  apart), and a step asks one question (`Context` has the walk through several);
- the disposition `cached` (an answer known to be in the cache at planning time)
  runs through the same code as `semantic` and is not told apart;
- a failure after the call and before the cache loses the answer: with an error of the
  program's own the step fails and the record goes on (`SpoilAnswer`), with any other the
  record ends (`RaiseRecord`);
- a run waits for the records it selected and judges those alone, as `_final_status` does;
  a run of none is called succeeded;
- refusals for want of context or by policy come only with an empty cache. They
  precede the lookup in the code and depend on the context alone, so a step refused
  now was refused before;
- the records of a run start in any order the pool has a thread for;
- the review items of a step are raised in one action; they are an idempotent
  upsert each;
- a version is its artifacts and its depth in the chain of versions: the parent is
  part of its address.

### `EngineProperties.tla`

Safety: `TypeOK`, `PublishedMeansSettled`, `NoDanglingReference`,
`NothingBoughtTwice`, `WaitingMeansAsked`, `SucceededMeansSettled`; liveness
`EveryRunEnds`; refinement `ImplementsPublication`; the parts of the inductive
invariants; and, at the end, two statements of the documentation that the code
does not keep (section 7).

### `Publication.tla`

The abstract specification: a set of settled records that only grows, and a
visible version per record that moves one step down its chain, only for a settled
record, only to a version that validates. The engine implements it under
`visible <- pointer`, `settled <- ` the records whose every checkpoint says
succeeded: cancellations, crashes, holds, review and everything else a run does
are stuttering steps of it.

### `MCEngine.tla`

Values for TLC: small plans with two steps (one asks, one transforms what the
first one wrote), outcomes that include a good, a flagged and a refused answer,
and the shapes used by the other runs.

### `ModelCalls.tla`

The inside of one action of `Engine`: what happens between a step's cache miss and
its answer, for all threads of a run together. Durable: `row`, the two counters of
the execution row, and `state[q] = "answered"`, a row of the cache. Shared memory:
`spent` and `calls`, and per adapter `slot`, the time until the limiter's
`_next_at`. Per question: `state`, the candidate it is at (`cand`), the attempts
made with it (`attempt`), the time it still sleeps (`until`), and `next`, the value of
`_next_at` its thread has worked out and not stored yet. `billed`, `requests`, `rows`,
`met`, `cool` and `torn` are history; they say what was asked, what it cost and when it
was let through, whatever the program remembers, and on which limiters one thread's
store was made over another's. The limiters belong to the `Engine`, and
`Project.run` and `Project.resume` each make a new one: `Begin` starts with every
adapter free (`NewLimiters`).

| action | code |
|---|---|
| `Begin`, `End` | `run` loads the counters (256-260) and writes them back when every future is done (291-305) |
| `Crash` | threads, counters and limiters are gone; rows and cache stay |
| `Reserve`, `Refuse` | `_reserve_budget` (1324-1342) and the handler that blocks the step (611-617) |
| `Pass` | a candidate nobody configured, or a policy without attempts (1138-1145) |
| `Forbid` | `check_provider` raises: the step is blocked, no fallback is tried (1147-1148) |
| `ReadSlot`, `StampSlot`, `TakeSlot` | `RateLimiter.acquire`, which has no lock (`models/base.py:276-285`): how long to sleep; awake, `_next_at` is read and the new value worked out; it is stored over whatever is there, and the request goes out |
| `FailAttempt` | the two `except` clauses (1156-1180): the row, then again or the next candidate |
| `Answer`, `RecordAnswer`, `Keep` | settling, the row of the success (1182-1210), `cache_put` (1000-1012) |
| `GiveUp` | no candidate left (1222-1227) |
| `Tick` | time passes |

Abstractions:

- time is relative, so that nothing grows: `slot` and `until` are the time left, and
  the `max(nowt, _next_at)` of the code is the fact that neither falls below zero;
- the sleep between attempts and the time an adapter takes are any number of ticks,
  for nothing obliges a thread to go on before the next one; a thread is let through when it
  wakes (`StampSlot`), and may be a while in storing and asking;
- one list of candidates for all questions, and `Budget` is the smaller of the
  plan's and the policy's cap, which is how the code compares them;
- a failure is one of four kinds: transport (and rate limited, which is treated the
  same), schema, unsupported, and the unexpected exception;
- what a refused answer cost is not in `Costs`: the code charges for answers it
  accepts and for no others, so `billed` counts what it could have counted;
- a question that is blocked or failed is asked again by the next run, as
  checkpoints that did not succeed are; cancellation, and answers lost after they
  were recorded, are in `Engine`.

`ModelCallsProperties.tla` has the safety properties `OvershootBounded`,
`CapBoundsRequests`, `EveryAttemptLeavesARow`, `FailedMeansTried`,
`OwnRequestsSpaced` and `MoneyIsCounted`, the parts that make them inductive, and
`EveryQuestionEnds`. `MCModelCalls.tla` gives TLC a primary model, a fallback nobody
configured, and a third one that only some questions may be sent to.

### `Review.tla`

The curator's queue beside the engine that fills it. An *item* is a field together with
the step that writes it; of the items, `Asked` are those a program or a model answers, the
others only a person can. Durable: `history` (per field a set of artifacts, each with its
age), `items`, `events`. Per process: `engine` (the step it is in), and per curator `file`
(the items of their export), `todo` (rows of an import still to read) and `desk` (the
decision under way). `built` is the clock ages are read from; `said` is history: what an
item was last raised with.

| action | code |
|---|---|
| `Take`, `Build`, `Store`, `Raise` | a run of the step: the prior value is read and the answer is there; it becomes an artifact (engine 1281-1321); it is stored before it is judged (529-551, 653-665); the item is put, an upsert that is always open again (1403-1457, `store/sqlite.py:672-690`) |
| `Export`, `Import`, `RefuseRow` | `export_jsonl`, `import_jsonl` (`review.py:108-168`): rows without a decision are skipped, an edit without a value raises and the rows behind it are not read |
| `OpenCase`, `Judge`, `ReadRow`, `Mark`, `BuildValue`, `CommitValue` | `decide` (169-265): the row as it is now, the event, the read and the write of `update_review_item` (`store/sqlite.py:707-716`), the artifact, its commit |
| `AcceptLegacy`, `BuildLegacy`, `KeepLegacy`, `RecordLegacy` | `accept_legacy_value` (266-327): the newest artifact, one made of it, its commit, then the event |
| `EngineStops`, `CuratorStops` | a process ends between two of its commits |

Reads and writes that are separate statements in the code are separate actions, so
curators and the engine overwrite each other here as they can there. An artifact is what
its content address is taken of, and `born`, its `created_at`, which the address leaves
out with the execution and the rationale (`provenance.py:195-211`). It is given when the
artifact is built, and the store reads artifacts in its order (`store/sqlite.py:325`): what
one process built first and stored last is found *behind* what another built and stored in
between, and the model has that interleaving because building and storing are two
actions. `Put` keeps an artifact that is there, with its age, which is what INSERT OR
IGNORE does.

Abstractions: ages are the order in which artifacts of a field were built, so two of
them are never built at one microsecond, and the machines of the processes have one clock;
events alike in all but their time are one, and the set says that there is such an event;
which rows of a file have a decision is chosen when it is imported, and what it says when
the row is read, for a curator writes anything there at any time. That the file is older
than the items is the interesting part, what happens to it on disk is not.

### `Registry.tla`

State is `schemas`, `recipes`, `migrations`. `RegisterSchema`, `RegisterRecipe` and
`RegisterMigration` (with validation, as a project registers, or without, as a reload
does) are guarded by what the code raises on: a version registered twice, a migration that
closes a cycle (`registry.py:337-366`), a second approved migration on the main branch
between two versions (367-386), and `validate_migration` (258-336). A registration that
raises changes nothing and is no action. Hashes are modelled by what they cover: approval
and branch are outside a migration's hash. An id that is registered is not registered
again: the code raises for other content and returns the first for the same, which changes
nothing either way (`registry.py:215-222`). `Levels` are the versions within so many
edges, and `Reachable` what they come to, which is the search of the cycle check; `Walks`
are the simple walks of each length that `find_paths` extends. The registry a project
opens with is one a project before has left: `SavedAssumption` says that it can be
registered again by id, which `Reopens` says of every registry the actions lead to, so the
assumption is one the program keeps. `FindPath` is `find_paths` and
`PathPreference.key` (387-446, 60-71); `Bound` is one more than `max_hops`, because a walk
is given up only when it is longer (426).

### `Planner.tla`

One record beside the registry. `history`, `at`, `shown` and `cache` are the store,
`world` is the source's content and the transforms' code, `plan` and `run` the plan last
made and the run of it. Dependencies are triples *what, which, hash*, so `Currency` is
`assess_currency` literally: only what is expected is compared.

| action | code |
|---|---|
| `Plan` | `plan_record` (`planner/planner.py:112-183`) with `_plan_step`, `_plan_semantic_step`, `_link_dependencies`, `_stale_fields` |
| `BeginRun` | `run` refuses a plan of another registry (engine 206-247); a plan is run once (bound) |
| `SkipStep`, `RunTransform`, `AskModel`, `RefuseAsk`, `FailStep` | one step of the run in the order of `_ordered` (engine 1514-1533); a question is asked of the source as it is then, not as it was planned, and is refused when that gives no context or one that may not be shown (810-848) |
| `Hold`, `Publish` | `_finish_record` |
| `Ingest`, `Edit`, `AcceptLegacy`, `Change`, `Register` | `Project.ingest`, a curator's artifact, a new parse or new code, any registration |

What a transform computes of the values it reads, under each version of its code, is the
constant `Computed`. `Rounds` are the rounds of `_ordered`, each of the steps that wait for
nothing still to come, or of the first key when there are none.

A step is blocked for a field the target does not define or for a recipe nobody registered
(`Unlinked`); such a step has no dependencies, whatever the policy would have said of the
rest. Steps of one migration that wait for each other make planning raise, but only on a
path the policy permits (`CanPlan`).

`ReplanningSettles` has two premises. Nobody writes, for a write is a reason to plan. And
the artifacts of a field are of one step (`OneStepWrites`): where two steps of a path
write one field, each is judged against the newest artifact, which is the other's, and
with the record held they are both stale for ever (`planner/planner.py:226-233`). TLC finds
that circle at once without the premise, in a catalogue with a second writer (section 7);
with it the catalogue still has the second writer, on the paths where the first did not
run.

`ReadsFollowWrites` is about steps that are not blocked: a step whose fields the target does
not define has no dependencies, so nothing orders it, and it computes nothing. It is about
paths of one migration, because of several it is not so: the writers a step waits for are
those of the whole path, later migrations' among them (section 7).

Abstractions: one entity per record; the validation step every plan ends with computes
nothing and is left out; prices and summaries are left out; a run is atomic per step and
does not crash (`Engine` has that); whether context is found, needs the full document or
nothing is there is a constant per step and source (`Context` has how it is resolved). Of
the options, `on_stale = refresh` is not modelled, and `review`, `on_missing` and the
policy's permissions are modelled but not exercised by the catalogue TLC is given.

### `Evidence.tla` and `Context.tla`

`Evidence` is `source.py` and `reanchor.py` on texts of letters: `Located` places a quote
that occurs once, `Moved` is `reanchor_span`, `Reanchored` is `reanchor_evidence`, and
`Reanchor(p)` is the command with `--apply`, whose copies keep their original's
`created_at` and are read in the order of a hash (`Orders` lets either come first).

`Picked` is the selection of units, of a parse or of a source, in order; `Gathered` is the
chain from a position on, a function of where it stands and what it has.

`Context` has one semantic step with one policy. `Resolve` is `resolve_context` from a
position of the chain: per source, select, drop forbidden units, check the minimum, apply
the budget (`truncate`, `skip` or `fail`), stop at the first that contributes or
accumulate. A run is `Begin`, then per level `Hit` or `Call` and `Receive`, then `Settle` or
`AskMore`, which goes on behind the source that was used (engine 804-1083). `Crash` may
come anywhere, `Import`, `AddParse` and `Reanchor` too. Abstractions: the ranking of a
retriever is data of the source, tokens and sections are counted in characters and units,
the cache key is the parse version with the exact units, a step's own `on_missing` is
folded into its policy's, and the `context_requested` rows are left out.

## 4. Runs

| run | bounds | shows |
|---|---|---|
| `engine` | one record, two steps, five plans, three runs of it or of no record, two crashes; 82,978 states | all safety properties and the refinement, over every place where a run may stop, be cancelled, fail, and go on |
| `pool` | three records, two workers, one step each, one run of any of the records; 174,185 states | every interleaving of a pool smaller than the work, with cancellation: the run ends and is named truthfully of the records it was asked for |
| `calls` | three questions, two threads, three candidates of which one is not configured, two attempts each, money for one answer, four calls, two runs, one crash; 213,251 states | caps, retries, rows, money and limiter with every interleaving of the threads, inside the limiter too, and a crash anywhere |
| `review` | two items, one answered by a model and one only by a person; two curators, two values, both of them flagged, two replays, two imports, one stop; 655,752 states | decisions, items and history whatever curators and engine overwrite, and imports end |
| `registry` | four versions, ten migrations, in every order, with validation or without; 15,456 states | the graph stays acyclic and can be reopened; a path is found exactly when there is one, and one only |
| `planner` | one record of four fields, two migrations forward of three and one back, one import, one upset (an edit, an acceptance, a change of source or code, a failed step); 121,329 states | order, direction and stale report of plans, and that replanning settles |
| `context` | five policies, three parses, two runs, one escalation, three imports, parses or re-anchorings, one crash; 70,061 states | what is shown is permitted, in budget and in order; what is asked is paid once; evidence is accounted for |
| `stale_derived`, `dropped_field` | one record, two runs, at most one crash | counterexamples to the documentation (section 7) |
| `decision_ignored` | one item, one curator, three imports, both values to edit to, unflagged answers too | the same |
| `reanchor_ignored`, `evidence_dangling` | the models of `context` | the same |

Why these are enough to be interesting. Records share nothing durable except the
execution row, so histories of one record are explored deeply and the pool widely.
Three runs are needed for "failed, then crashed, then went on"; two crashes let one
happen inside the recovery from another. Two steps are the least that has an
upstream and a downstream; the second writes two fields, which is the least that
tells `artifacts[0]` from the rest. The outcomes make every handler reachable: all
actions fire in `engine`. Deadlock is not checked: when the bounds are used
up the systems really stop.

For `calls`: with two threads one is admitted while the other's cost is unknown,
which is the overshoot, and three questions leave one to be refused; money for one
answer and four calls over two runs put both caps within reach; two attempts are
the least that has a retry, and three candidates the least where passing one by
differs from giving up. An adapter fails in one way only in this run (`m1` with
answers of the wrong shape, which are retried if the policy says so, `m2` with an
exception, which never is); the proofs have all of them.

For the selection: `pool` has one run and every subset of three records; a resume that
selects others than the run before is in `engine`, of one record and none, and in the
theorem, of any.

For `review`: two items are the least with which a file has a row before and one behind a
row that is refused, and two curators the least that overwrite each other; one of the items
is asked of a model and so has the engine's artifacts among the curators', the other is
raised without. Two replays are the least after which an item that was decided is raised
again with another proposal, two imports let one stop at a bad row and be repeated. Both
values are flagged, so that a replay raises the item with a new one; values that raise
nothing are in `decision_ignored`. Curators edit to one value: the other is what the model
may say and they may accept. Of the five decisions they take the three that differ in
what they do to the value; the other two differ from a rejection by the word in the row.

For `registry`: ten migrations hold two ways round a diamond, rivals for both edges, a
cycle of two and one of three, a downgrade and one that is never valid; with `max_hops` 1
paths of two edges are allowed and of three are not, so the bound is met from both sides.
For `planner`: the first migration has a step in place, one that derives from it and is
declared with a later key than the question that reads it, and the question. Which
migration leads on is decided by who registers first: one with a question of a recipe that
nobody registered, or one that writes in place what the derivation before it writes. A
migration back to the first version makes going back possible; one upset at any moment is
what each property has to survive. For `context`: the third parse repeats a
sentence, which is where a quote is found twice; the policies reach every kind of source
and every way out of the chain.

Every property of a passing run is paired in `PROJECT.json` with a mutated
definition (named `<definition>_<change>` beside the definition,
never used by the specification) under which TLC finds the property violated.

## 5. Fairness

`Engine`: `WF(EndRun)` and, per record, `WF(Work(r))`: a thread that can go on does, and
`run` returns once its futures have. The code justifies it: threads of the pool
take the next record when one is free, every loop in a record is over a finite
list, and a model call returns because adapters time out and retries are counted.
Nothing obliges anyone to resume, cancel, crash, or raise: these have no fairness,
and `EveryRunEnds` (`up ~> ~up`) holds whatever they do. That strong fairness is not
needed is itself something checked: `StartRecord` is disabled only while the pool is
full, and `Work(r)` of a record that waits is enabled again for good once others
finish.

`ModelCalls`: `WF(End)`, `WF(Tick)` and, per question, `WF(Ask(q))`: threads go on,
adapters answer or fail, and time passes, so a sleep ends. `EveryQuestionEnds` is
"answered, failed, blocked, or the process stopped"; no fairness makes anyone start
a run or stop one.

`Review`: `WF(Build)`, `WF(Store)`, `WF(Raise)` and, per curator, `WF(Decide(c))`: a process that has
begun a step or an import goes on with it, for these are straight-line code. Nobody has
to export, import or replay. `EveryImportEnds` says that an import is read to its end, to the
row that stops it, or until its process stops.

`Planner`: an operator who goes on planning for the goal and running what was planned
(`GoesOnPlanning`, which is strong fairness of `Plan(Goal)` with what enables it written
out, and strong fairness of beginning a run of a plan for it), and an engine that ends
its runs (`WF(RunStep)`, `WF(Hold \/ Publish)`, justified by `EveryRunEnds`). Strong,
because runs and registrations disable planning now and then. It is the premise of
`ReplanningSettles` and not a claim about operators: if somebody goes on, and nobody
writes values and no field has the artifacts of two steps, there is in the end nothing to
run.

`Registry` and `Context` state no fairness and claim no liveness.

## 6. Proofs

`Engine_proofs.tla`, for all values of the constants under the assumptions of
`Engine.tla` (steps are numbered, writes and reads are fields, `None` and
`Rejected` are not values, outcomes are partial maps of fields to values, the
bounds are naturals); nothing is assumed of the number of records, fields, steps,
workers, runs or crashes.

- `TypeCorrect`: `Spec => [](TypeOK /\ InStep)`. `TypeOK` alone is not inductive: a
  worker in the middle of a step writes a checkpoint for the step it is at, so it
  must be at one (`InStep`).
- `PublicationIsEarned`: `Spec => []PublishedMeansSettled`. The status a worker holds in
  memory decides publication, while the property is about rows. `SettledInv` adds
  that statuses of the steps behind the worker are what their checkpoints say
  (`StatusIsCheckpoint`), and that a worker in the middle of a step is never at one
  that has already succeeded (`UnsettledStep`), so no action takes a success back.
- `EngineImplementsPublication`: `Spec => Abstract!Spec`, each step of the engine
  being `Settle`, `Publish` or a stutter, from the same invariant.
- `NothingIsBoughtTwice`: `Spec => []NothingBoughtTwice`. The invariant is bookkeeping:
  `paid = lost + cached + in transit` per question (`AnswersAccountedFor`); it needs
  that the answer in transit is not cached (`TransitIsUncached`), and that no worker
  has one in hand while the process is down (`DownMeansQuiet`).
- `ReferencesHold`: `Spec => []NoDanglingReference`. What is named is never taken away, so
  the work is on the naming side: what a worker has loaded, produced or holds as the first
  artifact of its step is stored (`HeldIsStored`), also when a skipped step takes the
  artifact its checkpoint names.
- `WaitingIsAsked`: `Spec => []WaitingMeansAsked`, because a worker that is about to
  checkpoint a wait has put its items (`OpenedMeansAsked`).
- `SuccessIsEarned`: `Spec => []SucceededMeansSettled`, for every selection of records in
  every run and resume. What a run reports as published is current (`ReportedIsCurrent`), a
  depth only grows, and publication is earned; a run works on what it selected
  (`OnlySelectedWork`), so what it reports of a record is from this run. Of the records it
  did not select the name of a run says nothing (section 7).

`ModelCalls_proofs.tla`, for every list of candidates, set of configured adapters,
permissions, retry policy, price, cap, pool size, and any finite number of
questions:

- `CallsTypeCorrect`: `Spec => [](TypeOK /\ Placed)`. `attempt` stays within the policy
  only because a thread that sleeps for the limiter has an attempt left (`Placed`).
- `OvershootIsBounded`: `Spec => []OvershootBounded`. The bound is on what is spent,
  and what breaks it is not yet spent when the cap is compared. The invariant
  (`Reserved`) therefore charges every question whose answer may still come its full
  price in advance: `spent + MaxCost * Cardinality(Unsettled) < Budget + Workers *
  MaxCost`. Admission keeps it because fewer than `Workers` are in flight and
  `spent < Budget`; settling moves one price from the reserve to `spent`; and the
  counters in the row, which a resume starts from, are bounded the same way.
- `RequestsAreSpaced`: `Spec => []OwnRequestsSpaced`. Threads read a slot, sleep, read it
  again and store what comes of it, all without a lock, so two questions may be let
  through together, and a thread that was held up between reading and storing moves the
  slot back. The property is therefore about limiters on which that has not happened in
  this run (`torn`). On those at most one thread is about to store (`OneStamps`), what it
  will store is no earlier than what it replaces, and the slot, or what is about to
  replace it, is never before the end of a question's own interval (`SlotCovers`). On a
  torn limiter nothing of the kind holds (section 7).
- `FailureIsEarned`: `Spec => []FailedMeansTried`. `Pursuit` says where a question has
  been: candidates behind it are exhausted, the one it is at has had `attempt`
  requests, those ahead none.
- `MoneyIsAllCounted`: `Spec => []MoneyIsCounted`, from `CountedInv`: the row is written
  from the counter, the counter read from the row, and settling adds to both sides.
- `AttemptsHaveRows`: `Spec => []EveryAttemptLeavesARow` (`RowsInv`): per question and
  candidate, requests are rows and at most the one that is out.
- `RequestsAreCapped`: `Spec => []CapBoundsRequests` (`CapInv`): the questions that were
  admitted in this run (`Admitted`) are no more than the calls it counts, the counter in
  the row stays under the cap, and `Pursuit` bounds what an admitted question sends.

`Review_proofs.tla`, for any finite or infinite set of items, curators and values, and any
bounds on replays, imports and stops:

- `ReviewTypeCorrect`, `DecisionsAreOnRecord` (`DecidedHasEvent`), `HumanValuesWereDecided`
  (`HumanValueWasDecided`) and `OpenRowsShowTheLast` (`OpenRowsAreCurrent`). `QueueInv` is
  what they share: a file names rows that exist (`FileNames`), a decision under way is about
  an existing row, has the value an edit needs, writes back a row that was read, and from
  its event on is on record (`CaseOf`), and what it is about to store in a person's name is
  what the event says. That is what makes the rest hold whatever curators and engine write
  over each other: the row a curator writes back may be anybody's, but its state and name
  are their own, and their event is there. `HumanValueWasDecided` is about decisions: what
  `accept_legacy_value` stores is in a person's name before its event is (313-314), as a
  process may stop between the two.
- `HistoryIsKept`: `Spec => HistoryOnlyGrows`. Artifacts wait in somebody's hands between
  being built and being stored, and others are built and stored meanwhile. So the ages of
  all of them, stored or in hand, are followed together: the age of a stored artifact
  has been on the clock (`HistoryAges`), so has that of one in hand (`HandAges`), and no two of
  them, wherever they are, have one age (`Apart`). Building takes a new age (`AgesBuilt`),
  storing moves an artifact from a hand to the history or drops it (`AgesStored`), and
  nothing else touches them (`AgesKept`).

`Recursion_proofs.tla` is what makes the rest possible. The library states induction with an
operator as a parameter, which no installed prover can instantiate; stated with a set
(`SetInduction`: a set with 0 and the successor of each of its numbers holds all of them)
it is an ordinary fact. `LeastNatural` is proved from the library's well-founded relations,
`SetInduction` from it, and `RecursionExists` builds by induction the function that a
recursive definition chooses, so that `f[0]` and `f[n + 1]` may be rewritten.

`Registry_proofs.tla`, for every catalogue of finitely many migrations, every saved registry
that can be reopened, and every preference:

- `NoUpgradeCycles`: `Spec => []UpgradesAcyclic`. `Reachable` stops after as many levels as
  there are edges. A level that adds nothing is the last (`LevelsSaturate`), and each one before
  it uses up an edge, so by then the search is closed: it is the least set with the start that
  the edges do not leave. From that a new edge that closes no cycle leaves the graph without
  one (`GraphInv`), and the saved graph has none by induction on the ids.
- `RegistryReopens`: `Spec => []Reopens`. What is accepted among more is accepted among fewer:
  reachability and rivals only grow with the edges.
- `PathsAreFound`: `Spec => []BlockedMeansNoPath`. A walk leads to a level; and a version of a
  level has a shortest walk to it, by induction on the least such level, which visits nothing
  twice and so is among those `find_paths` builds.
- `OnePathIsBest`: `Spec => []PathIsDetermined`. Of two keys one is before the other or they
  are equal, and equal keys are of one path, because a key ends in the ids.

`Planner_proofs.tla`, for every catalogue, policy, source, answer and bound:

- `TypesKept` is the inductive invariant of the first four: `StockInv` (what is registered is
  of the catalogue, finite, acyclic), `StoreInv` (what is stored are artifacts), `PlanInv` (the
  plan in `plan` has well formed steps, is in order, was made of no more than is registered
  now, and leads from where it starts to where it is to lead) and `ViewInv` (what is published
  or seen by the run is stored; what is left of the run is in order). Artifacts are never taken
  away (`Grows`), so places stay what they are.
- `PlannerTypes`: `Spec => []TypeOK`.
- `ReadsFollow`: `Spec => []ReadsFollowWrites`. A key comes after those its step waits for
  (`Sequenced`, by induction on the rounds), provided that no steps wait in a circle; along one
  migration they do not, for `CanPlan` has refused it (`NoCircle`); and a step that is not
  blocked waits for whoever writes what it reads (`Linked`).
- `StepsAreRunOnce`: every step of a plan is in its order once. Each round takes a step that is
  left, on a circle too, so after as many rounds as there are steps none is.
- `RunsMoveForward`: `Spec => MovesForward`. A plan that is not blocked follows a path, a path
  leads to what can be reached, what can be reached by fewer upgrades can be by more, and in a
  graph without cycles there is no way back (`NoWayBack`).
- `StaleReported`: `Spec => StaleIsReported`, from `StaleInv`: until a plan is run every field
  that no step writes is accounted for by its newest value or by the plan, and from then on by
  the value the run has seen. It holds as long as nobody writes and the registry is the
  plan's; a registration makes the registry larger, and the run is refused.

`Evidence_proofs.tla` and `Context_proofs.tla`, for every policy, parse, text, set of answers
and bound:

- `QuestionsAreAskedOnce`: `Spec => []AskedOnce`, and `AnswersAreAboutWhatWasShown`:
  `Spec => []AnswersWhatWasShown`. `AskInv` says that the cache and what the model said are
  one thing seen from two sides (`KeptIsSaid`, `SaidIsKept`) and that a question is out only
  when it has no entry (`SentIsNew`), so its answer is a new one and the number of answers
  grows by one with each. What the chain resolves to is left open; nothing depends on it.
- `WholeTextOnlyWhenPermitted` (`FullOnlyWhenPermitted`), `BudgetsAreKept` (`BudgetKept`) and
  `NarrowestIsFirst` (`NarrowestFirst`). `GotInv` is the invariant of the loop over the chain,
  by induction on the position: what was gathered is permitted, is within the budget, and is
  of sources that come later and later. `ResolveInv` carries it over the walk, where each
  level starts behind the source that was used.
- `EveryQuoteIsAccountedFor` (`EvidenceAccountedFor`) and `EverySpanResolves`
  (`EvidenceResolves`). Every artifact is sound (`Sound`): its spans are the text they record
  in the parse they name, and with those that were not located they are as many as were
  given. Importing makes sound artifacts; moving them keeps them so, parse by parse.
- `WalksAreTyped`: `Spec => []TypeOK`.

Before each proof of an invariant TLC checked it, the inductive one too, on the instance of
its run.

*Assumed* is what stands in the modules under `ASSUME`, which TLC evaluates on every run: the
shapes of the constants; that catalogue, texts and parses are finite; and of the planner that
a migration has fewer than ten steps (`Key2` keeps keys apart) and that a transform computes a
value of every value it may read.

*Only model-checked, and out of the prover's reach:* `EveryRunEnds`, `EveryQuestionEnds`,
`EveryImportEnds` and `ReplanningSettles`, liveness under fairness.

What `NothingBoughtTwice` does and does not say: an answer is bought again only
when the earlier one was lost before it reached the cache, and the model counts the
ways: the process stops between the answer and the commit, an exception of that
moment, or a fingerprint other than the pinned one. The last is not a one-off: a
step in that state pays again on each resume.

## 7. Where the program and its documentation part ways

Each is a run with `expect: violation`, and a finding in `PROJECT.json` that quotes
the line it contradicts.

- `stale_derived` (`PublishedAgrees`). A failed step does not stop those behind it. If
  the model call for `a` fails while the transform that derives `b` from `a` succeeds
  on the old value, the resumed run recomputes `a`, skips the transform because its
  checkpoint says succeeded, and publishes a `b` derived from a value that is no
  longer there.
- `dropped_field` (`NothingDropped`). A skipped step gives *every* field it writes
  the one artifact its checkpoint names, which is the first. The second field of the
  step is lost from the version the resumed run assembles.
- `decision_ignored` (`DecisionTakesEffect`). A person decides a field to a value they
  decided before, after the engine has stored another answer. The artifact is there
  already, the insert does nothing, and the machine's answer stays the newest: the event
  says decided, the field is not.
- `reanchor_ignored` (`ReanchorTakesEffect`). The moved copy has its original's timestamp, so
  a hash decides which of the two is read; and moving evidence back writes what is
  stored already.
- `evidence_dangling` (`SpansNameUnits`). Quotes of an answer are placed in the units that
  were shown. An excerpt or a structured value is shown under an id of its own, so the
  span that is stored names a unit no parse has.

Seen while modelling, in the models, and without a run of their own:

- a run of some of a plan's records is called by what became of those: the execution says
  succeeded though the others never ran (`execution/engine.py:269-273`, 1493-1498), and a
  resume of all of them then runs them under a row that says so already;
- the limiter is "shared across worker threads" (`models/base.py:270`) and has no lock:
  two threads that slept for one slot go out together, and one that is held up between
  reading `_next_at` and storing it (285) moves it back, so that a later request, a retry
  of its own question too, goes out early. Each run and resume has new limiters, which know
  nothing of the requests before;
- two steps of a path that write one field, with the record held: each finds the other's
  artifact newest and is stale against it, so that every plan computes both again
  (`planner/planner.py:226-233`); and when the second is reused and the first computed
  again, the engine goes on with the first's value and may publish it;
- a step is reused by the values stored at planning time, one of which the same plan may
  compute again (226-233); once the record is at its target the path is empty, so no step
  looks again (119, 146);
- a plan made where the record no longer is may be run and take it back: `run` compares
  the registry and not the record (`execution/engine.py:206-247`); `MovesForward` is about
  plans made where the record is;
- a decision writes back the row it read (`store/sqlite.py:707-716`): a question that was
  raised between the two statements is lost under it, and one that was raised before them,
  after the curator's process read what it was deciding, is marked decided unseen;
- the cache key knows the values of the planning time, the prompt those of the run
  (`execution/engine.py:838`): after a retry upstream, an answer given to the old values may
  be served to the question with the new ones, and artifacts record the planned
  hashes (771, 1310);
- flagged values are stored before they are judged (653-658), so a transform that is run
  again and leaves the field out publishes the flagged value;
- a transform that edits a field in place and is replayed between its artifacts and its
  checkpoint reads its own output (653, against the docstring at 20-21);
- a run writes what it spent when it returns (297): what a crashed run spent is forgotten by
  the resume, so the cap is on the money the program remembers (`MoneyIsCounted` says
  when that is all of it);
- `max_hops` allows one edge more than its name (`registry.py:426`);
- the writers a step waits for are those of all migrations of a path
  (`planner/planner.py:611-639`): a step of the first may wait for a step of the second that
  writes what it reads, and be computed of the later version's value; and steps of two
  migrations may wait for each other, which `_ordered` calls impossible and gets out of by
  the first key (1524-1527; `StepsAreRunOnce`);
- `after` orders the steps of a migration when it is validated and is not carried into the
  plan, whose steps are ordered by what they read;
- `reanchor_evidence` drops the spans it cannot place and counts them, where the
  module's docstring keeps them as unlocated (`reanchor.py:10-12`);
- the provider of a call is checked against the recipe's policy, whichever candidate is
  asked (`execution/engine.py:1148`);
- a resolution is marked as including the full document when a full source was looked at,
  though the budget skipped it: the run is refused for text it would not have shown;
- excerpts of prior evidence are cut in the parse the index row names, with the offsets of
  the parse the evidence names (`execution/engine.py:402`, `context/resolver.py:267`).

## 8. Not modelled

Parsing, formatting, hashing and serialisation (`codec`s, `ids.py`, `functions.py`, exports,
`config.py`, the CLI's arguments and printing): pure data, which the models see as
identities. Reports and comparisons (`diffing.py`, `evaluation.py`'s statistics, the
registry's structural diff beyond "the shape changed"): functions of what is stored, for
a reader. Individual validators: what they decide, refuse or flag, is a constant of the
models. Vocabularies, downgrades as paths, loading and scaffolding of migrations. Nested
records: entities are keyed apart everywhere, and stand as further fields. Prices, tokens
and latencies: only the budget's arithmetic matters, and is in `ModelCalls`. Shadow
recipes are asked and recorded and never committed. Event hooks. Several processes on one
execution: `run` refuses an execution that exists unless it is resumed, and nothing in
the code coordinates two that resume; the models have one engine process at a time, with
curators in processes of their own. The parts of each component that are left out are
in its note in `PROJECT.json`.

-------------------------------- MODULE Planner --------------------------------
(***************************************************************************)
(* Planning beside the registry, for one record: which stored values are   *)
(* reused, which steps a plan gives the record, and what the store holds   *)
(* after the plan has run.  A run is the engine's, seen from the planner:  *)
(* its steps in order, what each stores, and whether the record is         *)
(* published or held (Engine has its interleavings, crashes and caches).   *)
(* A value is a small number; what a value depends on is a set of triples  *)
(* <<what, which, hash>>.                                                  *)
(***************************************************************************)
EXTENDS Registry

CONSTANTS
    Values,      \* what a field may hold
    Flagged,     \* those of them a validator marks for review when a model answers
    Goal,        \* the schema the operator wants the record at
    Policy,      \* ExecutionPolicy: lossy, full, destructive and the migrations it names
    OnStale,     \* "report" or "review"
    Context,     \* of a semantic step and a source: "units", "full", "refused" or "none"
    OnMissing,   \* "review" or "blocked"
    Vouched,     \* whether an import asserts the currency of its values
    Computed,    \* of a transform, its code and the values it reads: what it computes
    None,
    MaxIngests, MaxUpsets   \* bounds: imports; edits, changes of the world and failed steps

Sources == 1 .. MaxUpsets + 1
Absent == 0
Key2(m, s) == 10 * m.id + s.id

ASSUME PlannerAssumption ==
    /\ Values \subseteq 1 .. 99 /\ Flagged \subseteq Values
    /\ Goal \in {d.ref : d \in Drafts} /\ OnStale \in {"report", "review"}
    /\ OnMissing \in {"review", "blocked"} /\ Vouched \in BOOLEAN
    /\ \A m \in Catalogue : \A s \in m.steps :
        /\ s.id < 10
        /\ s.kind = "transform" =>
              Computed[Key2(m, s)] \in [Sources \X [s.reads -> Values \cup {Absent}] -> Values]
    /\ {MaxIngests, MaxUpsets} \subseteq Nat

VARIABLES
    history,  \* artifacts of each field, oldest first
    at,       \* the published version's schema, 0 before the first import
    shown,    \* its artifacts, by place in the history
    world,    \* the source's content and the transforms' code
    cache,    \* answers kept, by question
    plan,     \* the plan last made, None before
    run,      \* the run of it, None between runs
    ingests, upsets

record == <<history, at, shown, cache>>
budget == <<ingests, upsets>>
vars == <<registry, record, world, plan, run, budget>>

\* What the content address of an artifact is taken of.
Artifact(value, status, by, deps, recipe, accepted, lineage) ==
    [value |-> value, status |-> status, by |-> by, deps |-> deps, recipe |-> recipe,
     accepted |-> accepted, lineage |-> lineage]

\* Artifacts are inserted once; one that is there keeps its age.
Place(f, a) == IF \E k \in DOMAIN history[f] : history[f][k] = a
               THEN CHOOSE k \in DOMAIN history[f] : history[f][k] = a
               ELSE Len(history[f]) + 1
\* Mutant: a value that is stored already is not stored again.
Put_ByValue(f, a) ==
    IF \E k \in DOMAIN history[f] : history[f][k].value = a.value THEN history[f] ELSE Append(history[f], a)
Put(f, a) == IF Place(f, a) \in DOMAIN history[f] THEN history[f] ELSE Append(history[f], a)

Newest(f) == Len(history[f])
Held(f, k) == IF k = 0 THEN None ELSE history[f][k]
ValueAt(f, k) == IF k = 0 THEN Absent ELSE history[f][k].value
\* The hash of a value is of its status too.
HashAt(f, k) == IF k # 0 /\ history[f][k].status = "review" THEN 100 + ValueAt(f, k) ELSE ValueAt(f, k)

-----------------------------------------------------------------------------
(* Dependencies and currency.                                               *)

DefHash(def) == 10 * def.shape + def.wording
RecipeHash(r) == IF r \in recipes THEN r ELSE 100 + r
DefDeps(ref, fs) == {<<"field_def", f, DefHash(Schema(ref).fields[f])>> : f \in fs}
RecipeDeps(r) == IF r = 0 THEN {} ELSE {<<"recipe", "", RecipeHash(r)>>}

\* Mutant: a step depends on every field it reads, on those it writes too.
Inputs_All(s) == s.reads
\* A field the step reads and writes is left out, or it would be stale for ever.
Inputs(s) == s.reads \ s.writes

\* dependency_hashes, of a step; a step without a recipe takes its field's.
StepDeps(m, s, ref) ==
    LET f == CHOOSE f \in s.writes : TRUE
        r == IF s.recipe \in recipes THEN s.recipe ELSE Schema(ref).fields[f].recipe
    IN DefDeps(ref, s.writes) \cup RecipeDeps(r) \cup {<<"step", "", Key2(m, s)>>}
         \cup (IF s.kind = "transform" THEN {<<"transform", "", world.code>>} ELSE {})
         \cup (IF s.source THEN {<<"source", "", world.source>>} ELSE {})
         \cup {<<"dep", g, HashAt(g, Newest(g))>> : g \in Inputs(s)}
\* ... and of a field alone.
FieldDeps(ref, f) == DefDeps(ref, {f}) \cup RecipeDeps(Schema(ref).fields[f].recipe)

\* assess_currency: only what is expected is compared.
Currency(a, expected, required) ==
    CASE a = None -> "missing"
      [] a # None /\ a.status = "failed" -> "failed"
      [] a # None /\ a.status = "review" -> "review"
      [] OTHER ->
         IF a.accepted # 0 /\ required \in {0, a.accepted} THEN "accepted"
         ELSE IF a.deps = {} THEN "no_provenance"
         ELSE IF expected \subseteq a.deps /\ required \in {0, a.recipe} THEN "current"
         ELSE "stale"
Reusable(currency) == currency \in {"current", "accepted"}

-----------------------------------------------------------------------------
(* The plan of a record.                                                    *)

\* ExecutionPolicy.permits.
Permits(m) == \/ Rank(m) = 0
              \/ Rank(m) = 1 /\ Policy.lossy
              \/ Rank(m) = 2 /\ Policy.destructive /\ m.id \in Policy.named

Question(m, s, ref, deps) == <<Key2(m, s), ref, deps, world.source>>

\* _plan_semantic_step.
SemanticDisposition(m, s, ref, deps) ==
    LET context == Context[s.id][world.source] IN
    CASE s.recipe \notin recipes -> "blocked"
      [] s.recipe \in recipes /\ context = "none" -> OnMissing
      [] s.recipe \in recipes /\ context = "full" /\ ~Policy.full -> "blocked"
      [] s.recipe \in recipes /\ context = "refused" -> "blocked"
      [] OTHER -> IF Question(m, s, ref, deps) \in DOMAIN cache THEN "cached" ELSE "semantic"

\* require_reads.
Lacks(s) == \E f \in s.required : Newest(f) = 0 \/ history[f][Newest(f)].status = "failed"

\* _plan_step: a step answers to the schema its migration leads to.
Disposition(m, s, ref, deps) ==
    LET Verdict(f) == Currency(Held(f, Newest(f)), deps,
            IF s.recipe # 0 THEN s.recipe ELSE Schema(ref).fields[f].recipe)
    IN CASE s.reusable /\ \A f \in s.writes : Reusable(Verdict(f)) -> "reuse"
         [] OTHER ->
            CASE s.kind = "manual_review" -> "review"
              [] s.kind # "manual_review" /\ Lacks(s) -> "blocked"
              [] s.kind = "transform" /\ ~Lacks(s) -> "deterministic"
              [] OTHER -> SemanticDisposition(m, s, ref, deps)

\* A step blocked for its recipe is planned without the dependencies it has.
Unlinked(s, disposition) ==
    disposition = "blocked" /\ s.kind = "semantic" /\ ~Lacks(s) /\ s.recipe \notin recipes

PlanStep(m, s, target) ==
    LET ref == IF HasSchema(m.to) THEN m.to ELSE target
        missing == \E f \in s.writes : ~Defined(ref, f)
        deps == IF missing THEN {} ELSE StepDeps(m, s, ref)
        way == IF missing THEN "blocked" ELSE Disposition(m, s, ref, deps)
    IN [key |-> Key2(m, s), migration |-> m.id, step |-> s,
        deps |-> IF Unlinked(s, way) THEN {} ELSE deps,
        question |-> Question(m, s, ref, deps), disposition |-> way]

\* _link_dependencies: every step that writes what another depends on.
DependsOn(p, steps) ==
    {q.key : q \in {q \in steps : /\ q.key # p.key
                                  /\ \E d \in p.deps : d[1] = "dep" /\ d[2] \in q.step.writes}}

Ascending(keys) ==
    [n \in 1 .. Cardinality(keys) |-> CHOOSE k \in keys : Cardinality({j \in keys : j <= k}) = n]

\* Mutant: the steps run by key.
Ordered_Keys(steps) == Ascending({p.key : p \in steps})
\* _ordered: rounds of the steps that wait for nothing, keys on ties; on a cycle
\* the first key goes ahead.
WaitsFor(key, steps) == DependsOn(CHOOSE p \in steps : p.key = key, steps)
Ready(done, steps) ==
    LET rest == {p.key : p \in steps} \ done
        ready == {k \in rest : WaitsFor(k, steps) \subseteq done}
    IN IF ready = {} THEN {k \in rest : \A j \in rest : k <= j} ELSE ready
Rounds(steps) ==
    LET Upto[n \in Nat] == IF n = 0 THEN <<>>
            ELSE Upto[n - 1] \o Ascending(Ready(ToSet(Upto[n - 1]), steps))
    IN Upto
Ordered(steps) == Rounds(steps)[Cardinality(steps)]

\* Mutant: the fields nothing is known of are passed over.
StaleFields_Stored(target, written) ==
    {f \in Fields \ written : /\ Defined(target, f) /\ ~Schema(target).fields[f].computed
                              /\ Newest(f) # 0
                              /\ ~Reusable(Currency(Held(f, Newest(f)), FieldDeps(target, f),
                                                    Schema(target).fields[f].recipe))}
\* _stale_fields: what no step writes and is not current.
StaleFields(target, written) ==
    {f \in Fields \ written : /\ Defined(target, f) /\ ~Schema(target).fields[f].computed
                              /\ ~Reusable(Currency(Held(f, Newest(f)), FieldDeps(target, f),
                                                    Schema(target).fields[f].recipe))}

\* registry_hash: what is registered stays as it is, so its size tells registries apart.
RegistryHash == <<Cardinality(schemas), Cardinality(recipes), Cardinality(migrations)>>

\* plan_record.
PlanOf(target) ==
    LET paths == Paths(at, target)
        path == FindPath(at, target)
        steps == UNION {{PlanStep(m, s, target) : s \in m.steps} : m \in ToSet(path)}
        stale == StaleFields(target, UNION {p.step.writes : p \in steps})
        none == [from |-> at, to |-> target, registry |-> RegistryHash, ran |-> FALSE, blocked |-> TRUE,
                 steps |-> {}, order |-> <<>>, stale |-> {}, asked |-> {}]
    IN IF paths = {} \/ \E m \in ToSet(path) : ~Permits(m)
       THEN none
       ELSE [none EXCEPT !.blocked = FALSE, !.steps = steps, !.order = Ordered(steps),
                         !.stale = IF OnStale = "report" THEN stale ELSE {},
                         !.asked = IF OnStale = "report" THEN {} ELSE stale]

\* A migration of a permitted path whose steps wait for each other: no plan is made at
\* all.
CanPlan(target) ==
    LET path == FindPath(at, target) IN
    /\ run = None /\ at # 0 /\ HasSchema(target)
    /\ Paths(at, target) # {} /\ (\A m \in ToSet(path) : Permits(m)) =>
            \A m \in ToSet(path) : ~StepCycle(m)
Plan(target) ==
    /\ CanPlan(target)
    /\ UNCHANGED <<registry, record, world, run, budget>>
    /\ plan' = PlanOf(target)

-----------------------------------------------------------------------------
(* Running it.                                                              *)

\* A plan made of another registry is refused.  Bound: a plan is run once.
BeginRun ==
    /\ run = None /\ plan # None /\ at # 0
    /\ ~plan.blocked /\ ~plan.ran
    /\ plan.registry = RegistryHash
    /\ plan' = [plan EXCEPT !.ran = TRUE]
    /\ run' = [left |-> plan.order, held |-> plan.asked # {},
               view |-> [f \in Fields |-> Newest(f)]]
    /\ UNCHANGED <<registry, record, world, budget>>

Planned(key) == CHOOSE p \in plan.steps : p.key = key
Now == Planned(Head(run.left))
Working == run # None /\ run.left # <<>>
Done(held, view) == run' = [left |-> Tail(run.left), held |-> run.held \/ held, view |-> view]

\* What a transform computes of the values it reads.
Compute(p, view) ==
    Computed[p.key][world.code, [f \in p.step.reads |-> ValueAt(f, view[f])]]

\* Every field of the step gets the value, with the dependencies of the plan and, as
\* lineage, the values it was computed of: of a transform's without those it edits.
Produced(p, value, status) ==
    LET from == IF p.step.kind = "transform" THEN p.step.reads \ p.step.writes ELSE p.step.reads IN
    Artifact(value, status, "machine", p.deps, p.step.recipe, 0,
             {<<f, HashAt(f, run.view[f])>> : f \in from})
\* A flagged value is stored and seen by the steps after it, but the record is held.
Store(p, value, status) ==
    LET a == Produced(p, value, status) IN
    /\ history' = [f \in Fields |-> IF f \in p.step.writes THEN Put(f, a) ELSE history[f]]
    /\ Done(status # "present",
            [f \in Fields |-> IF f \in p.step.writes THEN Place(f, a) ELSE run.view[f]])

SkipStep ==
    /\ Working
    /\ Now.disposition \in {"reuse", "review", "blocked"}
    /\ Done(Now.disposition # "reuse", run.view)
    /\ UNCHANGED <<registry, record, world, plan, budget>>

RunTransform ==
    /\ Working
    /\ Now.disposition = "deterministic"
    /\ Store(Now, Compute(Now, run.view), "present")
    /\ UNCHANGED <<registry, at, shown, cache, world, plan, budget>>

\* _run_semantic resolves the context again: the question is asked of the source as it
\* is now, with the dependencies of the plan.
Asking == Working /\ Now.disposition \in {"semantic", "cached"}
AskedNow == [Now.question EXCEPT ![4] = world.source]
Answerable ==
    LET context == Context[Now.step.id][world.source] IN
    \/ context = "units"
    \/ context = "full" /\ Policy.full
    \/ context = "refused" /\ AskedNow \in DOMAIN cache

AskModel ==
    /\ Asking /\ Answerable
    /\ \E v \in IF AskedNow \in DOMAIN cache THEN {cache[AskedNow]} ELSE Values :
        /\ Store(Now, v, IF v \in Flagged THEN "review" ELSE "present")
        /\ cache' = [q \in DOMAIN cache \cup {AskedNow} |-> IF q = AskedNow THEN v ELSE cache[q]]
    /\ UNCHANGED <<registry, at, shown, world, plan, budget>>

\* Without a context, or with one that may not be shown, the step waits or fails.
RefuseAsk ==
    /\ Asking /\ ~Answerable
    /\ Done(TRUE, run.view)
    /\ UNCHANGED <<registry, record, world, plan, budget>>

\* Bound.
Upset == upsets < MaxUpsets /\ upsets' = upsets + 1

FailStep ==
    /\ Working
    /\ Now.disposition \in {"deterministic", "semantic", "cached"}
    /\ Upset
    /\ Done(TRUE, run.view)
    /\ UNCHANGED <<registry, record, world, plan, ingests>>

Hold ==
    /\ run # None /\ run.left = <<>> /\ run.held
    /\ run' = None
    /\ UNCHANGED <<registry, record, world, plan, budget>>

Publish ==
    /\ run # None /\ run.left = <<>> /\ ~run.held
    /\ at' = plan.to
    /\ shown' = [f \in Fields |-> IF Defined(plan.to, f) THEN run.view[f] ELSE 0]
    /\ run' = None
    /\ UNCHANGED <<registry, history, cache, world, plan, budget>>

-----------------------------------------------------------------------------
(* The world.                                                               *)

\* ingest: the first import of the record, or a later one of a changed extraction.
Ingest(ref, v) ==
    LET fields == {f \in Fields : Defined(ref, f) /\ ~Schema(ref).fields[f].computed}
        Imported(f) == Artifact(v, "present", "import", IF Vouched THEN FieldDeps(ref, f) ELSE {},
                                IF Vouched THEN Schema(ref).fields[f].recipe ELSE 0, 0, {})
    IN /\ run = None
       /\ HasSchema(ref)
       /\ ingests < MaxIngests
       /\ ingests' = ingests + 1
       /\ history' = [f \in Fields |-> IF f \in fields THEN Put(f, Imported(f)) ELSE history[f]]
       /\ shown' = [f \in Fields |-> IF f \in fields THEN Place(f, Imported(f)) ELSE 0]
       /\ at' = ref
       /\ UNCHANGED <<registry, cache, world, plan, run, upsets>>

\* A person's value carries no dependencies; one accepted under a recipe does.
Edit(f, v) ==
    /\ run = None
    /\ Upset
    /\ history' = [history EXCEPT ![f] = Put(f, Artifact(v, "present", "person", {}, 0, 0, {}))]
    /\ UNCHANGED <<registry, at, shown, cache, world, plan, run, ingests>>

AcceptLegacy(f, r) ==
    /\ run = None
    /\ Newest(f) # 0
    /\ Upset
    /\ LET old == history[f][Newest(f)] IN
       history' = [history EXCEPT ![f] = Put(f, [old EXCEPT !.by = "person", !.recipe = r,
                                                            !.accepted = r, !.lineage = {}])]
    /\ UNCHANGED <<registry, at, shown, cache, world, plan, run, ingests>>

\* A new parse of the source, or new code of the transforms.
Change ==
    /\ run = None
    /\ Upset
    /\ \/ world' = [world EXCEPT !.source = @ + 1]
       \/ world' = [world EXCEPT !.code = @ + 1]
    /\ UNCHANGED <<registry, record, plan, run, ingests>>

Register == run = None /\ RegisterAny /\ UNCHANGED <<record, world, plan, run, budget>>

Init ==
    /\ InitRegistry
    /\ history = [f \in Fields |-> <<>>]
    /\ at = 0
    /\ shown = [f \in Fields |-> 0]
    /\ world = [source |-> 1, code |-> 1]
    /\ cache = << >>
    /\ plan = None /\ run = None
    /\ ingests = 0 /\ upsets = 0

RunStep == SkipStep \/ RunTransform \/ AskModel \/ RefuseAsk
Replan == \E d \in Drafts : Plan(d.ref)
Next ==
    \/ Register
    \/ Replan \/ BeginRun
    \/ RunStep \/ FailStep \/ Hold \/ Publish
    \/ \E d \in Drafts, v \in Values : Ingest(d.ref, v)
    \/ \E f \in Fields : (\E v \in Values : Edit(f, v)) \/ (\E r \in Recipes : AcceptLegacy(f, r))
    \/ Change

\* An operator who goes on planning for the goal and running what was planned for it,
\* and an engine that ends its runs.  GoesOnPlanning is SF_vars(Plan(Goal)), with what
\* enables that step written out.
GoesOnPlanning ==
    []<>(CanPlan(Goal) /\ plan # PlanOf(Goal)) => []<><<Plan(Goal)>>_vars
RunGoal == BeginRun /\ plan.to = Goal
Fairness == GoesOnPlanning /\ SF_vars(RunGoal) /\ WF_vars(RunStep) /\ WF_vars(Hold \/ Publish)
Spec == Init /\ [][Next]_vars /\ Fairness
=============================================================================

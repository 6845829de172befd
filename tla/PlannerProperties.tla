--------------------------- MODULE PlannerProperties ---------------------------
(* What a plan owes the operator who reads it before it runs.               *)
EXTENDS Planner

Dispositions == {"reuse", "cached", "semantic", "deterministic", "review", "blocked"}

\* Every variable keeps to its set.
TypeOK ==
    /\ schemas \subseteq Drafts /\ recipes \subseteq Recipes /\ migrations \subseteq Catalogue
    /\ at \in {0} \cup {d.ref : d \in Drafts}
    /\ \A f \in Fields : shown[f] \in 0 .. Newest(f)
    /\ \A f \in Fields : \A k \in DOMAIN history[f] : history[f][k].value \in Values
    /\ world \in [source : Sources, code : Sources]
    /\ \A q \in DOMAIN cache : cache[q] \in Values
    /\ plan # None => /\ plan.stale \cup plan.asked \subseteq Fields
                      /\ \A p \in plan.steps : p.disposition \in Dispositions
    /\ run # None => \A f \in Fields : run.view[f] \in 0 .. Newest(f)

\* A run of a plan made for the version the record is at takes it to a version
\* that can be reached from there, and so never back to one it has left.
MovesForward ==
    [][at' # at /\ at # 0 /\ run # None /\ plan.from = at =>
        at' \in Reachable(at, Upgrades) /\ at \notin Reachable(at', Upgrades)]_vars

\* test_steps_are_ordered_by_what_they_read_and_write: along a path of one migration a
\* step that is not blocked runs after the steps that write what it reads, whatever
\* their keys are.
ReadsFollowWrites ==
    run # None /\ Cardinality({p.migration : p \in plan.steps}) = 1 =>
        \A j, k \in DOMAIN run.left :
            LET reader == Planned(run.left[j]) writer == Planned(run.left[k]) IN
            reader.disposition # "blocked" /\ writer.step.writes \cap Inputs(reader.step) # {} => k <= j

\* Work comes to an end: an operator who plans and runs again and again, while
\* nothing changes and nobody writes a value, gets a plan that has nothing to run.
\* A record that a curator has to decide on is held, and not computed again and again.
\* It is so as long as the stored values of a field are of one step: of two steps that
\* write a field each is judged against the value of the other.
Quiet == plan # None /\ plan.to = Goal =>
            \A p \in plan.steps : p.disposition \notin {"deterministic", "semantic"}
NobodyWrites ==
    ingests <= 1 /\ \A f \in Fields : \A k \in DOMAIN history[f] : history[f][k].by # "person"
OneStepWrites ==
    \A f \in Fields :
        Cardinality(UNION {{d \in a.deps : d[1] = "step"} : a \in ToSet(history[f])}) <= 1
ReplanningSettles == [](NobodyWrites /\ OneStepWrites) => <>[]Quiet

\* The stale report is complete: what a run publishes of a field that none of its
\* steps write, and no transform defines, is current under the target's definition, or
\* the plan the operator read before has named it, a field nothing is stored of among
\* them.
StaleIsReported ==
    [][Publish /\ NobodyWrites =>
        LET written == UNION {p.step.writes : p \in plan.steps} IN
        \A f \in Fields \ written :
            \/ ~Defined(at', f) \/ Schema(at').fields[f].computed
            \/ f \in plan.stale
            \/ Reusable(Currency(Held(f, shown'[f]), FieldDeps(at', f), Schema(at').fields[f].recipe))]_vars
=============================================================================

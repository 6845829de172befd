------------------------------ MODULE MCEngine ------------------------------
(* A two-step plan: the model reads field a, a transform derives b and c.  *)
EXTENDS EngineProperties

MCWrites == <<  <<"a">>, <<"b", "c">>  >>
MCReads == <<{}, {"a"}>>

View3(a, b, c) == [f \in Fields |-> CASE f = "a" -> a [] f = "b" -> b [] f = "c" -> c]

\* Before the run the record has a value for a alone.
MCInitial == View3("old", None, None)

RecordPlan(first, second) == [blocked |-> FALSE, disposition |-> <<first, second>>]
MCBlocked == [blocked |-> TRUE, disposition |-> <<"semantic", "deterministic">>]
MCPlans == {RecordPlan("semantic", "deterministic"), RecordPlan("reuse", "deterministic"),
            RecordPlan("review", "validate"), RecordPlan("semantic", "blocked"), MCBlocked}
OnePlan == {RecordPlan("semantic", "deterministic")}

\* The answer is a good value, one a validator flags, or one it refuses; the
\* transform cannot make anything the target schema takes of the old value.
MCOutcomes(s, view) ==
    IF s = 1 THEN {View3("new", None, None), View3("flagged", None, None), Rejected}
    ELSE {View3(None, view["a"], IF view["a"] = "old" THEN "bad" ELSE view["a"])}
MCContext(s, view) == "doc"

\* For the thread pool: one question per record, or a record the plan blocks.
PoolWrites == << <<"a">> >>
PoolReads == <<{}>>
PoolInitial == [f \in Fields |-> "old"]
PoolPlans == {[blocked |-> b, disposition |-> <<"semantic">>] : b \in BOOLEAN}
PoolOutcomes(s, view) == {[f \in Fields |-> "new"], Rejected}

\* The transform copies what it read, and c is not required.
CopyOutcomes(s, view) ==
    IF s = 1 THEN {View3("new", None, None)} ELSE {View3(None, view["a"], view["a"])}
=============================================================================

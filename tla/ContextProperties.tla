-------------------------- MODULE ContextProperties --------------------------
(* What a question may show, in which order, and what becomes of evidence.   *)
EXTENDS Context

\* The walk stays on the policy's chain, goes down it only, and asks at most as many
\* levels as the recipe's escalation names (Engine._ask).
TypeOK ==
    /\ policy \in Policies /\ parses \subseteq Versions /\ index \in {0} \cup parses
    /\ outcome \in {"none", "review", "failed", "written", "crashed"}
    /\ \A entry \in cache : entry.answer \in Answers \cup {More}
    /\ ~At("idle") =>
        /\ walk.phase \in {"look", "sent", "judge"} /\ walk.level \in 0 .. MaxLevels
        /\ \A i \in DOMAIN walk.tried : walk.tried[i] \in DOMAIN Chain
        /\ \A i, j \in DOMAIN walk.tried : i < j => walk.tried[i] < walk.tried[j]

\* Text taken as the whole document is before a model only when the policy lets the
\* chain reach it and the execution policy of the run allows it, at whatever level
\* (_run_semantic and _ask check it in two places).
FullOnlyWhenPermitted ==
    ~At("idle") /\ (\E k \in DOMAIN walk.res.units : walk.res.units[k].origin \in {"full", "raw"}) =>
        walk.permit /\ PermitsFull

\* What a question shows never exceeds the policy's budget, also when the units of
\* several sources are put together (_apply_budget).
BudgetKept == ~At("idle") => Within(walk.res.units)

\* A model is not shown a source before each narrower one of the chain was shown to
\* it or had nothing to show.
Usable(i, sel) ==
    LET src == Chain[i]
        found == DropForbidden(Selected(src, sel))
    IN /\ ~Billable(src) /\ Len(found) >= src.min
       /\ Kept(found) # found => policy.onBudget = "truncate"
       /\ Kept(found) # <<>> \/ src.min = 0
NarrowestFirst ==
    ~At("idle") /\ ~policy.accumulate /\ walk.tried # <<>> =>
        \A i \in 1 .. Last(walk.tried) :
            Usable(i, walk.sel) => \E k \in DOMAIN walk.tried : walk.tried[k] = i

\* A question that was answered is not paid for again, by a run that resumes or one
\* that walks the same levels: each call brought an answer no other call brought, is
\* under way, or was lost with its run.
AskedOnce == calls = Cardinality(said) + lost + (IF At("sent") THEN 1 ELSE 0)

\* The answer a step judges, from the model or from the cache, was given to the very
\* units its artifact will name as its context.
AnswersWhatWasShown ==
    At("judge") =>
        [parse |-> walk.sel.parse, units |-> walk.res.units, answer |-> walk.answer[1]] \in said

\* However often the evidence of a value is moved from parse to parse, each quote it
\* was imported with is a span or is counted as unlocated (reanchor_evidence).
EvidenceAccountedFor ==
    \A k \in DOMAIN artifacts["read"] :
        LET ref == artifacts["read"][k].ref IN Len(ref.spans) + ref.unlocated = Len(Quotes)

\* Every span kept for an imported value is, in the parse its reference names, the
\* text it recorded (reanchor_span).
EvidenceResolves ==
    \A k \in DOMAIN artifacts["read"] :
        LET ref == artifacts["read"][k].ref
        IN \A j \in DOMAIN ref.spans : Resolves(ref.spans[j], ref.parse)

\* reanchor --apply moves stored spans onto the parse it was given: afterwards the
\* value's evidence, as it is read from the store, is in that parse.
ReanchorTakesEffect ==
    [][\A p \in Versions : \A f \in Fields :
          Move(Reanchor(p)) /\ Moves(f, p) => Newest(f)'.ref = Reanchored(Newest(f).ref, p)]_vars

\* A span lies inside a unit of the document: its unit is one of the parse it names.
SpansNameUnits ==
    \A f \in Fields : \A k \in DOMAIN artifacts[f] :
        LET ref == artifacts[f][k].ref
        IN ref # None => \A j \in DOMAIN ref.spans : UnitOf(ref.parse, ref.spans[j].unit) # None
=============================================================================

------------------------------- MODULE MCPlanner -------------------------------
(* Three versions of a schema with four fields, and migrations along and    *)
(* across them.  From version 2 to 3 one of two is registered: one that asks *)
(* by a recipe nobody registers, or one that writes a field which the        *)
(* migration before it writes.                                               *)
EXTENDS PlannerProperties

MCFields == {"f", "g", "h", "k"}
Def(wording, shape, recipe) ==
    [wording |-> wording, shape |-> shape, recipe |-> recipe, computed |-> FALSE]
MCDrafts == {
    [ref |-> 1, fields |-> [f |-> Def(1, 1, 0), g |-> Undefined, h |-> Undefined, k |-> Undefined]],
    [ref |-> 2, fields |-> [f |-> Def(1, 2, 0), g |-> Def(1, 1, 0), h |-> Def(1, 1, 1), k |-> Undefined]],
    [ref |-> 3, fields |-> [f |-> Def(1, 2, 0), g |-> Def(2, 1, 0), h |-> Def(1, 1, 1), k |-> Def(1, 1, 0)]]}

Step(id, kind, reads, writes) ==
    [id |-> id, kind |-> kind, reads |-> reads, writes |-> writes, required |-> {}, after |-> {},
     recipe |-> 0, source |-> FALSE, full |-> FALSE, rank |-> 0, reusable |-> TRUE]
Migration(id, from, to, steps) ==
    [id |-> id, from |-> from, to |-> to, steps |-> steps, acknowledged |-> {},
     approved |-> TRUE, main |-> TRUE, downgrade |-> FALSE]
InPlace == Step(2, "transform", {"f"}, {"f"})
Derive == [Step(3, "transform", {"f"}, {"g"}) EXCEPT !.required = {"f"}]
Ask == [Step(1, "semantic", {"g"}, {"h"}) EXCEPT !.recipe = 1, !.source = TRUE, !.required = {"g"}]
Again == Step(2, "transform", {"g"}, {"g"})
Up12 == Migration(1, 1, 2, {InPlace, Derive, Ask})
Unknown == [Step(4, "semantic", {"g"}, {"k"}) EXCEPT !.recipe = 2]
Up23 == Migration(2, 2, 3, {Unknown})
Twice23 == [Migration(3, 2, 3, {Again}) EXCEPT !.acknowledged = {"k"}]
Back == [Migration(4, 3, 1, {}) EXCEPT !.acknowledged = {"f"}]
MCCatalogue == {Up12, Up23, Twice23, Back}
MCRecipes == {1}
MCSaved == [schemas |-> MCDrafts, recipes |-> {1}, migrations |-> {Up12}]
MCPreference == [hops |-> 2, optimise |-> "fidelity", approved |-> TRUE, main |-> TRUE, noFull |-> FALSE]
MCPolicy == [lossy |-> TRUE, full |-> FALSE, destructive |-> FALSE, named |-> {}]
MCComputed ==
    LET Sum(s) == [x \in (1 .. 2) \X [s.reads -> 0 .. 2] |->
                      1 + (FoldFunction(LAMBDA v, n : v + n, s.id, x[2]) % 2)]
    IN [key \in {12, 13, 32} |->
            Sum(CASE key = 12 -> InPlace [] key = 13 -> Derive [] OTHER -> Again)]
MCContext == [s \in {1, 4} |-> <<"units", "full">>]
=============================================================================

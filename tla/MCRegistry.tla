------------------------------ MODULE MCRegistry ------------------------------
(* Four versions and ten migrations: two ways from 1 to 3, rivals for both   *)
(* edges of a diamond, two that close cycles of two and three, a downgrade,   *)
(* one that is never valid.                                                   *)
EXTENDS RegistryProperties

MCFields == {"f"}
MCDrafts == {[ref |-> r, fields |-> [f |-> [wording |-> w, shape |-> s, recipe |-> 0, computed |-> FALSE]]] :
                <<r, w, s>> \in {<<1, 1, 1>>, <<2, 1, 2>>, <<3, 2, 2>>, <<3, 1, 1>>, <<4, 2, 2>>}}
MCRecipes == {1}

Ask == [id |-> 1, kind |-> "semantic", reads |-> {"f"}, writes |-> {"f"}, required |-> {},
        after |-> {}, recipe |-> 1, source |-> TRUE, full |-> FALSE, rank |-> 0, reusable |-> TRUE]
AskAll == [Ask EXCEPT !.full = TRUE]
Tidy == [Ask EXCEPT !.id = 2, !.kind = "transform", !.recipe = 0, !.source = FALSE, !.after = {1}]
Move == [Tidy EXCEPT !.after = {}, !.rank = 1]
Round == {[Ask EXCEPT !.after = {2}], Tidy}

Up(id, from, to, steps) ==
    [id |-> id, from |-> from, to |-> to, steps |-> steps, acknowledged |-> {},
     approved |-> TRUE, main |-> TRUE, downgrade |-> FALSE]
MCCatalogue == {
    Up(1, 1, 2, {Move}), [Up(2, 1, 2, {Ask}) EXCEPT !.approved = FALSE], Up(3, 1, 2, {Ask, Tidy}),
    Up(4, 2, 3, {}), Up(5, 1, 3, {AskAll}), Up(6, 3, 4, {}), Up(7, 2, 4, Round),
    [Up(8, 4, 1, {Move}) EXCEPT !.main = FALSE], [Up(9, 2, 1, {Move}) EXCEPT !.downgrade = TRUE],
    Up(10, 2, 1, {Move})}
MCSaved == [schemas |-> {}, recipes |-> {}, migrations |-> {}]
MCPreference == [hops |-> 1, optimise |-> "cost", approved |-> FALSE, main |-> TRUE, noFull |-> TRUE]
=============================================================================

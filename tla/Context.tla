------------------------------- MODULE Context -------------------------------
(***************************************************************************)
(* What a semantic step shows to the model: the chain of sources of a      *)
(* context policy (resolve_context) and the walk down it when the model    *)
(* asks for more (Engine._ask), for the one step that writes "written" and *)
(* reads "read" with its evidence.  Parses are stored, and evidence is     *)
(* moved between them, while the step runs and between its runs.           *)
(***************************************************************************)
EXTENDS Evidence

CONSTANTS
    Policies,    \* context policies; the step has one of them
    Answers,     \* what a model says: sequences of quotes
    More,        \* or that it needs more than this (wants_more)
    Rendered,    \* the text a structured value is shown as
    MaxLevels,   \* EscalationSpec.max_escalations
    MaxRuns,     \* bound: runs of the step
    MaxMoves,    \* bound: imports, parses and re-anchorings
    MaxCrashes   \* bound: runs that die

\* ranked: the positions of the units a retriever finds in each parse, best first.
Sources ==
    [kind : {"none", "structured", "full", "raw"}, min : Nat]
    \cup [kind : {"evidence"}, min : Nat, expand : Nat]
    \cup [kind : {"sections"}, min : Nat, names : SUBSET STRING]
    \cup [kind : {"retrieve"}, min : Nat, billable : BOOLEAN, ranked : Seq(Seq(Nat))]
PolicySet ==
    [sequence : Seq(Sources), fallback : {"forbidden", "allowed", "required"},
     onMissing : {"review", "fail", "proceed"}, onBudget : {"truncate", "skip", "fail"},
     maxUnits : Nat, maxChars : Nat, accumulate : BOOLEAN, forbidden : SUBSET STRING]

ASSUME ContextAssumption ==
    /\ MaxLevels \in Nat /\ MaxRuns \in Nat /\ MaxMoves \in Nat /\ MaxCrashes \in Nat
    /\ Policies \subseteq PolicySet
    /\ \A policy \in Policies : \A k \in DOMAIN policy.sequence :
          policy.sequence[k].kind = "retrieve" =>
              \A p \in Versions : policy.sequence[k].ranked[p] \in Seq(DOMAIN Parses[p])

VARIABLES
    policy,
    walk,      \* the run of the step under way
    cache,     \* answers kept, by the question
    outcome,   \* of the last run
    calls, lost,       \* history: calls paid for; those whose answer died with the run
    said,              \* history: what the model answered to what
    runs, moves, crashes

vars == <<parses, index, artifacts, policy, walk, cache, outcome, calls, lost, said, runs, moves, crashes>>
bounds == <<runs, moves, crashes>>

-----------------------------------------------------------------------------
(* The policy.                                                              *)

Full == [kind |-> "full", min |-> 1]
IsFull(src) == src.kind \in {"full", "raw"}
NamesFull == \E k \in DOMAIN policy.sequence : IsFull(policy.sequence[k])
PermitsFull == policy.fallback # "forbidden" \/ NamesFull
\* effective_sequence.
Chain ==
    CASE policy.fallback = "required" -> <<Full>>
      [] policy.fallback = "allowed" /\ ~NamesFull -> Append(policy.sequence, Full)
      [] OTHER -> policy.sequence

Chars(units) == Cardinality(UNION {{k} \X DOMAIN units[k].text : k \in DOMAIN units})
Within(units) == Len(units) <= policy.maxUnits /\ Chars(units) <= policy.maxChars
\* _apply_budget: what comes before the first unit too many.
Kept(units) ==
    SubSeq(units, 1, CHOOSE n \in 0 .. Len(units) :
        /\ Within(SubSeq(units, 1, n))
        /\ n < Len(units) => ~Within(SubSeq(units, 1, n + 1)))

-----------------------------------------------------------------------------
(* The sources.  A selection reads the parse and the evidence the run found *)
(* when it took up the record.                                              *)

Shown(id, text, src, labels) == [id |-> id, text |-> text, origin |-> src.kind, labels |-> labels]
Whole(src, units) ==
    [k \in DOMAIN units |-> Shown(units[k].id, units[k].text, src, units[k].labels)]

\* _select_prior_evidence: the stored offsets, widened, in the parse at hand.
Excerpts(src, sel) ==
    LET spans == sel.ref.spans
        Cut(span) ==
          LET unit == UnitOf(sel.parse, span.unit)
              from == IF span.start > src.expand THEN span.start - src.expand ELSE 0
              past == span.start + Len(span.text) + src.expand
              to == IF past < Len(unit.text) THEN past ELSE Len(unit.text)
          IN IF unit = None THEN Shown(<<>>, <<>>, src, {})
             ELSE Shown(unit.id \o <<from, to>>, Slice(unit.text, from, to), src, {})
        cuts == [k \in DOMAIN spans |-> Cut(spans[k])]
        New(k) == cuts[k].text # <<>> /\ \A j \in 1 .. k - 1 : cuts[j].id # cuts[k].id
    IN Picked(cuts, {k \in DOMAIN cuts : New(k)})

Selected(src, sel) ==
    LET units == Parses[sel.parse]
        ofSection == {k \in DOMAIN units : units[k].section \in src.names}
    IN CASE src.kind = "none" -> <<>>
         [] src.kind = "structured" -> <<Shown(<<"field">>, Rendered, src, {})>>
         [] src.kind = "evidence" -> Excerpts(src, sel)
         [] src.kind = "sections" -> Whole(src, Picked(units, ofSection))
         [] src.kind = "retrieve" ->
               Whole(src, [k \in DOMAIN src.ranked[sel.parse] |-> units[src.ranked[sel.parse][k]]])
         [] src.kind = "full" -> Whole(src, units)
         [] src.kind = "raw" -> <<Shown(<<"raw">>, <<>>, src, {})>>
DropForbidden(units) ==
    Picked(units, {k \in DOMAIN units : units[k].labels \cap policy.forbidden = {}})

\* A retriever that is itself a model is passed over when the run does not allow it.
Billable(src) == src.kind = "retrieve" /\ src.billable

-----------------------------------------------------------------------------
(* resolve_context.                                                         *)

Resolution(satisfied, units, used, last, full) ==
    [satisfied |-> satisfied, units |-> units, used |-> used, last |-> last, full |-> full]

\* The source's units with what was gathered before, cut to the budget.
\* Mutant: in an accumulating policy the budget is applied to each source by itself.
Offered_Each(got, found) ==
    IF policy.accumulate THEN got.units \o Kept(found) ELSE Kept(found)
Offered(got, found) == Kept(IF policy.accumulate THEN got.units \o found ELSE found)
Overflows(got, found) ==
    Len(Offered(got, found)) < Len(found) + (IF policy.accumulate THEN Len(got.units) ELSE 0)

\* The source contributes; the first that does ends the loop unless all are gathered.
Contribute(got, i, units) ==
    LET ends == ~policy.accumulate /\ (units # <<>> \/ Chain[i].min = 0)
    IN [got EXCEPT !.units = units, !.used = Append(@, i), !.last = i, !.done = ends,
                   !.full = @ /\ ~(ends /\ units = <<>>)]
Weigh(got, i, found) ==
    CASE Len(found) < Chain[i].min -> got
      [] Len(found) >= Chain[i].min /\ Overflows(got, found) /\ policy.onBudget = "skip" -> got
      [] Len(found) >= Chain[i].min /\ Overflows(got, found) /\ policy.onBudget = "fail" ->
            [got EXCEPT !.units = Offered(got, found), !.done = TRUE, !.satisfied = FALSE]
      [] OTHER -> Contribute(got, i, Offered(got, found))
\* One turn of the loop over the chain; done is the loop's return.
Look(got, i, found) ==
    Weigh([got EXCEPT !.full = @ \/ (IsFull(Chain[i]) /\ found # <<>>)], i, found)
Passed(src) == Billable(src) \/ (IsFull(src) /\ ~PermitsFull)
Consider(got, i, sel) ==
    IF got.done \/ Passed(Chain[i]) THEN got
    ELSE Look(got, i, DropForbidden(Selected(Chain[i], sel)))

Outcome(end) ==
    IF end.done \/ end.units # <<>>
    THEN Resolution(end.satisfied, end.units, end.used, end.last, end.full)
    ELSE Resolution(policy.onMissing = "proceed", <<>>, <<>>, 0, FALSE)
\* Nothing gathered yet.
Nothing == [done |-> FALSE, satisfied |-> TRUE, units |-> <<>>, used |-> <<>>, last |-> 0, full |-> FALSE]
\* What the loop has gathered after so many turns; it begins at from.
Gathered(sel, from) ==
    LET Turn[i \in 0 .. Len(Chain)] ==
          IF i < from THEN Nothing ELSE Consider(Turn[i - 1], i, sel)
    IN Turn
Resolve(sel, from) == Outcome(Gathered(sel, from)[Len(Chain)])

-----------------------------------------------------------------------------
(* The walk.                                                                *)

Selection == [parse |-> index, ref |-> Newest("read").ref]
\* cache_key: the step's dependencies, the parse among them, and the exact context.
\* Mutant: every level is kept under the first level's key.
Question_First(w) == [parse |-> w.sel.parse, units |-> w.first]
Question(w) == [parse |-> w.sel.parse, units |-> w.res.units]

\* Mutant: the next position is counted from the one after the last.
NextAt_Skips(res) == (IF res.last = 0 THEN 1 ELSE res.last) + 2
\* (used_index or 0) + 1, positions counted from 1.
NextAt(res) == (IF res.last = 0 THEN 1 ELSE res.last) + 1
\* Mutant: one level too many.
Exhausted_Late(w) == w.level > MaxLevels \/ NextAt(w.res) > Len(Chain)
Exhausted(w) == w.level >= MaxLevels \/ NextAt(w.res) > Len(Chain)

\* Mutant: only the first resolution is checked against the execution policy.
Refused_AtStart(res, permit, level) == level = 0 /\ res.full /\ ~permit
Refused(res, permit, level) == res.full /\ ~permit

\* _evidence_from_quotes: a quote is placed in the first unit shown that holds it.
Support(answer, w) ==
    LET Places(q) == {k \in DOMAIN w.res.units : Occurrences(w.res.units[k].text, q) # {}}
        found == Picked(answer, {k \in DOMAIN answer : Places(answer[k]) # {}})
        SpanOf(q) == LET unit == w.res.units[First(Places(q))]
                     IN Span(unit.id, First(Occurrences(unit.text, q)), q)
    IN IF answer = <<>> THEN None
       ELSE Reference(w.sel.parse, [k \in DOMAIN found |-> SpanOf(found[k])], Len(answer) - Len(found))

\* No run of the step is under way.
Idle == [phase |-> "idle"]
At(phase) == walk.phase = phase

Init ==
    /\ InitEvidence
    /\ policy \in Policies
    /\ walk = Idle /\ cache = {} /\ outcome = "none"
    /\ calls = 0 /\ lost = 0 /\ said = {} /\ runs = 0 /\ moves = 0 /\ crashes = 0

End(how) == walk' = Idle /\ outcome' = how

\* The step's run up to its first question; permit is allow_full_document.
Start(permit, res) ==
    \/ ~res.satisfied /\ End(IF policy.onMissing = "review" THEN "review" ELSE "failed")
    \/ res.satisfied /\ Refused(res, permit, 0) /\ End("failed")
    \/ /\ res.satisfied /\ ~Refused(res, permit, 0)
       /\ walk' = [phase |-> "look", sel |-> Selection, permit |-> permit, res |-> res,
                   first |-> res.units, tried |-> res.used, level |-> 0, answer |-> None]
       /\ UNCHANGED outcome
Begin(permit) ==
    /\ At("idle") /\ index # 0 /\ runs < MaxRuns
    /\ runs' = runs + 1
    /\ \E res \in {Resolve(Selection, 1)} : Start(permit, res)
    /\ UNCHANGED <<parses, index, artifacts, policy, cache, calls, lost, said, moves, crashes>>

\* cache_get, and the call when it has nothing.
Hit ==
    /\ At("look")
    /\ \E entry \in cache :
        /\ entry.question = Question(walk)
        /\ walk' = [walk EXCEPT !.phase = "judge", !.answer = <<entry.answer>>]
    /\ UNCHANGED <<parses, index, artifacts, policy, cache, outcome, calls, lost, said, bounds>>
Call ==
    /\ At("look")
    /\ \A entry \in cache : entry.question # Question(walk)
    /\ walk' = [walk EXCEPT !.phase = "sent"]
    /\ calls' = calls + 1
    /\ UNCHANGED <<parses, index, artifacts, policy, cache, outcome, lost, said, bounds>>

\* The answer, and cache_put, which keeps an entry it has.
\* Mutant: an answer that asks for more is not kept.
CachePut_Final(entry) ==
    IF entry.answer = More \/ (\E e \in cache : e.question = entry.question) THEN cache
    ELSE cache \cup {entry}
CachePut(entry) ==
    IF \E e \in cache : e.question = entry.question THEN cache ELSE cache \cup {entry}
Receive(answer) ==
    /\ At("sent")
    /\ walk' = [walk EXCEPT !.phase = "judge", !.answer = <<answer>>]
    /\ cache' = CachePut([question |-> Question(walk), answer |-> answer])
    /\ said' = said \cup {[parse |-> walk.sel.parse, units |-> walk.res.units, answer |-> answer]}
    /\ UNCHANGED <<parses, index, artifacts, policy, outcome, calls, lost, bounds>>

WantsMore == At("judge") /\ walk.answer = <<More>>
\* An answer: the artifact with the evidence its quotes give.
Settle ==
    /\ At("judge") /\ ~WantsMore
    /\ artifacts' = [artifacts EXCEPT !["written"] = PutFresh("written",
          Fresh("written", Support(walk.answer[1], walk), walk.sel.parse, walk.sel.parse, walk.res.units))]
    /\ End("written")
    /\ UNCHANGED <<parses, index, policy, cache, calls, lost, said, bounds>>
\* It asks for more: on to the next source, unless the chain has nothing left, as
\* many levels were asked as the recipe allows, or the run may not go there.
Descend(res) ==
    \/ (~res.satisfied \/ res.units = <<>>) /\ End("review")
    \/ res.satisfied /\ res.units # <<>> /\ Refused(res, walk.permit, walk.level + 1) /\ End("failed")
    \/ /\ res.satisfied /\ res.units # <<>> /\ ~Refused(res, walk.permit, walk.level + 1)
       /\ walk' = [walk EXCEPT !.phase = "look", !.res = res, !.tried = @ \o res.used,
                               !.level = @ + 1, !.answer = None]
       /\ UNCHANGED outcome
AskMore ==
    /\ WantsMore
    /\ \/ Exhausted(walk) /\ End("review")
       \/ /\ ~Exhausted(walk)
          /\ \E res \in {Resolve(walk.sel, NextAt(walk.res))} : Descend(res)
    /\ UNCHANGED <<parses, index, artifacts, policy, cache, calls, lost, said, bounds>>

Crash ==
    /\ ~At("idle") /\ crashes < MaxCrashes
    /\ crashes' = crashes + 1
    /\ lost' = lost + (IF At("sent") THEN 1 ELSE 0)
    /\ End("crashed")
    /\ UNCHANGED <<parses, index, artifacts, policy, cache, calls, said, runs, moves>>

Move(act) ==
    /\ moves < MaxMoves /\ moves' = moves + 1
    /\ act
    /\ UNCHANGED <<policy, walk, cache, outcome, calls, lost, said, runs, crashes>>

Next ==
    \/ \E permit \in BOOLEAN : Begin(permit)
    \/ Hit
    \/ Call
    \/ \E answer \in Answers \cup {More} : Receive(answer)
    \/ Settle
    \/ AskMore
    \/ Crash
    \/ \E p \in Versions : Move(Import(p))
    \/ \E p \in Versions : Move(AddParse(p))
    \/ \E p \in Versions : Move(Reanchor(p))

Spec == Init /\ [][Next]_vars
=============================================================================

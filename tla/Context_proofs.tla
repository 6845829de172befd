--------------------------- MODULE Context_proofs ---------------------------
(* Theorems about Context, for every policy, parse, answer and bound: what   *)
(* the chain resolves to, what a question may show and costs, and what       *)
(* becomes of the evidence that was imported.                                *)
EXTENDS ContextProperties, Evidence_proofs

-----------------------------------------------------------------------------
(* The policy and its chain.                                                *)

LEMMA PolicyTypes ==
    ASSUME policy \in Policies
    PROVE  /\ policy.sequence \in Seq(Sources) /\ Chain \in Seq(Sources) /\ Len(Chain) \in Nat
           /\ policy.maxUnits \in Nat /\ policy.maxChars \in Nat /\ policy.accumulate \in BOOLEAN
           /\ policy.onBudget \in {"truncate", "skip", "fail"}
<1>1. policy \in PolicySet
  BY ContextAssumption
<1>2. Full \in Sources
  BY DEF Full, Sources
<1>3. policy.sequence \in Seq(Sources)
  BY <1>1 DEF PolicySet
<1> HIDE DEF Sources
<1>4. Chain \in Seq(Sources)
  <2>1. <<Full>> \in Seq(Sources) /\ Append(policy.sequence, Full) \in Seq(Sources)
    BY <1>2, <1>3
  <2> QED BY <1>3, <2>1 DEF Chain
<1>5. Len(Chain) \in Nat
  BY <1>4
<1> QED BY <1>1, <1>3, <1>4, <1>5 DEF PolicySet

\* A source of the chain is one the policy names, or the whole document it falls back to.
LEMMA ChainSources ==
    ASSUME policy \in Policies, NEW i \in 1 .. Len(Chain)
    PROVE  /\ Chain[i] \in Sources
           /\ \/ \E k \in DOMAIN policy.sequence : Chain[i] = policy.sequence[k]
              \/ Chain[i] = Full /\ policy.fallback # "forbidden"
<1>1. policy.sequence \in Seq(Sources) /\ Chain \in Seq(Sources)
  BY PolicyTypes
<1> HIDE DEF Sources
<1>2. Chain[i] \in Sources
  BY <1>1
<1>3. CASE policy.fallback = "required"
  <2>1. Chain = <<Full>>
    BY <1>3 DEF Chain
  <2>2. i = 1 /\ Chain[1] = Full
    BY <2>1
  <2> QED BY <1>2, <1>3, <2>2
<1>4. CASE policy.fallback = "allowed" /\ ~NamesFull
  <2>1. Chain = Append(policy.sequence, Full)
    BY <1>4 DEF Chain
  <2>2. Len(policy.sequence) \in Nat /\ i \in 1 .. Len(policy.sequence) + 1
        /\ DOMAIN policy.sequence = 1 .. Len(policy.sequence)
    BY <1>1, <2>1
  <2>3. Chain[i] = IF i = Len(policy.sequence) + 1 THEN Full ELSE policy.sequence[i]
    BY <1>1, <2>1, <2>2
  <2> QED BY <1>2, <1>4, <2>2, <2>3
<1>5. CASE policy.fallback # "required" /\ ~(policy.fallback = "allowed" /\ ~NamesFull)
  <2>1. Chain = policy.sequence
    BY <1>5 DEF Chain
  <2>2. i \in DOMAIN policy.sequence
    BY <1>1, <2>1
  <2> QED BY <1>2, <2>1, <2>2
<1> QED BY <1>3, <1>4, <1>5

\* The whole document is on the chain only when the policy lets it be reached.
LEMMA FullOnTheChain ==
    ASSUME policy \in Policies, NEW i \in 1 .. Len(Chain), IsFull(Chain[i])
    PROVE  PermitsFull
BY ChainSources DEF PermitsFull, NamesFull

-----------------------------------------------------------------------------
(* The units of a source.                                                   *)

\* What a selection reads: a parse of the source, and evidence in it.
Readable(sel) == sel.parse \in Versions /\ IsSeq(sel.ref.spans)
\* The units are of this source.
From(units, src) == IsSeq(units) /\ \A k \in DOMAIN units : units[k].origin = src.kind

LEMMA ShownFrom ==
    ASSUME NEW id, NEW text, NEW src, NEW labels
    PROVE  /\ Shown(id, text, src, labels).origin = src.kind
           /\ From(<<Shown(id, text, src, labels)>>, src)
<1> DEFINE u == Shown(id, text, src, labels)
<1>1. u.origin = src.kind
  BY DEF Shown
<1> HIDE DEF u
<1>2. <<u>> \in Seq({u}) /\ DOMAIN <<u>> = {1} /\ <<u>>[1] = u
  BY OneElement
<1>3. From(<<u>>, src)
  BY <1>1, <1>2 DEF From, IsSeq
<1> QED BY <1>1, <1>3 DEF u

LEMMA WholeFrom ==
    ASSUME NEW src, NEW units, IsSeq(units)
    PROVE  From(Whole(src, units), src)
<1> DEFINE w == [k \in DOMAIN units |-> Shown(units[k].id, units[k].text, src, units[k].labels)]
<1>1. IsSeq(w) /\ DOMAIN w = DOMAIN units
  BY OverPositions
<1>2. ASSUME NEW k \in DOMAIN units
      PROVE  w[k].origin = src.kind
  <2>1. w[k] = Shown(units[k].id, units[k].text, src, units[k].labels)
    OBVIOUS
  <2> HIDE DEF w
  <2> QED BY <2>1 DEF Shown
<1> HIDE DEF w
<1>3. From(w, src)
  BY <1>1, <1>2 DEF From
<1> QED BY <1>3 DEF Whole, w

LEMMA PickedFrom ==
    ASSUME NEW src, NEW units, From(units, src), NEW keep
    PROVE  From(Picked(units, keep), src)
<1>1. /\ IsSeq(Picked(units, keep))
      /\ \A j \in DOMAIN Picked(units, keep) : \E k \in keep \cap DOMAIN units : Picked(units, keep)[j] = units[k]
  BY PickedIsSeq DEF From
<1> QED BY <1>1 DEF From

LEMMA ExcerptsFrom ==
    ASSUME NEW src, NEW sel, IsSeq(sel.ref.spans)
    PROVE  From(Excerpts(src, sel), src)
<1> DEFINE spans == sel.ref.spans
           Cut(span) ==
             LET unit == UnitOf(sel.parse, span.unit)
                 from == IF span.start > src.expand THEN span.start - src.expand ELSE 0
                 past == span.start + Len(span.text) + src.expand
                 to == IF past < Len(unit.text) THEN past ELSE Len(unit.text)
             IN IF unit = None THEN Shown(<<>>, <<>>, src, {})
                ELSE Shown(unit.id \o <<from, to>>, Slice(unit.text, from, to), src, {})
           cuts == [k \in DOMAIN spans |-> Cut(spans[k])]
           New(k) == cuts[k].text # <<>> /\ \A j \in 1 .. k - 1 : cuts[j].id # cuts[k].id
           news == {k \in DOMAIN cuts : New(k)}
<1>1. Excerpts(src, sel) = Picked(cuts, news)
  BY DEF Excerpts
<1>2. \A span : Cut(span).origin = src.kind
  BY ShownFrom
<1> HIDE DEF Cut, news
<1>3. IsSeq(cuts) /\ DOMAIN cuts = DOMAIN spans
  BY OverPositions
<1>4. \A k \in DOMAIN spans : cuts[k].origin = src.kind
  BY <1>2
<1> HIDE DEF cuts
<1>5. From(cuts, src)
  BY <1>3, <1>4 DEF From
<1>6. From(Picked(cuts, news), src)
  BY <1>5, PickedFrom
<1> QED BY <1>1, <1>6

LEMMA SelectedFrom ==
    ASSUME policy \in Policies, NEW i \in 1 .. Len(Chain), NEW sel, Readable(sel)
    PROVE  From(Selected(Chain[i], sel), Chain[i])
<1> DEFINE src == Chain[i]
           units == Parses[sel.parse]
           ofSection == {k \in DOMAIN units : units[k].section \in src.names}
           ranked == [k \in DOMAIN src.ranked[sel.parse] |-> units[src.ranked[sel.parse][k]]]
<1>1. src.kind \in {"none", "structured", "evidence", "sections", "retrieve", "full", "raw"}
  BY ChainSources DEF Sources
<1>2. IsSeq(units)
  BY ParseTypes DEF Readable, IsSeq
<1>3. CASE src.kind = "none"
  <2>1. IsSeq(<<>>) /\ DOMAIN <<>> = {}
    BY EmptySequence DEF IsSeq
  <2> QED BY <1>3, <2>1 DEF Selected, From
<1>4. CASE src.kind = "structured"
  BY <1>4, ShownFrom DEF Selected
<1>5. CASE src.kind = "evidence"
  BY <1>5, ExcerptsFrom DEF Selected, Readable
<1>6. CASE src.kind = "sections"
  <2>1. IsSeq(Picked(units, ofSection))
    BY <1>2, PickedIsSeq
  <2>2. Selected(src, sel) = Whole(src, Picked(units, ofSection))
    BY <1>6 DEF Selected
  <2> HIDE DEF ofSection, units
  <2> QED BY <2>1, <2>2, WholeFrom
<1>7. CASE src.kind = "retrieve"
  <2>1. IsSeq(src.ranked[sel.parse])
    <3>1. PICK k \in DOMAIN policy.sequence : src = policy.sequence[k]
      BY <1>7, ChainSources DEF Full
    <3>2. src.ranked[sel.parse] \in Seq(DOMAIN Parses[sel.parse])
      BY <1>7, <3>1, ContextAssumption DEF Readable
    <3> QED BY <3>2 DEF IsSeq
  <2>2. IsSeq(ranked)
    BY <2>1, OverPositions
  <2>3. Selected(src, sel) = Whole(src, ranked)
    BY <1>7 DEF Selected
  <2> HIDE DEF ranked
  <2> QED BY <2>2, <2>3, WholeFrom
<1>8. CASE src.kind = "full"
  BY <1>2, <1>8, WholeFrom DEF Selected
<1>9. CASE src.kind = "raw"
  BY <1>9, ShownFrom DEF Selected
<1> QED BY <1>1, <1>3, <1>4, <1>5, <1>6, <1>7, <1>8, <1>9

\* What the source is found to have, without what may not be shown.
Found(i, sel) == DropForbidden(Selected(Chain[i], sel))

LEMMA FoundFrom ==
    ASSUME policy \in Policies, NEW i \in 1 .. Len(Chain), NEW sel, Readable(sel)
    PROVE  From(Found(i, sel), Chain[i]) /\ Len(Found(i, sel)) \in Nat
<1>1. From(Found(i, sel), Chain[i])
  BY SelectedFrom, PickedFrom DEF Found, DropForbidden
<1> QED BY <1>1 DEF From, IsSeq

-----------------------------------------------------------------------------
(* The budget.                                                              *)

LEMMA EmptyWithin ==
    ASSUME policy \in Policies
    PROVE  Within(<<>>)
<1>1. Chars(<<>>) = 0
  <2>1. UNION {{k} \X DOMAIN <<>>[k].text : k \in DOMAIN <<>>} = {}
    <3>1. DOMAIN <<>> = {}
      OBVIOUS
    <3> QED BY <3>1
  <2> QED BY <2>1, FS_EmptySet DEF Chars
<1> QED BY <1>1, EmptySequence, PolicyTypes DEF Within

\* The part of the units before the first one too many.
LEMMA KeptPart ==
    ASSUME policy \in Policies, NEW units, IsSeq(units)
    PROVE  /\ Within(Kept(units)) /\ IsSeq(Kept(units))
           /\ Len(units) \in Nat /\ Len(Kept(units)) \in 0 .. Len(units)
           /\ \A k \in DOMAIN Kept(units) : k \in DOMAIN units /\ Kept(units)[k] = units[k]
           /\ Len(Kept(units)) = Len(units) => Kept(units) = units
<1> DEFINE Stops(n) == n < Len(units) => ~Within(SubSeq(units, 1, n + 1))
           T == {n \in 0 .. Len(units) : Stops(n)}
           P(n) == Within(SubSeq(units, 1, n)) /\ Stops(n)
           N == CHOOSE n \in 0 .. Len(units) : P(n)
<1>1. PICK S : units \in Seq(S)
  BY DEF IsSeq
<1>2. Len(units) \in Nat /\ DOMAIN units = 1 .. Len(units)
  BY <1>1
<1>3. \E n \in 0 .. Len(units) : P(n)
  <2>1. Len(units) \in T
    BY <1>2
  <2>2. T \subseteq Nat
    BY <1>2
  <2>3. PICK n \in T : \A m \in T : n <= m
    <3> HIDE DEF T
    <3> QED BY <2>1, <2>2, LeastNatural
  <2>4. n \in 0 .. Len(units) /\ Stops(n)
    OBVIOUS
  <2>5. CASE n = 0
    <3>1. SubSeq(units, 1, 0) = <<>>
      BY <1>1
    <3>2. Within(<<>>)
      BY EmptyWithin
    <3> QED BY <2>4, <2>5, <3>1, <3>2
  <2>6. CASE n # 0
    <3>1. n - 1 \in 0 .. Len(units) /\ n - 1 < n /\ n - 1 < Len(units) /\ (n - 1) + 1 = n
      BY <1>2, <2>4, <2>6
    <3>2. n - 1 \notin T
      BY <2>3, <3>1, <2>4, <1>2
    <3>3. Within(SubSeq(units, 1, n))
      BY <3>1, <3>2
    <3> QED BY <2>4, <3>3
  <2> QED BY <2>5, <2>6
<1>4. N \in 0 .. Len(units) /\ P(N)
  BY <1>3
<1>5. Kept(units) = SubSeq(units, 1, N)
  BY DEF Kept
<1> HIDE DEF N
<1>6. SubSeq(units, 1, N) \in Seq(S) /\ Len(SubSeq(units, 1, N)) = N
      /\ \A k \in 1 .. N : SubSeq(units, 1, N)[k] = units[k]
  BY <1>1, <1>2, <1>4
<1>7. Within(Kept(units)) /\ IsSeq(Kept(units)) /\ Len(Kept(units)) = N
  BY <1>4, <1>5, <1>6 DEF IsSeq
<1>8. \A k \in DOMAIN Kept(units) : k \in DOMAIN units /\ Kept(units)[k] = units[k]
  BY <1>2, <1>4, <1>5, <1>6
<1>9. N = Len(units) => Kept(units) = units
  BY <1>1, <1>2, <1>5
<1> QED BY <1>2, <1>4, <1>7, <1>8, <1>9

\* A text that is the whole document is among the units.
ShowsFull(units) == \E k \in DOMAIN units : units[k].origin \in {"full", "raw"}

LEMMA OfferedPart ==
    ASSUME policy \in Policies, NEW got, IsSeq(got.units), NEW found, IsSeq(found)
    PROVE  /\ Within(Offered(got, found)) /\ IsSeq(Offered(got, found))
           /\ ShowsFull(Offered(got, found)) => ShowsFull(got.units) \/ ShowsFull(found)
           /\ ~policy.accumulate /\ ~Overflows(got, found) => Kept(found) = found
           /\ ~policy.accumulate => Offered(got, found) = Kept(found)
           /\ Overflows(got, found) /\ ~policy.accumulate => Kept(found) # found
<1>1. PICK S, R : got.units \in Seq(S) /\ found \in Seq(R)
  BY DEF IsSeq
<1> DEFINE both == got.units \o found
<1>2. IsSeq(both)
  <2> DEFINE Q == S \cup R
  <2>1. got.units \in Seq(Q) /\ found \in Seq(Q)
    BY <1>1
  <2> HIDE DEF Q
  <2>2. both \in Seq(Q)
    BY <2>1, Concatenated
  <2> QED BY <2>2 DEF IsSeq
<1>3. ShowsFull(both) => ShowsFull(got.units) \/ ShowsFull(found)
  <2>1. SUFFICES ASSUME NEW k \in DOMAIN both, both[k].origin \in {"full", "raw"}
                 PROVE  ShowsFull(got.units) \/ ShowsFull(found)
    BY DEF ShowsFull
  <2>2. \/ k \in DOMAIN got.units /\ both[k] = got.units[k]
        \/ \E j \in DOMAIN found : both[k] = found[j]
    BY <1>1, ElementOfEither
  <2> HIDE DEF both
  <2> QED BY <2>1, <2>2 DEF ShowsFull
<1> HIDE DEF both
<1>4. ASSUME NEW units, IsSeq(units), ShowsFull(Kept(units))
      PROVE  ShowsFull(units)
  BY <1>4, KeptPart DEF ShowsFull
<1>5. CASE policy.accumulate
  <2>1. Offered(got, found) = Kept(both)
    BY <1>5 DEF Offered, both
  <2> QED BY <1>2, <1>3, <1>4, <1>5, <2>1, KeptPart
<1>6. CASE ~policy.accumulate
  <2>1. Offered(got, found) = Kept(found)
    BY <1>6 DEF Offered
  <2>2. Len(found) \in Nat /\ Len(Kept(found)) \in 0 .. Len(found)
        /\ (Len(Kept(found)) = Len(found) => Kept(found) = found)
    BY KeptPart
  <2>3. Overflows(got, found) <=> Len(Kept(found)) < Len(found)
    BY <1>6, <2>1, <2>2 DEF Overflows
  <2>4. ~Overflows(got, found) => Kept(found) = found
    BY <2>2, <2>3
  <2>5. Overflows(got, found) => Kept(found) # found
    BY <2>2, <2>3
  <2> QED BY <1>4, <1>6, <2>1, <2>4, <2>5, KeptPart
<1> QED BY <1>5, <1>6

-----------------------------------------------------------------------------
(* One turn of the loop.                                                    *)

Ascends(s) == \A i, j \in DOMAIN s : i < j => s[i] < s[j]

\* What the loop has gathered when it has been at the positions from .. i.
Shaped(got) ==
    /\ {"done", "satisfied", "units", "used", "last", "full"} \subseteq DOMAIN got
    /\ {got.done, got.satisfied, got.full} \subseteq BOOLEAN
GotUnits(got) ==
    /\ IsSeq(got.units) /\ Within(got.units)
    /\ ShowsFull(got.units) => got.full /\ PermitsFull
GotUsed(got, from, i) ==
    /\ got.used \in Seq(from .. i) /\ Ascends(got.used)
    /\ got.last = IF got.used = <<>> THEN 0 ELSE got.used[Len(got.used)]
GotEnough(got) ==
    /\ ~got.done => got.satisfied
    /\ got.satisfied /\ (got.done \/ got.units # <<>>) => got.used # <<>>
\* The first source that is usable ends the loop, unless all are gathered.
EndsAtUsable(got, from, i, sel) ==
    ~policy.accumulate =>
        \A j \in from .. i : Usable(j, sel) => got.done /\ (got.satisfied => got.last <= j)
GotInv(got, from, i, sel) ==
    Shaped(got) /\ GotUnits(got) /\ GotUsed(got, from, i) /\ GotEnough(got)
        /\ EndsAtUsable(got, from, i, sel)

LEMMA NothingGot ==
    ASSUME policy \in Policies, NEW from \in Nat \ {0}, NEW sel
    PROVE  GotInv(Nothing, from, from - 1, sel)
<1>1. IsSeq(<<>>) /\ Within(<<>>) /\ ~ShowsFull(<<>>)
  <2>1. DOMAIN <<>> = {}
    OBVIOUS
  <2> QED BY <2>1, EmptyWithin, EmptySequence DEF IsSeq, ShowsFull
<1>2. <<>> \in Seq(from .. from - 1) /\ Ascends(<<>>)
  BY EmptySequence DEF Ascends
<1>3. from .. from - 1 = {}
  OBVIOUS
<1> QED
  BY <1>1, <1>2, <1>3
  DEF Nothing, GotInv, Shaped, GotUnits, GotUsed, GotEnough, EndsAtUsable

\* The source at i adds nothing: the loop has ended, or the source is not usable.
LEMMA GoesOn ==
    ASSUME policy \in Policies, NEW from \in Nat \ {0}, NEW i \in Nat, from <= i, NEW sel, NEW got,
           GotInv(got, from, i - 1, sel), got.done \/ policy.accumulate \/ ~Usable(i, sel)
    PROVE  GotInv(got, from, i, sel)
<1>1. i - 1 \in Nat /\ from .. i - 1 \subseteq from .. i /\ \A j \in from .. i : j = i \/ j \in from .. i - 1
  OBVIOUS
<1>2. got.used \in Seq(from .. i - 1)
  BY DEF GotInv, GotUsed
<1>3. got.used \in Seq(from .. i)
  BY <1>1, <1>2
<1>4. got.last <= i
  BY <1>2 DEF GotInv, GotUsed
<1>5. EndsAtUsable(got, from, i, sel)
  BY <1>1, <1>4 DEF GotInv, EndsAtUsable
<1> QED BY <1>3, <1>5 DEF GotInv, GotUsed

\* The whole document counts as shown once its source has something to show.
Noted(got, i, found) == [got EXCEPT !.full = @ \/ (IsFull(Chain[i]) /\ found # <<>>)]

LEMMA NotedKeeps ==
    ASSUME policy \in Policies, NEW from \in Nat \ {0}, NEW i \in 1 .. Len(Chain), from <= i, NEW sel, NEW got,
           Readable(sel), GotInv(got, from, i - 1, sel)
    PROVE  LET e == Noted(got, i, Found(i, sel)) IN
           /\ GotInv(e, from, i - 1, sel)
           /\ e.done = got.done
           /\ IsFull(Chain[i]) /\ Found(i, sel) # <<>> => e.full
<1> DEFINE found == Found(i, sel)
           e == Noted(got, i, found)
           b == got.full \/ (IsFull(Chain[i]) /\ found # <<>>)
<1>1. b \in BOOLEAN /\ (got.full => b) /\ (IsFull(Chain[i]) /\ found # <<>> => b)
  OBVIOUS
<1> HIDE DEF b, found
<1>2. e = [got EXCEPT !.full = b]
  BY DEF Noted, b
<1>3. {"done", "satisfied", "units", "used", "last", "full"} \subseteq DOMAIN got
  BY DEF GotInv, Shaped
<1> HIDE DEF e
<1>4. /\ DOMAIN e = DOMAIN got /\ e.full = b
      /\ e.done = got.done /\ e.satisfied = got.satisfied /\ e.units = got.units
      /\ e.used = got.used /\ e.last = got.last
  BY <1>2, <1>3
<1>5. Shaped(e)
  BY <1>1, <1>4 DEF GotInv, Shaped
<1>6. GotUnits(e)
  BY <1>1, <1>4 DEF GotInv, GotUnits
<1>7. GotUsed(e, from, i - 1) /\ GotEnough(e) /\ EndsAtUsable(e, from, i - 1, sel)
  BY <1>4 DEF GotInv, GotUsed, GotEnough, EndsAtUsable
<1>8. GotInv(e, from, i - 1, sel) /\ e.done = got.done /\ (IsFull(Chain[i]) /\ found # <<>> => e.full)
  BY <1>1, <1>4, <1>5, <1>6, <1>7 DEF GotInv
<1> QED BY <1>8 DEF e, found

\* The units offered are whole only if those gathered or those found are.
LEMMA OfferedUnits ==
    ASSUME policy \in Policies, NEW from, NEW i \in 1 .. Len(Chain), NEW sel, NEW got, Readable(sel),
           GotUnits(got), IsFull(Chain[i]) /\ Found(i, sel) # <<>> => got.full
    PROVE  LET units == Offered(got, Found(i, sel)) IN
           /\ IsSeq(units) /\ Within(units)
           /\ ShowsFull(units) => got.full /\ PermitsFull
<1> DEFINE found == Found(i, sel)
           units == Offered(got, found)
<1>1. From(found, Chain[i]) /\ IsSeq(found)
  BY FoundFrom DEF From
<1>2. IsSeq(got.units)
  BY DEF GotUnits
<1>3. IsSeq(units) /\ Within(units) /\ (ShowsFull(units) => ShowsFull(got.units) \/ ShowsFull(found))
  BY <1>1, <1>2, OfferedPart
<1>4. ASSUME ShowsFull(found)
      PROVE  IsFull(Chain[i]) /\ found # <<>>
  <2>1. PICK k \in DOMAIN found : found[k].origin \in {"full", "raw"}
    BY <1>4 DEF ShowsFull
  <2>2. found[k].origin = Chain[i].kind
    BY <1>1, <2>1 DEF From
  <2>3. found # <<>>
    BY <2>1
  <2> QED BY <2>1, <2>2, <2>3 DEF IsFull
<1>5. ShowsFull(found) => got.full /\ PermitsFull
  BY <1>4, FullOnTheChain
<1> HIDE DEF units, found
<1>6. ShowsFull(units) => got.full /\ PermitsFull
  BY <1>3, <1>5 DEF GotUnits
<1> QED BY <1>3, <1>6 DEF units, found

LEMMA UsedAppended ==
    ASSUME NEW from \in Nat \ {0}, NEW i \in Nat, from <= i, NEW s \in Seq(from .. i - 1), Ascends(s)
    PROVE  /\ Append(s, i) \in Seq(from .. i) /\ Ascends(Append(s, i)) /\ Append(s, i) # <<>>
           /\ Append(s, i)[Len(Append(s, i))] = i
<1>1. Len(s) \in Nat /\ DOMAIN s = 1 .. Len(s) /\ \A k \in 1 .. Len(s) : s[k] \in from .. i - 1
  OBVIOUS
<1>2. s \in Seq(from .. i) /\ i \in from .. i
  BY <1>1
<1>3. Append(s, i) \in Seq(from .. i) /\ Len(Append(s, i)) = Len(s) + 1
  BY <1>2
<1>4. /\ Append(s, i)[Len(s) + 1] = i
      /\ \A k \in 1 .. Len(s) : Append(s, i)[k] = s[k]
      /\ DOMAIN Append(s, i) = 1 .. Len(s) + 1
  BY <1>1, <1>2
<1>5. Ascends(Append(s, i))
  <2>1. SUFFICES ASSUME NEW j \in 1 .. Len(s) + 1, NEW k \in 1 .. Len(s) + 1, j < k
                 PROVE  Append(s, i)[j] < Append(s, i)[k]
    BY <1>4 DEF Ascends
  <2>2. j \in 1 .. Len(s) /\ Append(s, i)[j] = s[j] /\ s[j] \in from .. i - 1
    BY <1>1, <1>4, <2>1
  <2>3. CASE k = Len(s) + 1
    BY <1>4, <2>2, <2>3
  <2>4. CASE k \in 1 .. Len(s)
    <3>1. s[j] < s[k]
      BY <1>1, <2>1, <2>2, <2>4 DEF Ascends
    <3> QED BY <1>4, <2>2, <2>4, <3>1
  <2> QED BY <1>1, <2>3, <2>4
<1>6. Append(s, i) # <<>>
  <2>1. Len(<<>>) = 0 /\ Len(s) + 1 # 0
    BY <1>1
  <2> QED BY <1>3, <2>1
<1> QED BY <1>3, <1>4, <1>5, <1>6

\* The source at i contributes what fits the budget.
LEMMA Contributes ==
    ASSUME policy \in Policies, NEW from \in Nat \ {0}, NEW i \in 1 .. Len(Chain), from <= i, NEW sel, NEW got,
           Readable(sel), GotInv(got, from, i - 1, sel), ~got.done,
           IsFull(Chain[i]) /\ Found(i, sel) # <<>> => got.full
    PROVE  GotInv(Contribute(got, i, Offered(got, Found(i, sel))), from, i, sel)
<1> DEFINE units == Offered(got, Found(i, sel))
           ends == ~policy.accumulate /\ (units # <<>> \/ Chain[i].min = 0)
           full == got.full /\ ~(ends /\ units = <<>>)
           e == [got EXCEPT !.units = units, !.used = Append(@, i), !.last = i, !.done = ends, !.full = full]
<1>1. Contribute(got, i, units) = e
  BY DEF Contribute
<1>2. /\ IsSeq(units) /\ Within(units)
      /\ ShowsFull(units) => got.full /\ PermitsFull
  BY OfferedUnits DEF GotInv
<1>3. units = <<>> => ~ShowsFull(units)
  BY DEF ShowsFull
<1>4. ~policy.accumulate => units = Kept(Found(i, sel))
  <2>1. IsSeq(Found(i, sel)) /\ IsSeq(got.units)
    BY FoundFrom DEF From, GotInv, GotUnits
  <2> QED BY <2>1, OfferedPart
<1>5. ends \in BOOLEAN /\ full \in BOOLEAN
  OBVIOUS
<1>6. ShowsFull(units) => full /\ PermitsFull
  BY <1>2, <1>3
<1>7. ends => ~policy.accumulate
  OBVIOUS
<1>8. ASSUME ~policy.accumulate, Usable(i, sel)
      PROVE  ends
  <2>1. units # <<>> \/ Chain[i].min = 0
    BY <1>4, <1>8 DEF Usable, Found
  <2> QED BY <1>8, <2>1
<1> HIDE DEF units, ends, full
<1>9. {"done", "satisfied", "units", "used", "last", "full"} \subseteq DOMAIN got
  BY DEF GotInv, Shaped
<1>10. /\ DOMAIN e = DOMAIN got /\ e.full = full /\ e.done = ends /\ e.satisfied = got.satisfied
       /\ e.units = units /\ e.used = Append(got.used, i) /\ e.last = i
  BY <1>9
<1> HIDE DEF e
<1>11. Shaped(e)
  BY <1>5, <1>10 DEF GotInv, Shaped
<1>12. GotUnits(e)
  BY <1>2, <1>6, <1>10 DEF GotUnits
<1>13. GotUsed(e, from, i) /\ e.used # <<>>
  <2>1. got.used \in Seq(from .. i - 1) /\ Ascends(got.used)
    BY DEF GotInv, GotUsed
  <2>2. i \in Nat
    OBVIOUS
  <2> QED BY <1>10, <2>1, <2>2, UsedAppended DEF GotUsed
<1>14. GotEnough(e)
  BY <1>10, <1>13 DEF GotInv, GotEnough
<1>15. EndsAtUsable(e, from, i, sel)
  <2>1. SUFFICES ASSUME ~policy.accumulate, NEW j \in from .. i, Usable(j, sel)
                 PROVE  ends /\ i <= j
    BY <1>10 DEF EndsAtUsable
  <2>2. j \notin from .. i - 1
    BY <2>1 DEF GotInv, EndsAtUsable
  <2>3. j = i
    BY <2>2
  <2> QED BY <1>8, <2>1, <2>3
<1> QED BY <1>1, <1>11, <1>12, <1>13, <1>14, <1>15 DEF GotInv, units

LEMMA ConsiderStep ==
    ASSUME policy \in Policies, NEW from \in Nat \ {0}, NEW i \in 1 .. Len(Chain), from <= i, NEW sel, NEW got,
           Readable(sel), GotInv(got, from, i - 1, sel)
    PROVE  GotInv(Consider(got, i, sel), from, i, sel)
<1> DEFINE found == Found(i, sel)
           e == Noted(got, i, found)
<1>1. i \in Nat
  OBVIOUS
<1>2. CASE got.done \/ Passed(Chain[i])
  <2>1. got.done \/ ~Usable(i, sel) \/ (IsFull(Chain[i]) /\ ~PermitsFull)
    BY <1>2 DEF Passed, Usable
  <2>2. got.done \/ ~Usable(i, sel)
    BY <2>1, FullOnTheChain
  <2>3. Consider(got, i, sel) = got
    BY <1>2 DEF Consider
  <2> QED BY <1>1, <2>2, <2>3, GoesOn
<1>3. CASE ~got.done /\ ~Passed(Chain[i])
  <2>1. Consider(got, i, sel) = Weigh(e, i, found)
    BY <1>3 DEF Consider, Look, Noted, Found
  <2>2. /\ GotInv(e, from, i - 1, sel) /\ ~e.done
        /\ IsFull(Chain[i]) /\ found # <<>> => e.full
    BY <1>3, NotedKeeps
  <2>3. From(found, Chain[i]) /\ IsSeq(found) /\ Len(found) \in Nat
    BY FoundFrom DEF From
  <2>4. Chain[i].min \in Nat
    BY ChainSources DEF Sources
  <2> HIDE DEF e
  <2>5. CASE Len(found) < Chain[i].min
    <3>1. ~Usable(i, sel)
      BY <2>3, <2>4, <2>5 DEF Usable, Found
    <3>2. Weigh(e, i, found) = e
      <4>1. ~(Len(found) >= Chain[i].min)
        BY <2>3, <2>4, <2>5
      <4> HIDE DEF found
      <4> QED BY <2>5, <4>1 DEF Weigh
    <3> QED BY <1>1, <2>1, <2>2, <3>1, <3>2, GoesOn
  <2>6. CASE Len(found) >= Chain[i].min
    <3>1. ~(Len(found) < Chain[i].min)
      BY <2>3, <2>4, <2>6
    <3>2. CASE Overflows(e, found) /\ policy.onBudget = "skip"
      <4>1. Weigh(e, i, found) = e
        <5> HIDE DEF found
        <5>1. ~(Overflows(e, found) /\ policy.onBudget = "fail")
          BY <3>2
        <5> QED BY <2>6, <3>1, <3>2, <5>1 DEF Weigh
      <4>2. policy.accumulate \/ ~Usable(i, sel)
        <5>1. IsSeq(e.units)
          BY <2>2 DEF GotInv, GotUnits
        <5>2. ~policy.accumulate => Kept(found) # found
          BY <2>3, <3>2, <5>1, OfferedPart
        <5> QED BY <3>2, <5>2 DEF Usable, Found
      <4> QED BY <1>1, <2>1, <2>2, <4>1, <4>2, GoesOn
    <3>3. CASE Overflows(e, found) /\ policy.onBudget = "fail"
      <4> DEFINE units == Offered(e, found)
                 r == [e EXCEPT !.units = units, !.done = TRUE, !.satisfied = FALSE]
      <4>1. Weigh(e, i, found) = r
        BY <2>6, <3>1, <3>3 DEF Weigh
      <4>2. /\ IsSeq(units) /\ Within(units)
            /\ ShowsFull(units) => e.full /\ PermitsFull
        BY <2>2, OfferedUnits DEF GotInv
      <4>3. policy.accumulate \/ ~Usable(i, sel)
        <5>1. IsSeq(e.units)
          BY <2>2 DEF GotInv, GotUnits
        <5>2. ~policy.accumulate => Kept(found) # found
          BY <2>3, <3>3, <5>1, OfferedPart
        <5> QED BY <3>3, <5>2 DEF Usable, Found
      <4>4. GotInv(e, from, i, sel)
        BY <1>1, <2>2, <4>3, GoesOn
      <4> HIDE DEF units
      <4>5. {"done", "satisfied", "units", "used", "last", "full"} \subseteq DOMAIN e
        BY <2>2 DEF GotInv, Shaped
      <4>6. /\ DOMAIN r = DOMAIN e /\ r.done = TRUE /\ r.satisfied = FALSE /\ r.units = units
            /\ r.used = e.used /\ r.last = e.last /\ r.full = e.full
        BY <4>5
      <4> HIDE DEF r
      <4>7. GotInv(r, from, i, sel)
        BY <4>2, <4>4, <4>6
        DEF GotInv, Shaped, GotUnits, GotUsed, GotEnough, EndsAtUsable
      <4> QED BY <2>1, <4>1, <4>7
    <3>4. CASE ~Overflows(e, found) \/ policy.onBudget \notin {"skip", "fail"}
      <4>1. Weigh(e, i, found) = Contribute(e, i, Offered(e, found))
        BY <3>1, <3>4 DEF Weigh
      <4>2. GotInv(Contribute(e, i, Offered(e, found)), from, i, sel)
        BY <2>2, Contributes
      <4> QED BY <2>1, <4>1, <4>2
    <3> QED BY <3>2, <3>3, <3>4
  <2> QED BY <2>3, <2>4, <2>5, <2>6
<1> QED BY <1>2, <1>3

-----------------------------------------------------------------------------
(* The loop, turn by turn.                                                  *)

\* g is what Gathered defines, up to n.
Runs(g, n, sel, from) ==
    g = [i \in 0 .. n |-> IF i < from THEN Nothing ELSE Consider(g[i - 1], i, sel)]

LEMMA LoopRuns ==
    ASSUME NEW sel, NEW from \in Nat \ {0}
    PROVE  \A n \in Nat : \E g : Runs(g, n, sel, from)
<1> DEFINE T == {n \in Nat : \E g : Runs(g, n, sel, from)}
<1>1. 0 \in T
  <2>1. Runs([i \in 0 .. 0 |-> Nothing], 0, sel, from)
    BY DEF Runs
  <2> QED BY <2>1
<1>2. ASSUME NEW n \in Nat, n \in T
      PROVE  n + 1 \in T
  <2>1. PICK g : Runs(g, n, sel, from)
    BY <1>2
  <2> DEFINE last == IF n + 1 < from THEN Nothing ELSE Consider(g[n], n + 1, sel)
             h == [i \in 0 .. n + 1 |-> IF i = n + 1 THEN last ELSE g[i]]
             b == [i \in 0 .. n + 1 |-> IF i < from THEN Nothing ELSE Consider(h[i - 1], i, sel)]
  <2>2. ASSUME NEW i \in 0 .. n + 1
        PROVE  h[i] = b[i]
    <3>1. CASE i = n + 1
      <4>1. h[i] = last /\ i - 1 = n /\ n \in 0 .. n + 1 /\ n # n + 1
        BY <3>1
      <4>2. h[i - 1] = g[n]
        BY <4>1
      <4> HIDE DEF h
      <4> QED BY <3>1, <4>1, <4>2
    <3>2. CASE i # n + 1
      <4>1. i \in 0 .. n
        BY <3>2
      <4>2. h[i] = g[i]
        BY <3>2
      <4>3. g[i] = IF i < from THEN Nothing ELSE Consider(g[i - 1], i, sel)
        BY <2>1, <4>1 DEF Runs
      <4>4. ~(i < from) => h[i - 1] = g[i - 1]
        BY <4>1
      <4> HIDE DEF h
      <4> QED BY <4>2, <4>3, <4>4
    <3> QED BY <3>1, <3>2
  <2>3. h = b
    <3>1. h = [i \in 0 .. n + 1 |-> h[i]] /\ b = [i \in 0 .. n + 1 |-> b[i]]
      OBVIOUS
    <3> HIDE DEF h, b
    <3> QED BY <2>2, <3>1
  <2>4. Runs(h, n + 1, sel, from)
    BY <2>3 DEF Runs
  <2> QED BY <2>4
<1>3. Nat \subseteq T
  <2> HIDE DEF T
  <2> QED BY <1>1, <1>2, SetInduction
<1> QED BY <1>3

LEMMA GatheredDef ==
    ASSUME policy \in Policies, NEW sel, NEW from \in Nat \ {0}
    PROVE  Runs(Gathered(sel, from), Len(Chain), sel, from)
<1>1. \E g : Runs(g, Len(Chain), sel, from)
  BY PolicyTypes, LoopRuns
<1>2. Gathered(sel, from) = CHOOSE g : Runs(g, Len(Chain), sel, from)
  BY DEF Gathered, Runs
<1> QED BY <1>1, <1>2

LEMMA GatheredInv ==
    ASSUME policy \in Policies, NEW sel, Readable(sel), NEW from \in 1 .. Len(Chain) + 1
    PROVE  GotInv(Gathered(sel, from)[Len(Chain)], from, Len(Chain), sel)
<1> DEFINE N == Len(Chain)
           G == Gathered(sel, from)
           T == {n \in Nat : from - 1 <= n /\ n <= N => GotInv(G[n], from, n, sel)}
<1>1. N \in Nat /\ from \in Nat \ {0}
  BY PolicyTypes
<1>2. G = [i \in 0 .. N |-> IF i < from THEN Nothing ELSE Consider(G[i - 1], i, sel)]
  BY <1>1, GatheredDef DEF Runs
<1> HIDE DEF G
<1>3. G[from - 1] = Nothing /\ GotInv(Nothing, from, from - 1, sel)
  BY <1>1, <1>2, NothingGot
<1>4. 0 \in T
  <2>1. from - 1 <= 0 => from - 1 = 0
    BY <1>1
  <2> QED BY <1>3, <2>1
<1>5. ASSUME NEW n \in Nat, n \in T
      PROVE  n + 1 \in T
  <2>1. SUFFICES ASSUME from - 1 <= n + 1, n + 1 <= N
                 PROVE  GotInv(G[n + 1], from, n + 1, sel)
    OBVIOUS
  <2>2. CASE n + 1 = from - 1
    BY <1>3, <2>2
  <2>3. CASE n + 1 # from - 1
    <3>1. from <= n + 1 /\ n + 1 \in 1 .. N /\ n + 1 \in 0 .. N /\ (n + 1) - 1 = n /\ ~(n + 1 < from)
      BY <1>1, <2>1, <2>3
    <3>2. GotInv(G[n], from, (n + 1) - 1, sel)
      BY <1>1, <1>5, <2>1, <3>1
    <3>3. G[n + 1] = Consider(G[n], n + 1, sel)
      BY <1>2, <3>1
    <3> HIDE DEF T
    <3>4. GotInv(Consider(G[n], n + 1, sel), from, n + 1, sel)
      BY <1>1, <3>1, <3>2, ConsiderStep
    <3> QED BY <3>3, <3>4
  <2> QED BY <2>2, <2>3
<1>6. Nat \subseteq T
  <2> HIDE DEF T
  <2> QED BY <1>4, <1>5, SetInduction
<1>7. GotInv(G[N], from, N, sel)
  BY <1>1, <1>6
<1> QED BY <1>7 DEF G

\* What a resolution from some position that is satisfied owes the walk.
ResolvedUnits(res) ==
    IsSeq(res.units) /\ Within(res.units) /\ (ShowsFull(res.units) => res.full /\ PermitsFull)
ResolvedUsed(res, from) ==
    /\ res.used \in Seq(from .. Len(Chain)) /\ Ascends(res.used)
    /\ res.last = IF res.used = <<>> THEN 0 ELSE res.used[Len(res.used)]
    /\ res.units # <<>> => res.used # <<>>
ResolvedNarrowest(res, from, sel) ==
    ~policy.accumulate =>
        \A j \in from .. Len(Chain) : Usable(j, sel) => res.used # <<>> /\ res.last <= j

LEMMA ResolveInv ==
    ASSUME policy \in Policies, NEW sel, Readable(sel), NEW from \in 1 .. Len(Chain) + 1,
           Resolve(sel, from).satisfied
    PROVE  LET res == Resolve(sel, from) IN
           ResolvedUnits(res) /\ ResolvedUsed(res, from) /\ ResolvedNarrowest(res, from, sel)
<1> DEFINE end == Gathered(sel, from)[Len(Chain)]
           res == Resolve(sel, from)
<1>1. GotInv(end, from, Len(Chain), sel)
  BY GatheredInv
<1>2. res = Outcome(end)
  BY DEF Resolve
<1> HIDE DEF end
<1>3. CASE end.done \/ end.units # <<>>
  <2>1. res = Resolution(end.satisfied, end.units, end.used, end.last, end.full)
    BY <1>2, <1>3 DEF Outcome
  <2> HIDE DEF res
  <2>2. /\ res.satisfied = end.satisfied /\ res.units = end.units /\ res.used = end.used
        /\ res.last = end.last /\ res.full = end.full
    BY <2>1 DEF Resolution
  <2>3. end.satisfied /\ end.used # <<>>
    BY <1>1, <1>3, <2>2 DEF GotInv, GotEnough, res
  <2>4. ResolvedUnits(res) /\ ResolvedUsed(res, from)
    BY <1>1, <2>2, <2>3 DEF GotInv, GotUnits, GotUsed, ResolvedUnits, ResolvedUsed
  <2>5. ResolvedNarrowest(res, from, sel)
    BY <1>1, <2>2, <2>3 DEF GotInv, EndsAtUsable, ResolvedNarrowest
  <2> QED BY <2>4, <2>5 DEF res
<1>4. CASE ~(end.done \/ end.units # <<>>)
  <2>1. res = Resolution(policy.onMissing = "proceed", <<>>, <<>>, 0, FALSE)
    BY <1>2, <1>4 DEF Outcome
  <2> HIDE DEF res
  <2>2. res.units = <<>> /\ res.used = <<>> /\ res.last = 0
    BY <2>1 DEF Resolution
  <2>3. ResolvedUnits(res)
    BY <1>1, <1>4, <2>2 DEF GotInv, GotUnits, ResolvedUnits, ShowsFull
  <2>4. ResolvedUsed(res, from)
    <3>1. <<>> \in Seq(from .. Len(Chain)) /\ Ascends(<<>>)
      BY EmptySequence DEF Ascends
    <3> QED BY <2>2, <3>1 DEF ResolvedUsed
  <2>5. ResolvedNarrowest(res, from, sel)
    BY <1>1, <1>4 DEF GotInv, EndsAtUsable, ResolvedNarrowest
  <2> QED BY <2>3, <2>4, <2>5 DEF res
<1> QED BY <1>3, <1>4

-----------------------------------------------------------------------------
(* The walk.  It goes down the chain: what it has tried comes before where it *)
(* goes on, and of the sources before that none it could use is left out.     *)

Walking(w) ==
    /\ {"phase", "sel", "permit", "res", "first", "tried", "level", "answer"} \subseteq DOMAIN w
    /\ Readable(w.sel)
    /\ ResolvedUnits(w.res) /\ (w.res.full => w.permit)
    /\ w.tried \in Seq(1 .. Len(Chain)) /\ Ascends(w.tried)
    /\ w.res.last = IF w.tried = <<>> THEN 0 ELSE w.tried[Len(w.tried)]
    /\ ~policy.accumulate =>
           \A j \in 1 .. Len(Chain) : j < NextAt(w.res) /\ Usable(j, w.sel) =>
               \E k \in DOMAIN w.tried : w.tried[k] = j
ChainInv ==
    /\ policy \in Policies /\ EvidenceInv
    /\ ~At("idle") => Walking(walk)

LEMMA ChainInit == Init => ChainInv
BY EvidenceInit DEF Init, ChainInv, At, Idle

\* A walk that begins has tried what its first resolution used.
LEMMA WalkBegins ==
    ASSUME ChainInv, NEW permit \in BOOLEAN, Begin(permit)
    PROVE  walk' = Idle \/ Walking(walk')
<1>1. PICK res : res = Resolve(Selection, 1) /\ Start(permit, res)
  BY DEF Begin
<1>2. SUFFICES ASSUME res.satisfied, ~Refused(res, permit, 0),
                      walk' = [phase |-> "look", sel |-> Selection, permit |-> permit, res |-> res,
                               first |-> res.units, tried |-> res.used, level |-> 0, answer |-> None]
               PROVE  Walking(walk')
  BY <1>1 DEF Start, End
<1>3. policy \in Policies /\ Len(Chain) \in Nat
  BY PolicyTypes DEF ChainInv
<1>4. Readable(Selection)
  <2>1. index # 0
    BY DEF Begin
  <2>2. index \in Versions /\ SoundArtifact(Last(artifacts["read"])) /\ artifacts["read"] # <<>>
    BY <2>1, SoundReadOf DEF ChainInv, EvidenceInv
  <2> QED BY <2>2 DEF Readable, Selection, Newest, SoundArtifact, Sound
<1>5. ResolvedUnits(res) /\ ResolvedUsed(res, 1) /\ ResolvedNarrowest(res, 1, Selection)
  <2>1. 1 \in 1 .. Len(Chain) + 1
    BY <1>3
  <2> QED BY <1>1, <1>2, <1>3, <1>4, <2>1, ResolveInv
<1>6. /\ {"phase", "sel", "permit", "res", "first", "tried", "level", "answer"} \subseteq DOMAIN walk'
      /\ walk'.sel = Selection /\ walk'.res = res /\ walk'.tried = res.used /\ walk'.permit = permit
  BY <1>2
<1>7. res.full => permit
  BY <1>2 DEF Refused
<1>8. ASSUME ~policy.accumulate, NEW j \in 1 .. Len(Chain), j < NextAt(res), Usable(j, Selection)
      PROVE  \E k \in DOMAIN res.used : res.used[k] = j
  <2>1. res.used # <<>> /\ res.last <= j
    BY <1>5, <1>8 DEF ResolvedNarrowest
  <2>2. Len(res.used) \in DOMAIN res.used /\ res.last = res.used[Len(res.used)] /\ res.last \in 1 .. Len(Chain)
    BY <1>5, <2>1 DEF ResolvedUsed
  <2>3. j = res.last
    BY <1>8, <2>1, <2>2 DEF NextAt
  <2> QED BY <2>2, <2>3
<1> QED BY <1>4, <1>5, <1>6, <1>7, <1>8 DEF Walking, ResolvedUsed

\* Positions that ascend up to some position, then others that ascend from there.
LEMMA AscendingOnward ==
    ASSUME NEW m \in Nat, NEW n \in Nat, m <= n, NEW s \in Seq(1 .. n), Ascends(s),
           \A k \in DOMAIN s : s[k] <= m, NEW t \in Seq(m + 1 .. n), Ascends(t), t # <<>>
    PROVE  /\ s \o t \in Seq(1 .. n) /\ Ascends(s \o t) /\ s \o t # <<>>
           /\ (s \o t)[Len(s \o t)] = t[Len(t)]
           /\ \A k \in DOMAIN s : k \in DOMAIN (s \o t) /\ (s \o t)[k] = s[k]
           /\ Len(s \o t) \in DOMAIN (s \o t)
<1>1. /\ Len(s) \in Nat /\ Len(t) \in Nat /\ Len(t) # 0
      /\ DOMAIN s = 1 .. Len(s) /\ DOMAIN t = 1 .. Len(t)
      /\ \A k \in 1 .. Len(s) : s[k] \in 1 .. n
      /\ \A k \in 1 .. Len(t) : t[k] \in m + 1 .. n
  OBVIOUS
<1>2. t \in Seq(1 .. n)
  BY <1>1
<1>3. s \o t \in Seq(1 .. n) /\ Len(s \o t) = Len(s) + Len(t)
  BY <1>2, Concatenated
<1>4. /\ DOMAIN (s \o t) = 1 .. Len(s) + Len(t)
      /\ \A k \in 1 .. Len(s) : (s \o t)[k] = s[k]
      /\ \A k \in 1 .. Len(t) : (s \o t)[Len(s) + k] = t[k]
  BY <1>1, <1>2
<1> DEFINE st == s \o t
<1>5. ASSUME NEW j \in 1 .. Len(s) + Len(t), NEW k \in 1 .. Len(s) + Len(t), j < k
      PROVE  st[j] < st[k]
  <2>1. CASE k <= Len(s)
    <3>1. j \in 1 .. Len(s) /\ k \in 1 .. Len(s)
      BY <1>1, <1>5, <2>1
    <3>2. s[j] < s[k]
      BY <1>1, <1>5, <3>1 DEF Ascends
    <3>3. st[j] = s[j] /\ st[k] = s[k]
      BY <1>4, <3>1
    <3> QED BY <3>2, <3>3
  <2>2. CASE j > Len(s)
    <3>1. j - Len(s) \in 1 .. Len(t) /\ k - Len(s) \in 1 .. Len(t) /\ j - Len(s) < k - Len(s)
          /\ Len(s) + (j - Len(s)) = j /\ Len(s) + (k - Len(s)) = k
      BY <1>1, <1>5, <2>2
    <3>2. t[j - Len(s)] < t[k - Len(s)]
      BY <1>1, <3>1 DEF Ascends
    <3>3. st[j] = t[j - Len(s)] /\ st[k] = t[k - Len(s)]
      BY <1>4, <3>1
    <3> QED BY <3>2, <3>3
  <2>3. CASE j <= Len(s) /\ k > Len(s)
    <3>1. j \in 1 .. Len(s) /\ k - Len(s) \in 1 .. Len(t) /\ Len(s) + (k - Len(s)) = k
      BY <1>1, <1>5, <2>3
    <3>2. st[j] = s[j] /\ st[k] = t[k - Len(s)]
      BY <1>4, <3>1
    <3>3. s[j] <= m /\ s[j] \in 1 .. n /\ t[k - Len(s)] \in m + 1 .. n
      BY <1>1, <3>1
    <3>4. s[j] < t[k - Len(s)]
      BY <3>3
    <3> QED BY <3>2, <3>4
  <2> QED BY <1>1, <1>5, <2>1, <2>2, <2>3
<1>6. Ascends(st)
  BY <1>4, <1>5 DEF Ascends
<1>7. st[Len(st)] = t[Len(t)] /\ Len(st) \in DOMAIN st
  BY <1>1, <1>3, <1>4
<1>8. st # <<>>
  <2>1. Len(<<>>) = 0 /\ Len(s) + Len(t) # 0
    BY <1>1
  <2> QED BY <1>3, <2>1
<1> QED BY <1>1, <1>3, <1>4, <1>6, <1>7, <1>8

\* What was tried is behind where the walk goes on.
LEMMA TriedBehind ==
    ASSUME Walking(walk), Len(Chain) \in Nat
    PROVE  /\ walk.res.last \in 0 .. Len(Chain) /\ NextAt(walk.res) \in Nat \ {0, 1}
           /\ \A k \in DOMAIN walk.tried : walk.tried[k] < NextAt(walk.res)
<1> DEFINE s == walk.tried
<1>1. /\ s \in Seq(1 .. Len(Chain)) /\ Ascends(s)
      /\ walk.res.last = IF s = <<>> THEN 0 ELSE s[Len(s)]
  BY DEF Walking
<1> HIDE DEF s
<1>2. Len(s) \in Nat /\ DOMAIN s = 1 .. Len(s) /\ \A k \in 1 .. Len(s) : s[k] \in 1 .. Len(Chain)
  BY <1>1
<1>3. s # <<>> => Len(s) \in 1 .. Len(s)
  BY <1>1, <1>2
<1>4. walk.res.last \in 0 .. Len(Chain)
  BY <1>1, <1>2, <1>3
<1>5. NextAt(walk.res) \in Nat \ {0, 1} /\ walk.res.last < NextAt(walk.res)
  BY <1>4 DEF NextAt
<1>6. ASSUME NEW k \in DOMAIN s
      PROVE  s[k] < NextAt(walk.res)
  <2>1. s # <<>> /\ Len(s) \in 1 .. Len(s) /\ k \in 1 .. Len(s)
    BY <1>2, <1>6
  <2>2. s[k] <= s[Len(s)]
    <3>1. CASE k = Len(s)
      BY <1>2, <2>1, <3>1
    <3>2. CASE k # Len(s)
      <4>1. k < Len(s)
        BY <1>2, <2>1, <3>2
      <4>2. s[k] < s[Len(s)]
        BY <1>1, <1>2, <2>1, <4>1 DEF Ascends
      <4> QED BY <1>2, <2>1, <4>2
    <3> QED BY <3>1, <3>2
  <2> QED BY <1>1, <1>2, <1>4, <1>5, <2>1, <2>2
<1> QED BY <1>4, <1>5, <1>6 DEF s


\* A walk that goes on has tried, after what it had, what the next resolution used.
LEMMA WalkDescends ==
    ASSUME ChainInv, AskMore
    PROVE  walk' = Idle \/ Walking(walk')
<1>1. CASE walk' = Idle
  BY <1>1
<1>2. CASE walk' # Idle
  <2> DEFINE from == NextAt(walk.res)
  <2>1. PICK res : /\ ~Exhausted(walk) /\ res = Resolve(walk.sel, from)
                   /\ Descend(res)
    BY <1>2 DEF AskMore, End
  <2>2. /\ res.satisfied /\ res.units # <<>> /\ ~Refused(res, walk.permit, walk.level + 1)
        /\ walk' = [walk EXCEPT !.phase = "look", !.res = res, !.tried = @ \o res.used,
                                !.level = @ + 1, !.answer = None]
    BY <1>2, <2>1 DEF Descend, End
  <2>3. Walking(walk) /\ policy \in Policies /\ Len(Chain) \in Nat
    <3>1. ~At("idle")
      BY DEF AskMore, WantsMore, At
    <3> QED BY <3>1, PolicyTypes DEF ChainInv
  <2>4. /\ walk.res.last \in 0 .. Len(Chain) /\ from \in Nat \ {0, 1}
        /\ \A k \in DOMAIN walk.tried : walk.tried[k] < from
    BY <2>3, TriedBehind
  <2> HIDE DEF from
  <2>5. from \in 1 .. Len(Chain) /\ from - 1 \in Nat /\ from - 1 <= Len(Chain) /\ (from - 1) + 1 = from
    <3>1. ~(from > Len(Chain))
      BY <2>1 DEF Exhausted, from
    <3> QED BY <2>3, <2>4, <3>1
  <2>6. ResolvedUnits(res) /\ ResolvedUsed(res, from) /\ ResolvedNarrowest(res, from, walk.sel)
    <3>1. from \in 1 .. Len(Chain) + 1 /\ Readable(walk.sel)
      BY <2>3, <2>5 DEF Walking
    <3> QED BY <2>1, <2>2, <2>3, <3>1, ResolveInv
  <2>7. /\ res.used \in Seq(from .. Len(Chain)) /\ Ascends(res.used) /\ res.used # <<>>
        /\ res.last = res.used[Len(res.used)]
    BY <2>2, <2>6 DEF ResolvedUsed
  <2> DEFINE tried == walk.tried \o res.used
  <2>8. /\ tried \in Seq(1 .. Len(Chain)) /\ Ascends(tried) /\ tried # <<>>
        /\ tried[Len(tried)] = res.last
        /\ \A k \in DOMAIN walk.tried : k \in DOMAIN tried /\ tried[k] = walk.tried[k]
        /\ Len(tried) \in DOMAIN tried
    <3>1. walk.tried \in Seq(1 .. Len(Chain)) /\ Ascends(walk.tried)
      BY <2>3 DEF Walking
    <3>2. \A k \in DOMAIN walk.tried : walk.tried[k] \in Nat /\ walk.tried[k] <= from - 1
      BY <2>4, <2>5, <3>1
    <3>3. res.used \in Seq((from - 1) + 1 .. Len(Chain))
      BY <2>5, <2>7
    <3> QED BY <2>3, <2>5, <2>7, <3>1, <3>2, <3>3, AscendingOnward
  <2> HIDE DEF tried
  <2>9. {"phase", "sel", "permit", "res", "first", "tried", "level", "answer"} \subseteq DOMAIN walk
    BY <2>3 DEF Walking
  <2>10. /\ DOMAIN walk' = DOMAIN walk
         /\ walk'.sel = walk.sel /\ walk'.res = res /\ walk'.tried = tried /\ walk'.permit = walk.permit
    BY <2>2, <2>9 DEF tried
  <2>11. res.full => walk.permit
    BY <2>2 DEF Refused
  <2>12. ASSUME ~policy.accumulate, NEW j \in 1 .. Len(Chain), j < NextAt(res), Usable(j, walk.sel)
         PROVE  \E k \in DOMAIN tried : tried[k] = j
    <3>1. CASE j < from
      <4>1. \E k \in DOMAIN walk.tried : walk.tried[k] = j
        BY <2>3, <2>12, <3>1 DEF Walking, from
      <4> QED BY <2>8, <4>1
    <3>2. CASE ~(j < from)
      <4>1. j \in from .. Len(Chain)
        BY <2>3, <2>5, <3>2
      <4>2. res.last <= j
        BY <2>6, <2>12, <4>1 DEF ResolvedNarrowest
      <4>3. res.last \in from .. Len(Chain)
        <5>1. Len(res.used) \in DOMAIN res.used
          BY <2>7
        <5> DEFINE ahead == from .. Len(Chain)
        <5>2. res.used \in Seq(ahead)
          BY <2>7
        <5> HIDE DEF ahead
        <5>3. res.used[Len(res.used)] \in ahead
          BY <5>1, <5>2
        <5> QED BY <2>7, <5>3 DEF ahead
      <4>4. j = res.last
        BY <2>5, <2>12, <4>2, <4>3 DEF NextAt
      <4> QED BY <2>8, <4>4
    <3> QED BY <3>1, <3>2
  <2>13. Readable(walk.sel)
    BY <2>3 DEF Walking
  <2>14. Walking(walk')
    BY <2>6, <2>8, <2>9, <2>10, <2>11, <2>12, <2>13 DEF Walking
  <2> QED BY <2>14
<1> QED BY <1>1, <1>2

\* Walking is a predicate of the state and a walk: after a step it is that of the walk
\* there is then, under the policy there was.
LEMMA WalkingAfter ==
    ASSUME Walking(walk'), policy' = policy
    PROVE  Walking(walk)'
<1>1. Chain' = Chain /\ PermitsFull' = PermitsFull
  BY DEF Chain, PermitsFull, NamesFull
<1>2. ResolvedUnits(walk.res)'
  BY <1>1 DEF Walking, ResolvedUnits, Within, Chars, ShowsFull
<1>3. \A j : Usable(j, walk.sel)' = Usable(j, walk'.sel)
  BY <1>1 DEF Usable, Billable, DropForbidden, Kept, Within, Chars
<1> QED BY <1>1, <1>2, <1>3 DEF Walking, NextAt, Readable, Ascends

\* The invariant of a walk is about all of it but its phase, its level and its answer.
LEMMA WalkingKept ==
    ASSUME Walking(walk), policy' = policy, DOMAIN walk' = DOMAIN walk,
           walk'.sel = walk.sel, walk'.permit = walk.permit, walk'.res = walk.res, walk'.tried = walk.tried
    PROVE  Walking(walk)'
<1>1. Walking(walk')
  BY DEF Walking
<1> QED BY <1>1, WalkingAfter

LEMMA ChainStep == ChainInv /\ [Next]_vars => ChainInv'
<1> SUFFICES ASSUME ChainInv, [Next]_vars
             PROVE  ChainInv'
  OBVIOUS
<1>1. ASSUME UNCHANGED <<policy, evidence>>, walk'.phase = "idle" \/ Walking(walk')
      PROVE  ChainInv'
  BY <1>1, WalkingAfter DEF ChainInv, EvidenceInv, evidence, At
<1>2. ASSUME UNCHANGED <<policy, evidence>>, ~At("idle"), DOMAIN walk' = DOMAIN walk,
             walk'.sel = walk.sel, walk'.permit = walk.permit, walk'.res = walk.res, walk'.tried = walk.tried
      PROVE  ChainInv'
  BY <1>2, WalkingKept DEF ChainInv, EvidenceInv, evidence, At
<1>3. ASSUME NEW permit \in BOOLEAN, Begin(permit)
      PROVE  ChainInv'
  BY <1>1, <1>3, WalkBegins DEF Begin, Idle, evidence
<1>4. CASE Hit \/ Call \/ \E answer \in Answers \cup {More} : Receive(answer)
  <2>1. ~At("idle") /\ UNCHANGED <<policy, evidence>>
    BY <1>4 DEF Hit, Call, Receive, At, evidence
  <2>2. {"phase", "sel", "permit", "res", "first", "tried", "level", "answer"} \subseteq DOMAIN walk
    BY <2>1 DEF ChainInv, Walking
  <2>3. \/ \E answer : walk' = [walk EXCEPT !.phase = "judge", !.answer = <<answer>>]
        \/ walk' = [walk EXCEPT !.phase = "sent"]
    BY <1>4 DEF Hit, Call, Receive
  <2>4. /\ DOMAIN walk' = DOMAIN walk /\ walk'.sel = walk.sel /\ walk'.permit = walk.permit
        /\ walk'.res = walk.res /\ walk'.tried = walk.tried
    BY <2>2, <2>3
  <2> QED BY <1>2, <2>1, <2>4
<1>5. CASE Settle
  <2>1. walk'.phase = "idle" /\ UNCHANGED <<policy, parses, index>>
    BY <1>5 DEF Settle, End, Idle
  <2>2. artifacts' = [f \in Fields |-> artifacts'[f]] /\ artifacts'["read"] = artifacts["read"]
    BY <1>5 DEF Settle, ChainInv, EvidenceInv, Fields
  <2> QED BY <2>1, <2>2 DEF ChainInv, EvidenceInv, At
<1>6. CASE AskMore
  BY <1>1, <1>6, WalkDescends DEF AskMore, Idle, evidence
<1>7. CASE Crash
  BY <1>1, <1>7 DEF Crash, End, Idle, evidence
<1>8. ASSUME NEW p \in Versions, Move(Import(p)) \/ Move(AddParse(p)) \/ Move(Reanchor(p))
      PROVE  ChainInv'
  <2>1. EvidenceInv'
    BY <1>8, ImportStep, AddParseStep, ReanchorStep DEF Move, ChainInv
  <2>2. UNCHANGED <<policy, walk>>
    BY <1>8 DEF Move
  <2>3. At("idle")' = At("idle") /\ (Walking(walk) => Walking(walk)')
    BY <2>2, WalkingKept DEF At
  <2> QED BY <2>1, <2>2, <2>3 DEF ChainInv
<1>9. CASE UNCHANGED vars
  <2>1. UNCHANGED <<policy, evidence, walk>>
    BY <1>9 DEF vars, evidence
  <2> QED BY <1>1, <1>2, <2>1 DEF At
<1> QED
  BY <1>3, <1>4, <1>5, <1>6, <1>7, <1>8, <1>9 DEF Next


\* Text taken as the whole document is before a model only when the policy lets the chain
\* reach it and the run's execution policy allows it, for every policy and document.
THEOREM WholeTextOnlyWhenPermitted == Spec => []FullOnlyWhenPermitted
<1>1. ChainInv => FullOnlyWhenPermitted
  BY DEF ChainInv, Walking, ResolvedUnits, ShowsFull, FullOnlyWhenPermitted
<1> QED BY <1>1, ChainInit, ChainStep, PTL DEF Spec

\* No question shows more than the policy's budget, also when the units of several
\* sources are put together.
THEOREM BudgetsAreKept == Spec => []BudgetKept
<1>1. ChainInv => BudgetKept
  BY DEF ChainInv, Walking, ResolvedUnits, BudgetKept
<1> QED BY <1>1, ChainInit, ChainStep, PTL DEF Spec

\* However often a question is asked again, no source is shown before each narrower one
\* of the chain that could be used.
THEOREM NarrowestIsFirst == Spec => []NarrowestFirst
<1>1. ChainInv => NarrowestFirst
  <2>1. SUFFICES ASSUME ChainInv, ~At("idle"), ~policy.accumulate, walk.tried # <<>>,
                        NEW j \in 1 .. Last(walk.tried), Usable(j, walk.sel)
                 PROVE  \E k \in DOMAIN walk.tried : walk.tried[k] = j
    BY DEF NarrowestFirst
  <2>2. Walking(walk) /\ Len(Chain) \in Nat
    BY <2>1, PolicyTypes DEF ChainInv
  <2>3. walk.res.last \in 0 .. Len(Chain) /\ walk.res.last = Last(walk.tried)
    BY <2>1, <2>2, TriedBehind DEF Walking, Last
  <2>4. j \in 1 .. Len(Chain) /\ j < NextAt(walk.res)
    BY <2>1, <2>2, <2>3 DEF NextAt
  <2> QED BY <2>1, <2>2, <2>4 DEF Walking
<1> QED BY <1>1, ChainInit, ChainStep, PTL DEF Spec

\* However often the evidence of a value is moved from parse to parse, each quote it was
\* imported with is a span or is counted as unlocated.
THEOREM EveryQuoteIsAccountedFor == Spec => []EvidenceAccountedFor
<1>1. ChainInv => EvidenceAccountedFor
  BY SoundReadOf DEF ChainInv, EvidenceInv, SoundArtifact, Sound, EvidenceAccountedFor
<1> QED BY <1>1, ChainInit, ChainStep, PTL DEF Spec

\* Every span kept for an imported value is, in the parse its reference names, the text
\* it recorded.
THEOREM EverySpanResolves == Spec => []EvidenceResolves
<1>1. ChainInv => EvidenceResolves
  BY SoundReadOf DEF ChainInv, EvidenceInv, SoundArtifact, Sound, EvidenceResolves
<1> QED BY <1>1, ChainInit, ChainStep, PTL DEF Spec

-----------------------------------------------------------------------------
(* What questions cost.  The cache and the answers given are the same thing   *)
(* seen from two sides: an entry is an answer that was given, and what was    *)
(* answered has an entry.  A question is sent only when it has none, so its   *)
(* answer is one that was never given before.                                 *)

\* What an entry of the cache stands for.
Saying(question, answer) ==
    [parse |-> question.parse, units |-> question.units, answer |-> answer]
QuestionOf(saying) == [parse |-> saying.parse, units |-> saying.units]

WalkShaped ==
    ~At("idle") => {"phase", "sel", "permit", "res", "first", "tried", "level", "answer"}
                       \subseteq DOMAIN walk
CountsFinite == IsFiniteSet(said) /\ lost \in Nat /\ calls \in Nat
KeptIsSaid == \A entry \in cache : Saying(entry.question, entry.answer) \in said
SaidIsKept == \A saying \in said : \E entry \in cache : entry.question = QuestionOf(saying)
SentIsNew == At("sent") => \A entry \in cache : entry.question # Question(walk)
LevelsBounded == ~At("idle") => walk.level \in 0 .. MaxLevels
AskInv ==
    /\ WalkShaped /\ CountsFinite /\ KeptIsSaid /\ SaidIsKept /\ SentIsNew
    /\ AskedOnce /\ AnswersWhatWasShown /\ LevelsBounded

LEMMA AskInit == Init => AskInv
<1> SUFFICES ASSUME Init PROVE AskInv
  OBVIOUS
<1>1. walk.phase = "idle" /\ said = {} /\ cache = {} /\ calls = 0 /\ lost = 0
  BY DEF Init, Idle
<1>2. IsFiniteSet(said) /\ Cardinality(said) = 0
  BY <1>1, FS_EmptySet
<1> QED
  BY <1>1, <1>2
  DEF AskInv, WalkShaped, CountsFinite, KeptIsSaid, SaidIsKept, SentIsNew, AskedOnce,
      AnswersWhatWasShown, LevelsBounded, At

\* What has been asked and answered is not touched; the walk ends, or looks at a
\* question whose answer it does not have yet.
LEMMA LookingKeeps ==
    ASSUME AskInv, UNCHANGED <<cache, said, calls, lost>>, ~At("sent"),
           \/ walk'.phase = "idle"
           \/ /\ walk'.phase = "look"
              /\ {"phase", "sel", "permit", "res", "first", "tried", "level", "answer"}
                     \subseteq DOMAIN walk'
              /\ walk'.level \in 0 .. MaxLevels
    PROVE  AskInv'
<1>1. ~At("sent")' /\ ~At("judge")'
  BY DEF At
<1>2. WalkShaped' /\ LevelsBounded'
  BY DEF WalkShaped, LevelsBounded, At
<1>3. AskedOnce'
  BY <1>1 DEF AskInv, AskedOnce
<1> QED
  BY <1>1, <1>2, <1>3
  DEF AskInv, CountsFinite, KeptIsSaid, SaidIsKept, SentIsNew, AnswersWhatWasShown

LEMMA AskStep == AskInv /\ [Next]_vars => AskInv'
<1> SUFFICES ASSUME AskInv, [Next]_vars
             PROVE  AskInv'
  OBVIOUS
<1>1. ASSUME NEW permit \in BOOLEAN, Begin(permit)
      PROVE  AskInv'
  <2>1. PICK res : Start(permit, res)
    BY <1>1 DEF Begin
  <2>2. \/ walk'.phase = "idle"
        \/ walk'.phase = "look"
           /\ {"phase", "sel", "permit", "res", "first", "tried", "level", "answer"}
                 \subseteq DOMAIN walk'
           /\ walk'.level \in 0 .. MaxLevels
    <3>1. CASE walk' = Idle
      BY <3>1 DEF Idle
    <3>2. CASE walk' = [phase |-> "look", sel |-> Selection, permit |-> permit, res |-> res,
                        first |-> res.units, tried |-> res.used, level |-> 0, answer |-> None]
      BY <3>2, ContextAssumption
    <3> QED BY <2>1, <3>1, <3>2 DEF Start, End
  <2>3. ~At("sent") /\ UNCHANGED <<cache, said, calls, lost>>
    BY <1>1 DEF Begin, At
  <2> QED BY <2>2, <2>3, LookingKeeps
<1>2. ASSUME Hit
      PROVE  AskInv'
  <2>1. PICK entry \in cache :
            /\ entry.question = Question(walk)
            /\ walk' = [walk EXCEPT !.phase = "judge", !.answer = <<entry.answer>>]
    BY <1>2 DEF Hit
  <2>2. At("look") /\ UNCHANGED <<cache, said, calls, lost>>
    BY <1>2 DEF Hit
  <2>3. {"phase", "sel", "permit", "res", "first", "tried", "level", "answer"} \subseteq DOMAIN walk
    BY <2>2 DEF AskInv, WalkShaped, At
  <2>4. /\ DOMAIN walk' = DOMAIN walk
        /\ walk'.phase = "judge" /\ walk'.answer = <<entry.answer>>
        /\ walk'.sel = walk.sel /\ walk'.res = walk.res /\ walk'.level = walk.level
    BY <2>1, <2>3
  <2>5. [parse |-> walk.sel.parse, units |-> walk.res.units, answer |-> entry.answer] \in said
    BY <2>1 DEF AskInv, KeptIsSaid, Saying, Question
  <2>6. AnswersWhatWasShown'
    BY <2>2, <2>4, <2>5 DEF AnswersWhatWasShown
  <2>7. AskedOnce' /\ SentIsNew'
    BY <2>2, <2>4 DEF AskInv, AskedOnce, SentIsNew, At
  <2> QED
    BY <2>2, <2>3, <2>4, <2>6, <2>7
    DEF AskInv, WalkShaped, CountsFinite, KeptIsSaid, SaidIsKept, LevelsBounded, At
<1>3. ASSUME Call
      PROVE  AskInv'
  <2>1. /\ At("look")
        /\ \A entry \in cache : entry.question # Question(walk)
        /\ walk' = [walk EXCEPT !.phase = "sent"]
        /\ calls' = calls + 1
        /\ UNCHANGED <<cache, said, lost>>
    BY <1>3 DEF Call
  <2>2. {"phase", "sel", "permit", "res", "first", "tried", "level", "answer"} \subseteq DOMAIN walk
    BY <2>1 DEF AskInv, WalkShaped, At
  <2>3. /\ DOMAIN walk' = DOMAIN walk
        /\ walk'.phase = "sent"
        /\ walk'.sel = walk.sel /\ walk'.res = walk.res /\ walk'.level = walk.level
    BY <2>1, <2>2
  <2>4. Question(walk') = Question(walk)
    BY <2>3 DEF Question
  <2>5. SentIsNew' /\ AnswersWhatWasShown'
    BY <2>1, <2>3, <2>4 DEF SentIsNew, AnswersWhatWasShown, At
  <2>6. AskedOnce'
    <3>1. Cardinality(said) \in Nat
      BY FS_CardinalityType DEF AskInv, CountsFinite
    <3> QED BY <2>1, <2>3, <3>1 DEF AskInv, CountsFinite, AskedOnce, At
  <2> QED
    BY <2>1, <2>2, <2>3, <2>5, <2>6
    DEF AskInv, WalkShaped, CountsFinite, KeptIsSaid, SaidIsKept, LevelsBounded, At
<1>4. ASSUME NEW answer \in Answers \cup {More}, Receive(answer)
      PROVE  AskInv'
  <2> DEFINE entry == [question |-> Question(walk), answer |-> answer]
             saying == [parse |-> walk.sel.parse, units |-> walk.res.units, answer |-> answer]
  <2>1. /\ At("sent")
        /\ walk' = [walk EXCEPT !.phase = "judge", !.answer = <<answer>>]
        /\ cache' = CachePut(entry)
        /\ said' = said \cup {saying}
        /\ UNCHANGED <<calls, lost>>
    BY <1>4 DEF Receive
  <2>2. {"phase", "sel", "permit", "res", "first", "tried", "level", "answer"} \subseteq DOMAIN walk
    BY <2>1 DEF AskInv, WalkShaped, At
  <2>3. /\ DOMAIN walk' = DOMAIN walk
        /\ walk'.phase = "judge" /\ walk'.answer = <<answer>>
        /\ walk'.sel = walk.sel /\ walk'.res = walk.res /\ walk'.level = walk.level
    BY <2>1, <2>2
  <2>4. \A e \in cache : e.question # Question(walk)
    BY <2>1 DEF AskInv, SentIsNew
  <2>5. entry.question = Question(walk) /\ entry.answer = answer
    OBVIOUS
  <2>6. cache' = cache \cup {entry}
    BY <2>1, <2>4, <2>5 DEF CachePut
  <2>7. QuestionOf(saying) = Question(walk) /\ Saying(Question(walk), answer) = saying
    BY DEF QuestionOf, Question, Saying
  <2>8. saying \notin said
    BY <2>4, <2>7 DEF AskInv, SaidIsKept
  <2> HIDE DEF entry
  <2>9. KeptIsSaid'
    BY <2>1, <2>5, <2>6, <2>7 DEF AskInv, KeptIsSaid
  <2>10. SaidIsKept'
    <3>1. ASSUME NEW s \in said
          PROVE  \E e \in cache' : e.question = QuestionOf(s)
      BY <2>6 DEF AskInv, SaidIsKept
    <3>2. \E e \in cache' : e.question = QuestionOf(saying)
      BY <2>5, <2>6, <2>7
    <3> HIDE DEF saying
    <3> QED BY <2>1, <3>1, <3>2 DEF SaidIsKept
  <2>11. AnswersWhatWasShown'
    BY <2>1, <2>3 DEF AnswersWhatWasShown
  <2> HIDE DEF saying
  <2>12. IsFiniteSet(said') /\ Cardinality(said') = Cardinality(said) + 1
    BY <2>1, <2>8, FS_AddElement DEF AskInv, CountsFinite
  <2>13. AskedOnce' /\ CountsFinite'
    <3>1. Cardinality(said) \in Nat
      BY FS_CardinalityType DEF AskInv, CountsFinite
    <3> QED BY <2>1, <2>3, <2>12, <3>1 DEF AskInv, CountsFinite, AskedOnce, At
  <2> QED
    BY <2>1, <2>2, <2>3, <2>9, <2>10, <2>11, <2>13
    DEF AskInv, WalkShaped, SentIsNew, LevelsBounded, At
<1>5. ASSUME Settle
      PROVE  AskInv'
  <2>1. walk'.phase = "idle" /\ ~At("sent") /\ UNCHANGED <<cache, said, calls, lost>>
    BY <1>5 DEF Settle, End, Idle, At
  <2> QED BY <2>1, LookingKeeps
<1>6. ASSUME AskMore
      PROVE  AskInv'
  <2>1. At("judge") /\ UNCHANGED <<cache, said, calls, lost>>
    BY <1>6 DEF AskMore, WantsMore
  <2>2. {"phase", "sel", "permit", "res", "first", "tried", "level", "answer"} \subseteq DOMAIN walk
    BY <2>1 DEF AskInv, WalkShaped, At
  <2>3. walk.level \in 0 .. MaxLevels
    BY <2>1 DEF AskInv, LevelsBounded, At
  <2>4. \/ walk'.phase = "idle"
        \/ walk'.phase = "look" /\ DOMAIN walk' = DOMAIN walk /\ walk'.level \in 0 .. MaxLevels
    <3>1. CASE walk' = Idle
      BY <3>1 DEF Idle
    <3>2. CASE walk' # Idle
      <4>1. PICK res : ~Exhausted(walk) /\ Descend(res)
        BY <1>6, <3>2 DEF AskMore, End
      <4>2. walk' = [walk EXCEPT !.phase = "look", !.res = res, !.tried = @ \o res.used,
                                 !.level = @ + 1, !.answer = None]
        BY <3>2, <4>1 DEF Descend, End
      <4>3. walk.level + 1 \in 0 .. MaxLevels
        BY <2>3, <4>1, ContextAssumption DEF Exhausted
      <4> QED BY <2>2, <4>2, <4>3
    <3> QED BY <3>1, <3>2
  <2>5. ~At("sent")
    BY <2>1 DEF At
  <2> QED BY <2>1, <2>2, <2>4, <2>5, LookingKeeps
<1>7. ASSUME Crash
      PROVE  AskInv'
  <2>1. /\ walk'.phase = "idle"
        /\ lost' = lost + (IF At("sent") THEN 1 ELSE 0)
        /\ UNCHANGED <<cache, said, calls>>
    BY <1>7 DEF Crash, End, Idle
  <2>2. Cardinality(said) \in Nat
    BY FS_CardinalityType DEF AskInv, CountsFinite
  <2>3. AskedOnce' /\ CountsFinite'
    BY <2>1, <2>2 DEF AskInv, CountsFinite, AskedOnce, At
  <2> QED
    BY <2>1, <2>3
    DEF AskInv, WalkShaped, KeptIsSaid, SaidIsKept, SentIsNew, AnswersWhatWasShown,
        LevelsBounded, At
<1>8. ASSUME UNCHANGED <<walk, cache, said, calls, lost>>
      PROVE  AskInv'
  BY <1>8
  DEF AskInv, WalkShaped, CountsFinite, KeptIsSaid, SaidIsKept, SentIsNew, AskedOnce,
      AnswersWhatWasShown, LevelsBounded, At, Question
<1>9. ASSUME NEW p \in Versions, Move(Import(p)) \/ Move(AddParse(p)) \/ Move(Reanchor(p))
      PROVE  AskInv'
  BY <1>8, <1>9 DEF Move
<1>10. CASE UNCHANGED vars
  BY <1>8, <1>10 DEF vars
<1> QED
  BY <1>1, <1>2, <1>3, <1>4, <1>5, <1>6, <1>7, <1>9, <1>10 DEF Next

\* A question of the walk is paid for once, for every policy, every number of levels
\* and runs and every history of crashes: each call brought an answer no other call
\* brought, is under way, or was lost with its run.
THEOREM QuestionsAreAskedOnce == Spec => []AskedOnce
<1>1. AskInv => AskedOnce
  BY DEF AskInv
<1> QED BY <1>1, AskInit, AskStep, PTL DEF Spec

\* An answer is judged, and its artifact written, against the very units it was given
\* to, whether it came from the model or from the cache, at whatever level.
THEOREM AnswersAreAboutWhatWasShown == Spec => []AnswersWhatWasShown
<1>1. AskInv => AnswersWhatWasShown
  BY DEF AskInv
<1> QED BY <1>1, AskInit, AskStep, PTL DEF Spec

-----------------------------------------------------------------------------
(* Types.                                                                   *)

PhasesInv ==
    /\ outcome \in {"none", "review", "failed", "written", "crashed"}
    /\ \A entry \in cache : entry.answer \in Answers \cup {More}
    /\ walk.phase \in {"idle", "look", "sent", "judge"}

LEMMA PhasesInit == Init => PhasesInv
BY DEF Init, PhasesInv, Idle

LEMMA PhasesStep == PhasesInv /\ WalkShaped /\ [Next]_vars => PhasesInv'
<1> SUFFICES ASSUME PhasesInv, WalkShaped, [Next]_vars
             PROVE  PhasesInv'
  OBVIOUS
<1>1. ASSUME NEW permit \in BOOLEAN, Begin(permit)
      PROVE  PhasesInv'
  BY <1>1 DEF Begin, Start, End, Idle, PhasesInv
<1>2. CASE Hit \/ Call
  <2>1. ~At("idle") /\ UNCHANGED <<outcome, cache>>
    BY <1>2 DEF Hit, Call, At
  <2>2. "phase" \in DOMAIN walk
    BY <2>1 DEF WalkShaped
  <2>3. walk'.phase \in {"judge", "sent"}
    BY <1>2, <2>2 DEF Hit, Call
  <2> QED BY <2>1, <2>3 DEF PhasesInv
<1>3. ASSUME NEW answer \in Answers \cup {More}, Receive(answer)
      PROVE  PhasesInv'
  <2>1. "phase" \in DOMAIN walk
    BY <1>3 DEF Receive, WalkShaped, At
  <2>2. walk'.phase = "judge" /\ UNCHANGED outcome
    BY <1>3, <2>1 DEF Receive
  <2>3. \A entry \in cache' : entry \in cache \/ entry.answer = answer
    BY <1>3 DEF Receive, CachePut
  <2> QED BY <2>2, <2>3 DEF PhasesInv
<1>4. CASE Settle
  BY <1>4 DEF Settle, End, Idle, PhasesInv
<1>5. CASE AskMore
  <2>1. "phase" \in DOMAIN walk
    BY <1>5 DEF AskMore, WantsMore, WalkShaped, At
  <2>2. /\ UNCHANGED cache
        /\ \/ walk' = Idle /\ outcome' \in {"review", "failed"}
           \/ walk'.phase = "look" /\ outcome' = outcome
    BY <1>5, <2>1 DEF AskMore, Descend, End
  <2> QED BY <2>2 DEF PhasesInv, Idle
<1>6. CASE Crash
  BY <1>6 DEF Crash, End, Idle, PhasesInv
<1>7. CASE \E p \in Versions : Move(Import(p)) \/ Move(AddParse(p)) \/ Move(Reanchor(p))
  BY <1>7 DEF Move, PhasesInv
<1>8. CASE UNCHANGED vars
  BY <1>8 DEF vars, PhasesInv
<1> QED BY <1>1, <1>2, <1>3, <1>4, <1>5, <1>6, <1>7, <1>8 DEF Next

\* The walk stays on the policy's chain, goes down it only, and asks at most as many
\* levels as the recipe's escalation names.
THEOREM WalksAreTyped == Spec => []TypeOK
<1>1. ChainInv /\ AskInv /\ PhasesInv => TypeOK
  <2>1. SUFFICES ASSUME ChainInv, AskInv, PhasesInv
                 PROVE  TypeOK
    OBVIOUS
  <2>2. ASSUME ~At("idle")
        PROVE  /\ walk.phase \in {"look", "sent", "judge"} /\ walk.level \in 0 .. MaxLevels
               /\ \A i \in DOMAIN walk.tried : walk.tried[i] \in DOMAIN Chain
               /\ \A i, j \in DOMAIN walk.tried : i < j => walk.tried[i] < walk.tried[j]
    <3>1. Walking(walk) /\ DOMAIN Chain = 1 .. Len(Chain)
      BY <2>1, <2>2, PolicyTypes DEF ChainInv
    <3>2. \A i \in DOMAIN walk.tried : walk.tried[i] \in DOMAIN Chain
      BY <3>1 DEF Walking
    <3> QED BY <2>1, <2>2, <3>1, <3>2 DEF AskInv, LevelsBounded, PhasesInv, At, Walking, Ascends
  <2> QED BY <2>1, <2>2 DEF TypeOK, ChainInv, EvidenceInv, PhasesInv
<1>2. AskInv => WalkShaped
  BY DEF AskInv
<1> QED BY <1>1, <1>2, AskInit, AskStep, ChainInit, ChainStep, PhasesInit, PhasesStep, PTL DEF Spec
=============================================================================

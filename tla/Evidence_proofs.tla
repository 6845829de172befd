---------------------------- MODULE Evidence_proofs ----------------------------
(* What the operators on evidence return, for every parse and every quote:   *)
(* none of it is lost uncounted, and what is kept is where it says.          *)
EXTENDS Evidence, FiniteSetTheorems, Recursion_proofs

-----------------------------------------------------------------------------
(* Sequences.                                                               *)

LEMMA EmptySequence == ASSUME NEW S PROVE <<>> \in Seq(S) /\ Len(<<>>) = 0
OBVIOUS

LEMMA Concatenated ==
    ASSUME NEW S, NEW s \in Seq(S), NEW t \in Seq(S)
    PROVE  s \o t \in Seq(S) /\ Len(s \o t) = Len(s) + Len(t)
OBVIOUS

LEMMA OneElement == ASSUME NEW S, NEW e \in S PROVE <<e>> \in Seq(S) /\ Len(<<e>>) = 1
OBVIOUS

\* The positions that are picked give their elements and no others.
LEMMA PickedType ==
    ASSUME NEW S, NEW s \in Seq(S), NEW keep
    PROVE  Picked(s, keep) \in Seq({s[k] : k \in keep \cap DOMAIN s})
<1> DEFINE N == Len(s)
           K == {s[k] : k \in keep \cap DOMAIN s}
           Q == Seq(K)
           Part(n) == IF n \in keep THEN <<s[n]>> ELSE <<>>
           F == [x \in Nat \X Q |-> IF x[1] \in 1 .. N THEN x[2] \o Part(x[1]) ELSE x[2]]
           Body(g) == [n \in 0 .. N |-> IF n = 0 THEN <<>> ELSE g[n - 1] \o Part(n)]
           Upto == CHOOSE g : g = Body(g)
<1>1. N \in Nat /\ DOMAIN s = 1 .. N
  OBVIOUS
<1>2. <<>> \in Q
  BY EmptySequence
<1>3. ASSUME NEW q \in Q, NEW n \in 1 .. N
      PROVE  q \o Part(n) \in Q
  <2>1. n \in keep => s[n] \in K
    BY <1>1
  <2> HIDE DEF K
  <2>2. Part(n) \in Seq(K)
    BY <2>1, EmptySequence, OneElement
  <2> QED BY <2>2, Concatenated
<1>4. Picked(s, keep) = Upto[N]
  BY DEF Picked
<1> HIDE DEF Q, N, Part
<1>5. F \in [Nat \X Q -> Q]
  BY <1>3
<1>6. ASSUME NEW n \in 1 .. N, NEW q \in Q
      PROVE  F[<<n, q>>] = q \o Part(n)
  <2>1. <<n, q>> \in Nat \X Q /\ <<n, q>>[1] = n /\ <<n, q>>[2] = q
    BY <1>1
  <2> QED BY <2>1
<1> HIDE DEF F
<1>7. PICK g : Solves(g, N, Q, <<>>, F)
  BY <1>1, <1>2, <1>5, RecursionUpTo
<1>8. g = Body(g)
  <2>1. g \in [0 .. N -> Q] /\ g[0] = <<>>
    BY <1>7 DEF Solves
  <2>2. ASSUME NEW n \in 1 .. N
        PROVE  g[n] = g[n - 1] \o Part(n)
    <3>1. n - 1 \in 0 .. N - 1 /\ n - 1 \in 0 .. N /\ (n - 1) + 1 = n
      BY <1>1
    <3>2. g[n] = F[<<n, g[n - 1]>>]
      BY <1>7, <3>1 DEF Solves
    <3>3. g[n - 1] \in Q
      BY <2>1, <3>1
    <3> QED BY <1>6, <3>2, <3>3
  <2>3. ASSUME NEW n \in 0 .. N
        PROVE  g[n] = Body(g)[n]
    <3>1. CASE n = 0
      BY <2>1, <3>1, <1>1
    <3>2. CASE n # 0
      <4>1. n \in 1 .. N
        BY <1>1, <3>2
      <4> QED BY <2>2, <3>2, <4>1
    <3> QED BY <3>1, <3>2
  <2> QED BY <2>1, <2>3
<1>9. Upto = Body(Upto)
  BY <1>8
<1> HIDE DEF Upto
<1>10. \A n \in Nat : n <= N => Upto[n] \in Q
  <2> DEFINE T == {n \in Nat : n <= N => Upto[n] \in Q}
  <2>1. 0 \in T
    <3>1. Upto[0] = <<>>
      BY <1>1, <1>9
    <3> QED BY <1>2, <3>1
  <2>2. ASSUME NEW n \in Nat, n \in T
        PROVE  n + 1 \in T
    <3>1. SUFFICES ASSUME n + 1 <= N
                   PROVE  Upto[n + 1] \in Q
      OBVIOUS
    <3>2. Upto[n] \in Q /\ n + 1 \in 0 .. N /\ n + 1 \in 1 .. N /\ n + 1 # 0 /\ (n + 1) - 1 = n
      BY <1>1, <2>2, <3>1
    <3>3. Upto[n + 1] = Upto[n] \o Part(n + 1)
      BY <1>9, <3>2
    <3> QED BY <1>3, <3>2, <3>3
  <2>3. Nat \subseteq T
    <3> HIDE DEF T
    <3> QED BY <2>1, <2>2, SetInduction
  <2> QED BY <2>3
<1> QED BY <1>1, <1>4, <1>10 DEF Q

LEMMA ElementOfEither ==
    ASSUME NEW S, NEW R, NEW s \in Seq(S), NEW t \in Seq(R), NEW k \in DOMAIN (s \o t)
    PROVE  \/ k \in DOMAIN s /\ (s \o t)[k] = s[k]
           \/ \E j \in DOMAIN t : (s \o t)[k] = t[j]
<1>1. Len(s) \in Nat /\ Len(t) \in Nat /\ DOMAIN s = 1 .. Len(s) /\ DOMAIN t = 1 .. Len(t)
  OBVIOUS
<1>2. k \in 1 .. Len(s) + Len(t)
  BY <1>1
<1>3. CASE k <= Len(s)
  BY <1>1, <1>2, <1>3
<1>4. CASE k > Len(s)
  <2>1. k - Len(s) \in DOMAIN t /\ (s \o t)[k] = t[k - Len(s)]
    BY <1>1, <1>2, <1>4
  <2> QED BY <2>1
<1> QED BY <1>2, <1>1, <1>3, <1>4

IsSeq(s) == \E S : s \in Seq(S)

\* A function on the positions of a sequence is a sequence as long as it.
LEMMA OverPositions ==
    ASSUME NEW s, IsSeq(s), NEW f, f = [k \in DOMAIN s |-> f[k]]
    PROVE  IsSeq(f) /\ Len(f) = Len(s) /\ Len(s) \in Nat /\ DOMAIN f = DOMAIN s
<1>1. PICK S : s \in Seq(S)
  BY DEF IsSeq
<1>2. Len(s) \in Nat /\ DOMAIN s = 1 .. Len(s)
  BY <1>1
<1> DEFINE T == {f[k] : k \in 1 .. Len(s)}
<1>3. f \in [1 .. Len(s) -> T]
  BY <1>2
<1> HIDE DEF T
<1>4. f \in Seq(T) /\ Len(f) = Len(s)
  BY <1>2, <1>3
<1> QED BY <1>2, <1>3, <1>4 DEF IsSeq

LEMMA PickedIsSeq ==
    ASSUME NEW s, IsSeq(s), NEW keep
    PROVE  /\ IsSeq(Picked(s, keep)) /\ Len(Picked(s, keep)) \in Nat
           /\ \A j \in DOMAIN Picked(s, keep) : \E k \in keep \cap DOMAIN s : Picked(s, keep)[j] = s[k]
<1>1. PICK S : s \in Seq(S)
  BY DEF IsSeq
<1> DEFINE K == {s[k] : k \in keep \cap DOMAIN s}
<1>2. Picked(s, keep) \in Seq(K)
  BY <1>1, PickedType
<1>3. \A j \in DOMAIN Picked(s, keep) : Picked(s, keep)[j] \in K
  <2> HIDE DEF K
  <2> QED BY <1>2
<1> QED BY <1>2, <1>3 DEF IsSeq

-----------------------------------------------------------------------------
(* Spans.                                                                   *)

LEMMA ParseTypes ==
    ASSUME NEW p \in Versions
    PROVE  Parses[p] \in Seq(Units) /\ \A k \in DOMAIN Parses[p] : Parses[p][k] \in Units
<1>1. Parses[p] \in Seq(Units)
  BY EvidenceAssumption DEF Versions
<1> QED BY <1>1

\* An id leads to the unit it was taken from.
LEMMA UnitOfItsId ==
    ASSUME NEW p \in Versions, NEW k \in DOMAIN Parses[p]
    PROVE  UnitOf(p, Parses[p][k].id) = Parses[p][k] /\ Parses[p][k] # None
<1>1. Parses[p][k] # None
  BY ParseTypes, EvidenceAssumption
<1>2. \A j \in DOMAIN Parses[p] : Parses[p][j].id = Parses[p][k].id => j = k
  BY EvidenceAssumption
<1>3. (CHOOSE j \in DOMAIN Parses[p] : Parses[p][j].id = Parses[p][k].id) = k
  BY <1>2
<1> QED BY <1>1, <1>3 DEF UnitOf

\* Where a text was found it resolves.
LEMMA HitsResolve ==
    ASSUME NEW p \in Versions, NEW text, NEW s \in Hits(p, text)
    PROVE  Resolves(s, p)
<1>1. PICK k \in DOMAIN Parses[p] :
          \E n \in Occurrences(Parses[p][k].text, text) : s = Span(Parses[p][k].id, n, text)
  BY DEF Hits
<1>2. PICK n \in Occurrences(Parses[p][k].text, text) : s = Span(Parses[p][k].id, n, text)
  BY <1>1
<1>3. s.unit = Parses[p][k].id /\ s.start = n /\ s.text = text
  BY <1>2 DEF Span
<1>4. Slice(Parses[p][k].text, n, n + Len(text)) = text
  BY DEF Occurrences
<1> QED BY <1>3, <1>4, UnitOfItsId DEF Resolves

LEMMA OneIsSome ==
    ASSUME NEW S, Cardinality(S) = 1
    PROVE  S # {}
BY FS_EmptySet

LEMMA MovedResolves ==
    ASSUME NEW p \in Versions, NEW span, NEW s \in Moved(span, p)
    PROVE  Resolves(s, p)
<1>1. CASE span.text # <<>> /\ Resolves(span, p)
  BY <1>1 DEF Moved
<1>2. CASE span.text # <<>> /\ ~Resolves(span, p)
  BY <1>2, HitsResolve DEF Moved
<1>3. CASE span.text = <<>>
  BY <1>3 DEF Moved
<1> QED BY <1>1, <1>2, <1>3

-----------------------------------------------------------------------------
(* References.                                                              *)

\* What the evidence of an imported value is: each of its quotes is a span that is in
\* the parse the reference names, or is counted as unlocated.
Sound(ref) ==
    /\ ref.parse \in Versions /\ IsSeq(ref.spans) /\ ref.unlocated \in Int
    /\ Len(ref.spans) + ref.unlocated = Len(Quotes)
    /\ \A j \in DOMAIN ref.spans : Resolves(ref.spans[j], ref.parse)

LEMMA LocatedIsSound ==
    ASSUME NEW p \in Versions
    PROVE  Sound(Located(p, Quotes))
<1> DEFINE once == {k \in DOMAIN Quotes : Cardinality(Hits(p, Quotes[k])) = 1}
           found == Picked(Quotes, once)
           spans == [k \in DOMAIN found |-> CHOOSE s \in Hits(p, found[k]) : TRUE]
<1>1. IsSeq(Quotes) /\ Len(Quotes) \in Nat
  BY EvidenceAssumption DEF IsSeq
<1>2. /\ IsSeq(found) /\ Len(found) \in Nat
      /\ \A j \in DOMAIN found : \E k \in DOMAIN Quotes :
            Cardinality(Hits(p, Quotes[k])) = 1 /\ found[j] = Quotes[k]
  <2>1. \A k \in once \cap DOMAIN Quotes : k \in DOMAIN Quotes /\ Cardinality(Hits(p, Quotes[k])) = 1
    OBVIOUS
  <2> HIDE DEF once
  <2> QED BY <1>1, <2>1, PickedIsSeq
<1>3. Located(p, Quotes) = Reference(p, spans, Len(Quotes) - Len(found))
  BY DEF Located
<1> HIDE DEF found
<1>4. IsSeq(spans) /\ Len(spans) = Len(found) /\ DOMAIN spans = DOMAIN found
  BY <1>2, OverPositions
<1>5. ASSUME NEW j \in DOMAIN found
      PROVE  Resolves(spans[j], p)
  <2>1. Hits(p, found[j]) # {}
    BY <1>2, OneIsSome
  <2>2. spans[j] \in Hits(p, found[j])
    BY <2>1
  <2> QED BY <2>2, HitsResolve
<1> HIDE DEF spans
<1> QED BY <1>1, <1>2, <1>3, <1>4, <1>5 DEF Sound, Reference

LEMMA ReanchoredIsSound ==
    ASSUME NEW p \in Versions, NEW ref, Sound(ref)
    PROVE  Sound(Reanchored(ref, p))
<1> DEFINE placed == {k \in DOMAIN ref.spans : Moved(ref.spans[k], p) # {}}
           kept == Picked(ref.spans, placed)
           spans == [k \in DOMAIN kept |-> CHOOSE s \in Moved(kept[k], p) : TRUE]
<1>1. IsSeq(ref.spans) /\ Len(ref.spans) \in Nat /\ Len(Quotes) \in Nat
  <2>1. PICK S : ref.spans \in Seq(S)
    BY DEF Sound, IsSeq
  <2> QED BY <2>1, EvidenceAssumption DEF IsSeq
<1>2. /\ IsSeq(kept) /\ Len(kept) \in Nat
      /\ \A j \in DOMAIN kept : \E k \in DOMAIN ref.spans :
            Moved(ref.spans[k], p) # {} /\ kept[j] = ref.spans[k]
  <2>1. \A k \in placed \cap DOMAIN ref.spans : k \in DOMAIN ref.spans /\ Moved(ref.spans[k], p) # {}
    OBVIOUS
  <2> HIDE DEF placed
  <2>2. /\ IsSeq(kept) /\ Len(kept) \in Nat
        /\ \A j \in DOMAIN kept : \E k \in placed \cap DOMAIN ref.spans : kept[j] = ref.spans[k]
    BY <1>1, PickedIsSeq
  <2> HIDE DEF kept
  <2> QED BY <2>1, <2>2
<1>3. Reanchored(ref, p) = Reference(p, spans, ref.unlocated + Len(ref.spans) - Len(kept))
  BY DEF Reanchored
<1> HIDE DEF kept
<1>4. IsSeq(spans) /\ Len(spans) = Len(kept) /\ DOMAIN spans = DOMAIN kept
  BY <1>2, OverPositions
<1>5. ASSUME NEW j \in DOMAIN kept
      PROVE  Resolves(spans[j], p)
  <2>1. Moved(kept[j], p) # {}
    BY <1>2
  <2>2. spans[j] \in Moved(kept[j], p)
    BY <2>1
  <2> QED BY <2>2, MovedResolves
<1> HIDE DEF spans
<1>6. ref.unlocated \in Int /\ Len(ref.spans) + ref.unlocated = Len(Quotes)
  BY DEF Sound
<1> QED BY <1>1, <1>2, <1>3, <1>4, <1>5, <1>6 DEF Sound, Reference

-----------------------------------------------------------------------------
(* The store.  The newest artifact is moved with its reference, so what is    *)
(* sound of the references stored stays so.                                   *)

LEMMA Inserted ==
    ASSUME NEW S, NEW s \in Seq(S), NEW a \in S, NEW k \in 1 .. Len(s) + 1
    PROVE  InsertAt(s, k, a) \in Seq(S) /\ Len(InsertAt(s, k, a)) = Len(s) + 1
<1>1. Len(s) \in Nat /\ k - 1 \in 0 .. Len(s)
  OBVIOUS
<1>2. SubSeq(s, 1, k - 1) \in Seq(S) /\ Len(SubSeq(s, 1, k - 1)) = k - 1
  BY <1>1
<1>3. SubSeq(s, k, Len(s)) \in Seq(S) /\ Len(SubSeq(s, k, Len(s))) = Len(s) - k + 1
  BY <1>1
<1>4. InsertAt(s, k, a) = SubSeq(s, 1, k - 1) \o <<a>> \o SubSeq(s, k, Len(s))
  BY DEF InsertAt
<1>5. SubSeq(s, 1, k - 1) \o <<a>> \in Seq(S) /\ Len(SubSeq(s, 1, k - 1) \o <<a>>) = k
  <2>1. <<a>> \in Seq(S) /\ Len(<<a>>) = 1
    BY OneElement
  <2>2. (k - 1) + 1 = k
    BY <1>1
  <2> QED BY <1>2, <2>1, <2>2, Concatenated
<1>6. k + (Len(s) - k + 1) = Len(s) + 1
  BY <1>1
<1>7. /\ (SubSeq(s, 1, k - 1) \o <<a>>) \o SubSeq(s, k, Len(s)) \in Seq(S)
      /\ Len((SubSeq(s, 1, k - 1) \o <<a>>) \o SubSeq(s, k, Len(s))) = Len(s) + 1
  BY <1>3, <1>5, <1>6, Concatenated
<1> QED BY <1>4, <1>7

SoundArtifact(a) == {"ref", "parse"} \subseteq DOMAIN a /\ Sound(a.ref)
SoundRead(artifactsOfRead) ==
    \E S : artifactsOfRead \in Seq(S) /\ \A a \in S : SoundArtifact(a)
EvidenceInv ==
    /\ parses \subseteq Versions /\ index \in {0} \cup parses
    /\ artifacts = [f \in Fields |-> artifacts[f]]
    /\ SoundRead(artifacts["read"])
    /\ index # 0 => artifacts["read"] # <<>>

LEMMA SoundReadOf ==
    ASSUME NEW s, SoundRead(s)
    PROVE  /\ IsSeq(s) /\ \A k \in DOMAIN s : SoundArtifact(s[k])
           /\ s # <<>> => SoundArtifact(Last(s)) /\ Len(s) \in Nat \ {0}
<1>1. PICK S : s \in Seq(S) /\ \A a \in S : SoundArtifact(a)
  BY DEF SoundRead
<1>2. \A k \in DOMAIN s : s[k] \in S
  BY <1>1
<1>3. ASSUME s # <<>>
      PROVE  Len(s) \in Nat \ {0} /\ Len(s) \in DOMAIN s
  BY <1>1, <1>3
<1> QED BY <1>1, <1>2, <1>3 DEF IsSeq, Last

\* An artifact added at the end or among the others is sound if it was before.
LEMMA SoundWithOneMore ==
    ASSUME NEW s, SoundRead(s), NEW a, SoundArtifact(a)
    PROVE  /\ SoundRead(Append(s, a)) /\ Append(s, a) # <<>>
           /\ \A k \in 1 .. Len(s) + 1 : SoundRead(InsertAt(s, k, a)) /\ InsertAt(s, k, a) # <<>>
<1>1. PICK S : s \in Seq(S) /\ \A b \in S : SoundArtifact(b)
  BY DEF SoundRead
<1> DEFINE T == S \cup {a}
<1>2. s \in Seq(T) /\ a \in T /\ \A b \in T : SoundArtifact(b)
  BY <1>1
<1> HIDE DEF T
<1>3. Append(s, a) \in Seq(T) /\ Append(s, a) # <<>>
  <2>1. Append(s, a) \in Seq(T) /\ Len(Append(s, a)) = Len(s) + 1
    BY <1>2
  <2>2. Len(s) \in Nat /\ Len(<<>>) = 0
    BY <1>2
  <2> QED BY <2>1, <2>2
<1>4. ASSUME NEW k \in 1 .. Len(s) + 1
      PROVE  InsertAt(s, k, a) \in Seq(T) /\ InsertAt(s, k, a) # <<>>
  <2>1. InsertAt(s, k, a) \in Seq(T) /\ Len(InsertAt(s, k, a)) = Len(s) + 1
    BY <1>2, Inserted
  <2>2. Len(s) \in Nat /\ Len(<<>>) = 0
    BY <1>2
  <2> QED BY <2>1, <2>2
<1> QED BY <1>2, <1>3, <1>4 DEF SoundRead

LEMMA EvidenceInit == InitEvidence => EvidenceInv
<1> SUFFICES ASSUME InitEvidence PROVE EvidenceInv
  OBVIOUS
<1>1. artifacts["read"] = <<>>
  BY DEF InitEvidence, Fields
<1>2. SoundRead(<<>>)
  <2> DEFINE none == {}
  <2>1. \A a \in none : SoundArtifact(a)
    OBVIOUS
  <2> HIDE DEF none
  <2>2. <<>> \in Seq(none)
    BY EmptySequence
  <2> QED BY <2>1, <2>2 DEF SoundRead
<1> QED BY <1>1, <1>2 DEF InitEvidence, EvidenceInv

LEMMA ImportStep ==
    ASSUME EvidenceInv, NEW p \in Versions, Import(p)
    PROVE  EvidenceInv'
<1> DEFINE a == Fresh("read", Located(p, Quotes), p, 0, <<>>)
<1>1. /\ parses' = parses \cup {p} /\ index' = p
      /\ artifacts' = [artifacts EXCEPT !["read"] = PutFresh("read", a)]
  BY DEF Import
<1>2. SoundArtifact(a)
  BY LocatedIsSound DEF Fresh, SoundArtifact
<1> HIDE DEF a
<1>3. SoundRead(artifacts["read"])
  BY DEF EvidenceInv
<1>4. SoundRead(PutFresh("read", a)) /\ PutFresh("read", a) # <<>>
  <2>1. CASE Stored("read", a)
    <3>1. artifacts["read"] # <<>>
      BY <2>1 DEF Stored
    <3> QED BY <1>3, <2>1, <3>1 DEF PutFresh
  <2>2. CASE ~Stored("read", a)
    BY <1>2, <1>3, <2>2, SoundWithOneMore DEF PutFresh
  <2> QED BY <2>1, <2>2
<1>5. artifacts' = [f \in Fields |-> artifacts'[f]] /\ artifacts'["read"] = PutFresh("read", a)
  BY <1>1 DEF EvidenceInv, Fields
<1> QED BY <1>1, <1>4, <1>5 DEF EvidenceInv

LEMMA AddParseStep ==
    ASSUME EvidenceInv, NEW p \in Versions, AddParse(p)
    PROVE  EvidenceInv'
BY DEF EvidenceInv, AddParse

LEMMA ReanchorStep ==
    ASSUME EvidenceInv, NEW p \in Versions, Reanchor(p)
    PROVE  EvidenceInv'
<1>1. PICK read \in After("read", p) :
          \E written \in After("written", p) : artifacts' = [read |-> read, written |-> written]
  BY DEF Reanchor
<1>2. UNCHANGED <<parses, index>>
  BY DEF Reanchor
<1>3. SoundRead(artifacts["read"])
  BY DEF EvidenceInv
<1>4. SoundRead(read) /\ (artifacts["read"] # <<>> => read # <<>>)
  <2>1. CASE ~Moves("read", p)
    BY <1>1, <1>3, <2>1 DEF After
  <2>2. CASE Moves("read", p)
    <3> DEFINE a == Copy("read", p)
    <3>1. read \in Orders("read", a)
      BY <1>1, <2>2 DEF After
    <3>2. artifacts["read"] # <<>>
      BY <2>2 DEF Moves, Newest
    <3>3. Newest("read") = Last(artifacts["read"]) /\ SoundArtifact(Newest("read"))
      BY <1>3, <3>2, SoundReadOf DEF Newest
    <3>4. SoundArtifact(a)
      <4>1. DOMAIN a = DOMAIN Newest("read") /\ a.ref = Reanchored(Newest("read").ref, p)
        BY <3>3 DEF Copy, SoundArtifact
      <4> QED BY <3>3, <4>1, ReanchoredIsSound DEF SoundArtifact
    <3> HIDE DEF a
    <3>5. CASE Stored("read", a)
      BY <1>3, <3>1, <3>2, <3>5 DEF Orders
    <3>6. CASE ~Stored("read", a)
      <4>1. PICK k \in 1 .. Len(artifacts["read"]) + 1 : read = InsertAt(artifacts["read"], k, a)
        BY <3>1, <3>6 DEF Orders
      <4> QED BY <1>3, <3>4, <4>1, SoundWithOneMore
    <3> QED BY <3>5, <3>6
  <2> QED BY <2>1, <2>2
<1>5. artifacts' = [f \in Fields |-> artifacts'[f]] /\ artifacts'["read"] = read
  BY <1>1 DEF Fields
<1> QED BY <1>2, <1>4, <1>5 DEF EvidenceInv
=============================================================================

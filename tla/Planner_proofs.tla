---------------------------- MODULE Planner_proofs ----------------------------
(***************************************************************************)
(* Theorems about Planner, for every catalogue, policy and bound:          *)
(*   - paths are finitely many, so one of them is best (with the order of  *)
(*     keys of Registry_proofs);                                           *)
(*   - the rounds of _ordered name each step once and after those it waits *)
(*     for, by induction on the rounds;                                    *)
(*   - what is registered and what is stored only grows, so what a plan    *)
(*     was made of is there when it is run, or it is refused.              *)
(***************************************************************************)
EXTENDS PlannerProperties, Registry_proofs

-----------------------------------------------------------------------------
(* Of the paths between two versions, if there are any, one is best.        *)

LEMMA ElementsOfNumbers == \A s \in Seq(Nat) : \A j \in DOMAIN s : s[j] \in Nat
  OBVIOUS

LEMMA BeforeIsTransitive ==
    ASSUME NEW a \in Seq(Nat), NEW b \in Seq(Nat), NEW c \in Seq(Nat), Before(a, b), Before(b, c)
    PROVE  Before(a, c)
<1>1. PICK i \in DOMAIN a \cap DOMAIN b : a[i] < b[i] /\ \A j \in 1 .. i - 1 : a[j] = b[j]
  BY DEF Before
<1>2. PICK k \in DOMAIN b \cap DOMAIN c : b[k] < c[k] /\ \A j \in 1 .. k - 1 : b[j] = c[j]
  BY DEF Before
<1> DEFINE n == IF i <= k THEN i ELSE k
<1>3. i \in Nat /\ k \in Nat /\ n \in Nat /\ n <= i /\ n <= k /\ 1 <= n
  <2>1. i \in Nat /\ 1 <= i
    OBVIOUS
  <2>2. k \in Nat /\ 1 <= k
    OBVIOUS
  <2> QED BY <2>1, <2>2
<1>4. n \in DOMAIN a /\ n \in DOMAIN b /\ n \in DOMAIN c
  BY <1>3
<1>5. a[n] \in Nat /\ b[n] \in Nat /\ c[n] \in Nat
  <2> HIDE DEF n
  <2> QED BY <1>4, ElementsOfNumbers
<1>6. a[n] < c[n]
  <2>1. CASE i < k
    <3>1. n = i /\ b[i] = c[i]
      BY <1>2, <1>3, <2>1
    <3> QED BY <1>1, <1>5, <3>1
  <2>2. CASE i = k
    BY <1>1, <1>2, <1>5, <2>2
  <2>3. CASE k < i
    <3>1. n = k /\ a[k] = b[k]
      BY <1>1, <1>3, <2>3
    <3> QED BY <1>2, <1>5, <3>1
  <2> QED BY <1>3, <2>1, <2>2, <2>3
<1>7. \A j \in 1 .. n - 1 : a[j] = c[j]
  <2>1. \A j \in 1 .. n - 1 : j \in 1 .. i - 1 /\ j \in 1 .. k - 1
    BY <1>3
  <2> QED BY <1>1, <1>2, <2>1
<1> QED BY <1>4, <1>6, <1>7 DEF Before

\* Walks of each length are finitely many, for there are finitely many edges.
LEMMA WalksAreFinite ==
    ASSUME NEW from, NEW to, IsFiniteSet(Eligible)
    PROVE  \A n \in Nat : IsFiniteSet(Walks(from, to)[n])
<1> DEFINE W == Walks(from, to)
           T == {n \in Nat : IsFiniteSet(W[n])}
<1>1. 0 \in T
  <2>1. W[0] = {<<>>}
    BY WalksDef
  <2> QED BY <2>1, FS_Singleton
<1>2. ASSUME NEW n \in Nat, n \in T
      PROVE  n + 1 \in T
  <2> DEFINE pairs == W[n] \X Eligible
             f == [x \in pairs |-> Append(x[1], x[2])]
             all == {f[x] : x \in pairs}
  <2>1. IsFiniteSet(pairs)
    BY <1>2, FS_Product
  <2>2. f \in Surjection(pairs, all)
    BY DEF Surjection
  <2>3. IsFiniteSet(all)
    <3> HIDE DEF pairs, f, all
    <3> QED BY <2>1, <2>2, FS_Surjection
  <2>4. W[n + 1] \subseteq all
    <3>1. W[n + 1] = Onwards(from, to, W[n])
      BY WalksDef
    <3>2. SUFFICES ASSUME NEW w \in W[n + 1]
                   PROVE  w \in all
      OBVIOUS
    <3>3. PICK p \in W[n] : \E m \in Onward(from, p) : w = Append(p, m)
      <4> HIDE DEF W
      <4> QED BY <3>1 DEF Onwards
    <3>4. PICK m \in Onward(from, p) : w = Append(p, m)
      BY <3>3
    <3>5. m \in Eligible
      BY DEF Onward
    <3>6. <<p, m>> \in pairs /\ f[<<p, m>>] = w
      BY <3>4, <3>5
    <3> HIDE DEF pairs, f
    <3> QED BY <3>6
  <2> HIDE DEF all, W
  <2>5. IsFiniteSet(W[n + 1])
    BY <2>3, <2>4, FS_Subset
  <2> QED BY <2>5
<1>3. Nat \subseteq T
  <2> HIDE DEF T
  <2> QED BY <1>1, <1>2, SetInduction
<1> QED BY <1>3

LEMMA PathsAreFinite ==
    ASSUME NEW from, NEW to, IsFiniteSet(Eligible)
    PROVE  IsFiniteSet(Paths(from, to))
<1> DEFINE L == {Walks(from, to)[n] : n \in 1 .. Bound}
           f == [n \in 1 .. Bound |-> Walks(from, to)[n]]
<1>1. Bound \in Nat
  BY RegistryAssumption DEF Bound
<1>2. IsFiniteSet(1 .. Bound) /\ f \in Surjection(1 .. Bound, L)
  <2>1. IsFiniteSet(1 .. Bound)
    BY <1>1, FS_Interval
  <2>2. f \in Surjection(1 .. Bound, L)
    BY DEF Surjection
  <2> QED BY <2>1, <2>2
<1>3. IsFiniteSet(L)
  <2> HIDE DEF L, f
  <2> QED BY <1>2, FS_Surjection
<1>4. \A walks \in L : IsFiniteSet(walks)
  BY <1>1, WalksAreFinite
<1>5. IsFiniteSet(UNION L)
  <2> HIDE DEF L
  <2> QED BY <1>3, <1>4, FS_UNION
<1>6. Paths(from, to) \subseteq {<<>>} \cup UNION L
  BY DEF Paths
<1>7. IsFiniteSet({<<>>} \cup UNION L)
  BY <1>5, FS_Singleton, FS_Union
<1> QED BY <1>6, <1>7, FS_Subset

\* Of finitely many paths with keys of numbers one is before no other.
Minimal(P) == {p \in P : \A q \in P \ {p} : ~Before(Key(q), Key(p))}

LEMMA SomeIsMinimal ==
    ASSUME NEW P, IsFiniteSet(P), P # {}, \A p \in P : Key(p) \in Seq(Nat),
           \A p \in P : ~Before(Key(p), Key(p))
    PROVE  Minimal(P) # {}
<1> DEFINE T == {n \in Nat : \A Q \in SUBSET P : Cardinality(Q) = n /\ Q # {} => Minimal(Q) # {}}
<1>1. \A Q \in SUBSET P : IsFiniteSet(Q) /\ Cardinality(Q) \in Nat
  BY FS_Subset, FS_CardinalityType
<1>2. 0 \in T
  BY <1>1, FS_EmptySet
<1>3. ASSUME NEW n \in Nat, n \in T
      PROVE  n + 1 \in T
  <2>1. SUFFICES ASSUME NEW Q \in SUBSET P, Cardinality(Q) = n + 1, Q # {}
                 PROVE  Minimal(Q) # {}
    OBVIOUS
  <2>2. PICK q \in Q : TRUE
    BY <2>1
  <2> DEFINE R == Q \ {q}
  <2>3. R \in SUBSET P /\ Cardinality(R) = n
    <3>1. Cardinality(R) = Cardinality(Q) - 1
      BY <1>1, FS_RemoveElement
    <3> QED BY <2>1, <3>1
  <2>4. CASE R = {}
    BY <2>4 DEF Minimal
  <2>5. CASE R # {}
    <3>1. PICK r \in R : \A p \in R \ {r} : ~Before(Key(p), Key(r))
      BY <1>3, <2>3, <2>5 DEF Minimal
    <3>2. CASE ~Before(Key(q), Key(r))
      BY <3>1, <3>2 DEF Minimal
    <3>3. CASE Before(Key(q), Key(r))
      <4>1. ASSUME NEW p \in Q \ {q}, Before(Key(p), Key(q))
            PROVE  FALSE
        <5>1. p \in P /\ q \in P /\ r \in P
          BY <2>3
        <5>2. Before(Key(p), Key(r))
          BY <3>3, <4>1, <5>1, BeforeIsTransitive
        <5> QED BY <3>1, <4>1, <5>1, <5>2
      <4> QED BY <4>1 DEF Minimal
    <3> QED BY <3>2, <3>3
  <2> QED BY <2>4, <2>5
<1>4. Nat \subseteq T
  <2> HIDE DEF T
  <2> QED BY <1>2, <1>3, SetInduction
<1> QED BY <1>1, <1>4

\* find_path has a path when there are paths, and it is one of them.
LEMMA FoundPath ==
    ASSUME NEW from, NEW to, migrations \subseteq Catalogue, Paths(from, to) # {}
    PROVE  FindPath(from, to) \in Paths(from, to) /\ FindPath(from, to) \in Seq(Eligible)
<1>1. IsFiniteSet(Eligible) /\ Eligible \subseteq Catalogue
  BY SomeAreFinite DEF Eligible, Upgrades
<1>2. ASSUME NEW p \in Paths(from, to)
      PROVE  Key(p) \in Seq(Nat) /\ ~Before(Key(p), Key(p)) /\ p \in Seq(Eligible)
  <2>1. p \in Seq(Eligible)
    BY PathOfEligible
  <2>2. p \in Seq(Catalogue)
    BY <1>1, <2>1
  <2>3. Key(p) \in Seq(Nat)
    BY <2>2, KeyType
  <2>4. \A k \in DOMAIN Key(p) : Key(p)[k] \in Nat
    BY <2>3
  <2> QED BY <2>1, <2>3, <2>4 DEF Before
<1>3. Minimal(Paths(from, to)) # {}
  BY <1>1, <1>2, PathsAreFinite, SomeIsMinimal
<1>4. Best(from, to) # {}
  BY <1>3 DEF Best, Minimal
<1>5. FindPath(from, to) \in Best(from, to)
  BY <1>4 DEF FindPath
<1> QED BY <1>2, <1>5 DEF Best

-----------------------------------------------------------------------------
(* The order of steps.                                                      *)

\* A finite set of naturals has an element with so many up to it, for each number up to
\* its size.
LEMMA EveryPlaceIsTaken ==
    ASSUME NEW K \in SUBSET Nat, IsFiniteSet(K)
    PROVE  \A i \in 1 .. Cardinality(K) : \E k \in K : Cardinality({j \in K : j <= k}) = i
<1> DEFINE UpTo(Q, k) == {j \in Q : j <= k}
           Taken(Q) == \A i \in 1 .. Cardinality(Q) : \E k \in Q : Cardinality(UpTo(Q, k)) = i
           T == {n \in Nat : \A Q \in SUBSET Nat : IsFiniteSet(Q) /\ Cardinality(Q) = n => Taken(Q)}
<1>1. 0 \in T
  OBVIOUS
<1>2. ASSUME NEW n \in Nat, n \in T
      PROVE  n + 1 \in T
  <2>1. SUFFICES ASSUME NEW Q \in SUBSET Nat, IsFiniteSet(Q), Cardinality(Q) = n + 1,
                        NEW i \in 1 .. n + 1
                 PROVE  \E k \in Q : Cardinality(UpTo(Q, k)) = i
    BY <1>2
  <2>2. Q # {}
    BY <2>1, FS_EmptySet
  <2>3. PICK l \in Q : \A k \in Q : l <= k
    BY <2>2, LeastNatural
  <2> DEFINE R == Q \ {l}
  <2>4. R \in SUBSET Nat /\ IsFiniteSet(R) /\ Cardinality(R) = n
    <3>1. IsFiniteSet(R) /\ Cardinality(R) = Cardinality(Q) - 1
      BY <2>1, FS_RemoveElement
    <3> QED BY <2>1, <3>1
  <2>5. CASE i = 1
    <3>1. \A j \in Q : j <= l => j = l
      <4>1. \A j \in Q : j \in Nat /\ l \in Nat
        OBVIOUS
      <4> QED BY <2>3, <4>1
    <3>2. l <= l
      OBVIOUS
    <3>3. UpTo(Q, l) = {l}
      BY <3>1, <3>2
    <3> QED BY <2>5, <3>3, FS_Singleton
  <2>6. CASE i # 1
    <3>1. i - 1 \in 1 .. n
      BY <2>6
    <3>2. Taken(R)
      BY <1>2, <2>4
    <3> HIDE DEF R
    <3>3. PICK k \in R : Cardinality(UpTo(R, k)) = i - 1
      BY <2>4, <3>1, <3>2
    <3>4. UpTo(Q, k) = UpTo(R, k) \cup {l} /\ l \notin UpTo(R, k) /\ k \in Q
      BY <2>3 DEF R
    <3>5. IsFiniteSet(UpTo(R, k))
      BY <2>4, FS_Subset
    <3> HIDE DEF UpTo
    <3>6. Cardinality(UpTo(R, k) \cup {l}) = Cardinality(UpTo(R, k)) + 1
      BY <3>4, <3>5, FS_AddElement
    <3>7. (i - 1) + 1 = i
      OBVIOUS
    <3>8. Cardinality(UpTo(Q, k)) = i
      BY <3>3, <3>4, <3>6, <3>7
    <3> QED BY <3>4, <3>8
  <2> QED BY <2>5, <2>6
<1>3. Nat \subseteq T
  <2> HIDE DEF T
  <2> QED BY <1>1, <1>2, SetInduction
<1>4. Cardinality(K) \in Nat
  BY FS_CardinalityType
<1> QED BY <1>3, <1>4

Distinct(s) == \A i, j \in DOMAIN s : s[i] = s[j] => i = j

LEMMA AscendingType ==
    ASSUME NEW K \in SUBSET Nat, IsFiniteSet(K)
    PROVE  /\ Ascending(K) \in Seq(K) /\ Distinct(Ascending(K))
           /\ K # {} => \E k \in K : k \in ToSet(Ascending(K))
<1> DEFINE n == Cardinality(K)
           At(i) == CHOOSE k \in K : Cardinality({j \in K : j <= k}) = i
<1>1. n \in Nat
  BY FS_CardinalityType
<1>2. \A i \in 1 .. n : At(i) \in K /\ Cardinality({j \in K : j <= At(i)}) = i
  BY EveryPlaceIsTaken
<1>3. Ascending(K) = [i \in 1 .. n |-> At(i)]
  BY DEF Ascending
<1> HIDE DEF n, At
<1>4. Ascending(K) \in [1 .. n -> K]
  BY <1>2, <1>3
<1>5. Ascending(K) \in Seq(K)
  BY <1>1, <1>4
<1>6. Distinct(Ascending(K))
  <2>1. \A i \in 1 .. n : Ascending(K)[i] = At(i)
    BY <1>3
  <2>2. DOMAIN Ascending(K) = 1 .. n
    BY <1>3
  <2>3. \A i, j \in 1 .. n : At(i) = At(j) => i = j
    BY <1>2
  <2> QED BY <2>1, <2>2, <2>3 DEF Distinct
<1>7. ASSUME K # {}
      PROVE  \E k \in K : k \in ToSet(Ascending(K))
  <2>1. 1 \in 1 .. n
    BY <1>1, <1>7, FS_EmptySet DEF n
  <2>2. Ascending(K)[1] \in K /\ 1 \in DOMAIN Ascending(K)
    BY <1>4, <2>1
  <2> QED BY <2>2 DEF ToSet
<1> QED BY <1>5, <1>6, <1>7

KeysOf(steps) == {p.key : p \in steps}

LEMMA ReadyAreLeft ==
    ASSUME NEW steps, NEW done
    PROVE  Ready(done, steps) \subseteq KeysOf(steps) \ done
BY DEF Ready, KeysOf

LEMMA FewKeys ==
    ASSUME NEW steps, IsFiniteSet(steps)
    PROVE  IsFiniteSet(KeysOf(steps)) /\ Cardinality(KeysOf(steps)) <= Cardinality(steps)
<1> DEFINE f == [p \in steps |-> p.key]
<1>1. f \in Surjection(steps, KeysOf(steps))
  BY DEF Surjection, KeysOf
<1> HIDE DEF f
<1> QED BY <1>1, FS_Surjection

LEMMA Concatenation ==
    ASSUME NEW S, NEW a \in Seq(S), NEW b \in Seq(S)
    PROVE  /\ a \o b \in Seq(S) /\ DOMAIN (a \o b) = 1 .. Len(a) + Len(b)
           /\ Len(a) \in Nat /\ Len(b) \in Nat /\ DOMAIN a = 1 .. Len(a) /\ DOMAIN b = 1 .. Len(b)
           /\ \A k \in 1 .. Len(a) : (a \o b)[k] = a[k]
           /\ \A k \in Len(a) + 1 .. Len(a) + Len(b) : (a \o b)[k] = b[k - Len(a)]
OBVIOUS

LEMMA RoundsDef ==
    ASSUME NEW steps, IsFiniteSet(steps), KeysOf(steps) \subseteq Nat
    PROVE  /\ Rounds(steps)[0] = <<>>
           /\ \A n \in Nat : /\ Rounds(steps)[n] \in Seq(KeysOf(steps))
                            /\ Rounds(steps)[n + 1] = Rounds(steps)[n]
                                  \o Ascending(Ready(ToSet(Rounds(steps)[n]), steps))
<1> DEFINE K == KeysOf(steps)
           S == Seq(K)
           Longer(x) == x \o Ascending(Ready(ToSet(x), steps))
           F == [x \in Nat \X S |-> Longer(x[2])]
           Body(g) == [n \in Nat |-> IF n = 0 THEN <<>>
                          ELSE g[n - 1] \o Ascending(Ready(ToSet(g[n - 1]), steps))]
<1>1. F \in [Nat \X S -> S]
  <2>1. ASSUME NEW x \in S
        PROVE  Longer(x) \in S
    <3> DEFINE R == Ready(ToSet(x), steps)
    <3>1. R \subseteq K
      BY ReadyAreLeft
    <3>2. IsFiniteSet(R)
      BY <3>1, FewKeys, FS_Subset
    <3> HIDE DEF R
    <3>3. Ascending(R) \in Seq(R)
      BY <3>1, <3>2, AscendingType
    <3>4. Ascending(R) \in Seq(K)
      BY <3>1, <3>3
    <3> HIDE DEF K
    <3>5. x \o Ascending(R) \in Seq(K)
      BY <3>4
    <3> QED BY <3>5 DEF R
  <2> HIDE DEF S, Longer
  <2> QED BY <2>1
<1>2. <<>> \in S
  OBVIOUS
<1>3. \A n \in Nat, x \in S : F[<<n, x>>] = Longer(x)
  <2> HIDE DEF Longer, S
  <2> QED OBVIOUS
<1> HIDE DEF F, S
<1>4. PICK g : Recurses(g, S, <<>>, F)
  BY <1>1, <1>2, RecursionExists
<1>5. g[0] = <<>> /\ \A n \in Nat \ {0} : g[n] = Longer(g[n - 1])
  <2>1. \A n \in Nat \ {0} : n \in Nat /\ n - 1 \in Nat
    OBVIOUS
  <2> QED BY <1>3, <1>4, <2>1 DEF Recurses
<1>6. g \in [Nat -> S]
  BY <1>4 DEF Recurses
<1>7. g = Body(g)
  <2>1. \A n \in Nat : g[n] = Body(g)[n]
    BY <1>5
  <2> QED BY <1>6, <2>1
<1> DEFINE G == CHOOSE h : h = Body(h)
<1>8. G = Body(G)
  BY <1>7
<1>9. Rounds(steps) = G
  BY DEF Rounds
<1> HIDE DEF G
<1>10. G[0] = <<>>
  BY <1>8
<1>11. \A n \in Nat : G[n + 1] = Longer(G[n])
  <2>1. \A n \in Nat : n + 1 \in Nat /\ n + 1 # 0 /\ (n + 1) - 1 = n
    OBVIOUS
  <2> QED BY <1>8, <2>1
<1>12. \A n \in Nat : G[n] \in S
  <2> DEFINE T == {n \in Nat : G[n] \in S}
  <2>1. 0 \in T
    BY <1>2, <1>10
  <2>2. ASSUME NEW n \in Nat, n \in T
        PROVE  n + 1 \in T
    <3>1. F[<<n, G[n]>>] \in S /\ F[<<n, G[n]>>] = Longer(G[n])
      BY <1>1, <1>3, <2>2
    <3> HIDE DEF Longer
    <3> QED BY <1>11, <3>1
  <2>3. Nat \subseteq T
    <3> HIDE DEF T
    <3> QED BY <2>1, <2>2, SetInduction
  <2> QED BY <2>3
<1> QED BY <1>9, <1>10, <1>11, <1>12 DEF S

\* No group of steps waits for itself.
Loopless(steps) ==
    \A rest \in (SUBSET KeysOf(steps)) \ {{}} : \E k \in rest : WaitsFor(k, steps) \cap rest = {}

LEMMA ReadyWaitForNothing ==
    ASSUME NEW steps, Loopless(steps), NEW done, NEW k \in Ready(done, steps)
    PROVE  WaitsFor(k, steps) \subseteq done
<1> DEFINE rest == KeysOf(steps) \ done
           ready == {j \in rest : WaitsFor(j, steps) \subseteq done}
<1>1. rest # {}
  BY ReadyAreLeft
<1>2. PICK j \in rest : WaitsFor(j, steps) \cap rest = {}
  <2>1. rest \in (SUBSET KeysOf(steps)) \ {{}}
    BY <1>1
  <2> HIDE DEF rest
  <2> QED BY <2>1 DEF Loopless
<1>3. WaitsFor(j, steps) \subseteq KeysOf(steps)
  BY DEF WaitsFor, DependsOn, KeysOf
<1>4. WaitsFor(j, steps) \subseteq done
  BY <1>2, <1>3
<1>5. j \in ready
  BY <1>2, <1>4
<1>6. Ready(done, steps) = ready
  <2>1. Ready(done, steps) =
          IF ready = {} THEN {i \in rest : \A h \in rest : i <= h} ELSE ready
    BY DEF Ready, KeysOf
  <2> HIDE DEF ready, rest
  <2> QED BY <1>5, <2>1
<1> QED BY <1>6

\* The order names each key at most once, and a key after those its step waits for.
Sequenced(s, steps) ==
    /\ s \in Seq(KeysOf(steps)) /\ Distinct(s)
    /\ Loopless(steps) => \A j \in DOMAIN s : WaitsFor(s[j], steps) \subseteq {s[i] : i \in 1 .. j - 1}

LEMMA RoundIsSequenced ==
    ASSUME NEW steps, IsFiniteSet(steps), KeysOf(steps) \subseteq Nat, NEW s, Sequenced(s, steps)
    PROVE  Sequenced(s \o Ascending(Ready(ToSet(s), steps)), steps)
<1> DEFINE K == KeysOf(steps)
           R == Ready(ToSet(s), steps)
           a == Ascending(R)
           t == s \o a
<1>1. R \subseteq K /\ R \cap ToSet(s) = {}
  BY ReadyAreLeft
<1>2. ToSet(s) = {s[i] : i \in DOMAIN s}
  BY DEF ToSet
<1>3. IsFiniteSet(R)
  BY <1>1, FewKeys, FS_Subset
<1>4. \A k \in R : Loopless(steps) => WaitsFor(k, steps) \subseteq ToSet(s)
  BY ReadyWaitForNothing
<1> HIDE DEF R, K
<1>5. a \in Seq(R) /\ Distinct(a)
  <2>1. R \in SUBSET Nat
    BY <1>1 DEF K
  <2> QED BY <1>3, <2>1, AscendingType
<1>6. a \in Seq(K) /\ s \in Seq(K) /\ Distinct(s)
  <2>1. a \in Seq(K)
    <3> HIDE DEF a
    <3> QED BY <1>1, <1>5
  <2> QED BY <2>1 DEF Sequenced, K
<1> HIDE DEF a
<1>7. /\ t \in Seq(K) /\ DOMAIN t = 1 .. Len(s) + Len(a)
      /\ Len(s) \in Nat /\ Len(a) \in Nat /\ DOMAIN s = 1 .. Len(s) /\ DOMAIN a = 1 .. Len(a)
      /\ \A k \in 1 .. Len(s) : t[k] = s[k]
      /\ \A k \in Len(s) + 1 .. Len(s) + Len(a) : t[k] = a[k - Len(s)]
  BY <1>6, Concatenation
<1> HIDE DEF t
<1>8. ASSUME NEW j \in DOMAIN t
      PROVE  \/ j \in DOMAIN s /\ t[j] = s[j] /\ t[j] \in ToSet(s)
             \/ j \notin DOMAIN s /\ j - Len(s) \in DOMAIN a /\ t[j] = a[j - Len(s)] /\ t[j] \in R
  <2>1. CASE j \in 1 .. Len(s)
    BY <1>2, <1>7, <2>1
  <2>2. CASE j \notin 1 .. Len(s)
    <3>1. j \in Len(s) + 1 .. Len(s) + Len(a) /\ j - Len(s) \in 1 .. Len(a)
      BY <1>7, <2>2
    <3>2. a[j - Len(s)] \in R
      BY <1>5, <3>1
    <3> QED BY <1>7, <2>2, <3>1, <3>2
  <2> QED BY <2>1, <2>2
<1>9. Distinct(t)
  <2>1. SUFFICES ASSUME NEW i \in DOMAIN t, NEW j \in DOMAIN t, t[i] = t[j]
                 PROVE  i = j
    BY DEF Distinct
  <2>2. i \in Nat /\ j \in Nat
    BY <1>7
  <2>3. CASE i \in DOMAIN s
    <3>1. j \in DOMAIN s
      BY <1>1, <1>8, <2>1, <2>3
    <3> QED BY <1>6, <1>8, <2>1, <2>3, <3>1 DEF Distinct
  <2>4. CASE i \notin DOMAIN s
    <3>1. j \notin DOMAIN s
      BY <1>1, <1>8, <2>1, <2>4
    <3>2. i - Len(s) = j - Len(s)
      BY <1>5, <1>8, <2>1, <2>4, <3>1 DEF Distinct
    <3> QED BY <1>7, <2>2, <3>2
  <2> QED BY <2>3, <2>4
<1>10. ASSUME Loopless(steps), NEW j \in DOMAIN t
       PROVE  WaitsFor(t[j], steps) \subseteq {t[i] : i \in 1 .. j - 1}
  <2>1. CASE j \in DOMAIN s
    <3>1. WaitsFor(s[j], steps) \subseteq {s[i] : i \in 1 .. j - 1}
      BY <1>10, <2>1 DEF Sequenced
    <3>2. \A i \in 1 .. j - 1 : t[i] = s[i]
      BY <1>7, <2>1
    <3> QED BY <1>8, <2>1, <3>1, <3>2
  <2>2. CASE j \notin DOMAIN s
    <3>1. WaitsFor(t[j], steps) \subseteq ToSet(s)
      BY <1>4, <1>8, <1>10, <2>2
    <3>2. \A i \in DOMAIN s : i \in 1 .. j - 1 /\ s[i] = t[i]
      BY <1>7, <2>2
    <3> QED BY <1>2, <3>1, <3>2
  <2> QED BY <2>1, <2>2
<1>11. Sequenced(t, steps)
  BY <1>7, <1>9, <1>10 DEF Sequenced, K
<1> QED BY <1>11 DEF t, a, R

LEMMA OrderedIsSequenced ==
    ASSUME NEW steps, IsFiniteSet(steps), KeysOf(steps) \subseteq Nat
    PROVE  Sequenced(Ordered(steps), steps)
<1> DEFINE r == Rounds(steps)
           T == {n \in Nat : Sequenced(r[n], steps)}
<1>1. 0 \in T
  <2>1. r[0] = <<>>
    BY RoundsDef
  <2>2. <<>> \in Seq(KeysOf(steps)) /\ \A i \in DOMAIN <<>> : FALSE
    OBVIOUS
  <2>3. Sequenced(<<>>, steps)
    BY <2>2 DEF Sequenced, Distinct
  <2> HIDE DEF r
  <2> QED BY <2>1, <2>3
<1>2. ASSUME NEW n \in Nat, n \in T
      PROVE  n + 1 \in T
  <2>1. r[n + 1] = r[n] \o Ascending(Ready(ToSet(r[n]), steps))
    BY RoundsDef
  <2>2. Sequenced(r[n], steps)
    BY <1>2
  <2> HIDE DEF r
  <2>3. Sequenced(r[n] \o Ascending(Ready(ToSet(r[n]), steps)), steps)
    BY <2>2, RoundIsSequenced
  <2>4. Sequenced(r[n + 1], steps)
    BY <2>1, <2>3
  <2> QED BY <2>4
<1>3. Nat \subseteq T
  <2> HIDE DEF T
  <2> QED BY <1>1, <1>2, SetInduction
<1> QED BY <1>3, FS_CardinalityType DEF Ordered

\* Each round takes a step that is left, so after as many rounds as there are steps
\* none is.
LEMMA OrderIsComplete ==
    ASSUME NEW steps, IsFiniteSet(steps), KeysOf(steps) \subseteq Nat
    PROVE  ToSet(Ordered(steps)) = KeysOf(steps)
<1> DEFINE K == KeysOf(steps)
           r == Rounds(steps)
           T == {n \in Nat : ToSet(r[n]) = K \/ n <= Cardinality(ToSet(r[n]))}
<1>1. ASSUME NEW n \in Nat
      PROVE  /\ r[n] \in Seq(K) /\ ToSet(r[n]) \subseteq K
             /\ IsFiniteSet(ToSet(r[n])) /\ Cardinality(ToSet(r[n])) \in Nat
  <2>1. r[n] \in Seq(K)
    BY RoundsDef
  <2>2. ToSet(r[n]) \subseteq K
    <3> HIDE DEF K, r
    <3> QED BY <2>1 DEF ToSet
  <2>3. IsFiniteSet(K)
    BY FewKeys
  <2>4. IsFiniteSet(ToSet(r[n]))
    BY <2>2, <2>3, FS_Subset
  <2> QED BY <2>1, <2>2, <2>4, FS_CardinalityType
<1>2. 0 \in T
  BY <1>1
<1>3. ASSUME NEW n \in Nat, n \in T
      PROVE  n + 1 \in T
  <2> DEFINE done == ToSet(r[n])
             R == Ready(done, steps)
             more == ToSet(r[n + 1])
  <2>1. r[n + 1] = r[n] \o Ascending(R)
    BY RoundsDef
  <2>2. R \subseteq K \ done
    BY ReadyAreLeft
  <2>3. R \in SUBSET Nat /\ IsFiniteSet(R)
    <3>1. R \subseteq K
      BY <2>2
    <3> HIDE DEF R
    <3> QED BY <3>1, FewKeys, FS_Subset
  <2>4. more = done \cup ToSet(Ascending(R))
    <3>1. Ascending(R) \in Seq(R)
      BY <2>3, AscendingType
    <3>2. Ascending(R) \in Seq(K)
      <4> HIDE DEF R
      <4> QED BY <2>2, <3>1
    <3> DEFINE a == r[n]
               b == Ascending(R)
    <3>3. a \in Seq(K) /\ b \in Seq(K)
      BY <1>1, <3>2
    <3> HIDE DEF a, b, K
    <3>4. ToSet(a \o b) = ToSet(a) \cup ToSet(b)
      <4>1. /\ DOMAIN (a \o b) = 1 .. Len(a) + Len(b) /\ Len(a) \in Nat /\ Len(b) \in Nat
            /\ DOMAIN a = 1 .. Len(a) /\ DOMAIN b = 1 .. Len(b)
            /\ \A k \in 1 .. Len(a) : (a \o b)[k] = a[k]
            /\ \A k \in Len(a) + 1 .. Len(a) + Len(b) : (a \o b)[k] = b[k - Len(a)]
        BY <3>3, Concatenation
      <4> DEFINE c == a \o b
      <4> HIDE DEF c
      <4>2. /\ DOMAIN c = 1 .. Len(a) + Len(b) /\ \A k \in 1 .. Len(a) : c[k] = a[k]
            /\ \A k \in Len(a) + 1 .. Len(a) + Len(b) : c[k] = b[k - Len(a)]
        BY <4>1 DEF c
      <4>3. \A k \in DOMAIN c : c[k] \in ToSet(a) \cup ToSet(b)
        <5>1. SUFFICES ASSUME NEW k \in DOMAIN c
                       PROVE  c[k] \in ToSet(a) \cup ToSet(b)
          OBVIOUS
        <5>2. CASE k \in 1 .. Len(a)
          BY <4>1, <4>2, <5>2 DEF ToSet
        <5>3. CASE k \notin 1 .. Len(a)
          <6>1. k \in Len(a) + 1 .. Len(a) + Len(b) /\ k - Len(a) \in 1 .. Len(b)
            BY <4>1, <4>2, <5>3
          <6> QED BY <4>1, <4>2, <6>1 DEF ToSet
        <5> QED BY <5>2, <5>3
      <4>4. \A k \in DOMAIN a : k \in DOMAIN c /\ c[k] = a[k]
        BY <4>1, <4>2
      <4>5. \A k \in DOMAIN b : k + Len(a) \in DOMAIN c /\ c[k + Len(a)] = b[k]
        <5>1. SUFFICES ASSUME NEW k \in DOMAIN b
                       PROVE  k + Len(a) \in DOMAIN c /\ c[k + Len(a)] = b[k]
          OBVIOUS
        <5>2. k + Len(a) \in Len(a) + 1 .. Len(a) + Len(b) /\ (k + Len(a)) - Len(a) = k
          BY <4>1
        <5> QED BY <4>1, <4>2, <5>2
      <4>6. ToSet(c) = ToSet(a) \cup ToSet(b)
        BY <4>3, <4>4, <4>5 DEF ToSet
      <4> QED BY <4>6 DEF c
    <3> QED BY <2>1, <3>4 DEF a, b
  <2>5. more \subseteq K
    BY <1>1
  <2>6. CASE done = K
    BY <2>4, <2>5, <2>6
  <2>7. CASE done # K
    <3>1. PICK k \in K \ done : \A j \in K \ done : k <= j
      <4>1. K \ done # {} /\ K \ done \subseteq Nat
        BY <1>1, <2>7
      <4> HIDE DEF K, done
      <4> QED BY <4>1, LeastNatural
    <3>2. R # {}
      BY <3>1 DEF Ready, KeysOf
    <3>3. PICK x \in R : x \in ToSet(Ascending(R))
      BY <2>3, <3>2, AscendingType
    <3>4. x \notin done /\ done \cup {x} \subseteq more
      BY <2>2, <2>4, <3>3
    <3>5. n <= Cardinality(done)
      BY <1>3, <2>7
    <3>6. IsFiniteSet(done) /\ Cardinality(done) \in Nat /\ IsFiniteSet(more) /\ Cardinality(more) \in Nat
      BY <1>1
    <3> HIDE DEF done, more, R, K
    <3>7. Cardinality(done \cup {x}) = Cardinality(done) + 1
      BY <3>4, <3>6, FS_AddElement
    <3>8. Cardinality(done \cup {x}) <= Cardinality(more)
      BY <3>4, <3>6, FS_Subset
    <3>9. n + 1 <= Cardinality(more)
      BY <3>5, <3>6, <3>7, <3>8
    <3> QED BY <3>9 DEF more
  <2> QED BY <2>6, <2>7
<1>4. Nat \subseteq T
  <2> HIDE DEF T
  <2> QED BY <1>2, <1>3, SetInduction
<1> DEFINE N == Cardinality(steps)
<1>5. N \in Nat /\ Ordered(steps) = r[N]
  BY FS_CardinalityType DEF Ordered
<1>6. ToSet(r[N]) = K \/ N <= Cardinality(ToSet(r[N]))
  BY <1>4, <1>5
<1>7. IsFiniteSet(K) /\ Cardinality(K) <= N /\ Cardinality(K) \in Nat
  BY FewKeys, FS_CardinalityType
<1>8. ToSet(r[N]) \subseteq K /\ Cardinality(ToSet(r[N])) \in Nat
  BY <1>1, <1>5
<1>9. ToSet(r[N]) = K
  <2> HIDE DEF K, r, N
  <2>1. CASE N <= Cardinality(ToSet(r[N]))
    <3>1. Cardinality(ToSet(r[N])) <= Cardinality(K)
      BY <1>7, <1>8, FS_Subset
    <3>2. Cardinality(ToSet(r[N])) = Cardinality(K)
      BY <1>5, <1>7, <1>8, <2>1, <3>1
    <3> QED BY <1>7, <1>8, <3>2, FS_Subset
  <2> QED BY <1>6, <2>1
<1> QED BY <1>5, <1>9

-----------------------------------------------------------------------------
(* What is registered.                                                      *)

StockInv == /\ GraphInv
            /\ schemas \subseteq Drafts /\ recipes \subseteq Recipes
            /\ IsFiniteSet(schemas) /\ IsFiniteSet(recipes)

LEMMA StockInit == InitRegistry => StockInv
BY GraphInit, RegistryAssumption DEF InitRegistry, StockInv

LEMMA StockStep == StockInv /\ [RegisterAny]_registry => StockInv'
<1> SUFFICES ASSUME StockInv, [RegisterAny]_registry
             PROVE  StockInv'
  OBVIOUS
<1>1. GraphInv'
  BY GraphStep DEF StockInv
<1>2. CASE UNCHANGED <<schemas, recipes>>
  BY <1>1, <1>2 DEF StockInv
<1>3. ASSUME NEW d \in Drafts, RegisterSchema(d)
      PROVE  StockInv'
  BY <1>1, <1>3, FS_AddElement DEF StockInv, RegisterSchema
<1>4. ASSUME NEW r \in Recipes, RegisterRecipe(r)
      PROVE  StockInv'
  BY <1>1, <1>4, FS_AddElement DEF StockInv, RegisterRecipe
<1> QED BY <1>2, <1>3, <1>4 DEF RegisterAny, RegisterMigration, registry

Versions == {d.ref : d \in Drafts}

LEMMA SchemaOfARef ==
    ASSUME StockInv, NEW ref, HasSchema(ref)
    PROVE  /\ ref \in Versions /\ ref \in Nat \ {0} /\ ref \in Refs
           /\ \A f \in Fields : Schema(ref).fields[f] \in FieldDefs
<1>1. Schema(ref) \in schemas /\ Schema(ref).ref = ref
  BY DEF HasSchema, Schema
<1>2. Schema(ref) \in Drafts
  BY <1>1 DEF StockInv
<1>3. Schema(ref).fields \in [Fields -> FieldDefs] /\ Schema(ref).ref \in Nat \ {0}
  BY <1>2, RegistryAssumption
<1> QED BY <1>1, <1>2, <1>3 DEF Versions, Refs

LEMMA EligibleTypes ==
    ASSUME StockInv
    PROVE  /\ IsFiniteSet(Eligible) /\ Eligible \subseteq Upgrades /\ Upgrades \subseteq migrations
           /\ IsFiniteSet(Upgrades) /\ migrations \subseteq Catalogue
<1>1. Eligible \subseteq Upgrades /\ Upgrades \subseteq migrations /\ migrations \subseteq Catalogue
  BY DEF StockInv, GraphInv, Eligible, Upgrades
<1> QED BY <1>1, SomeAreFinite

-----------------------------------------------------------------------------
(* Where a path leads.                                                      *)

LEMMA LevelsReachable ==
    ASSUME NEW ref, NEW among, IsFiniteSet(among)
    PROVE  \A n \in Nat : Levels(ref, among)[n] \subseteq Reachable(ref, among)
BY LevelsLeast, ReachedFromItself, ReachedOnward

LEMMA PathsLead ==
    ASSUME StockInv, NEW from, NEW to, Paths(from, to) # {}
    PROVE  to \in Reachable(from, Upgrades)
<1>1. to \in Levels(from, Eligible)[Preference.hops + 1]
  BY PathsComplete
<1>2. Preference.hops + 1 \in Nat
  BY RegistryAssumption
<1>3. to \in Reachable(from, Eligible)
  BY <1>1, <1>2, EligibleTypes, LevelsReachable
<1> QED BY <1>3, EligibleTypes, ReachedByMore

\* From another version one gets to, there is no way back.
LEMMA NoWayBack ==
    ASSUME NEW among, IsFiniteSet(among), Acyclic(among), NEW from, NEW to, from # to,
           to \in Reachable(from, among)
    PROVE  from \notin Reachable(to, among)
<1> DEFINE C == {from} \cup UNION {Reachable(m.to, among) : m \in {m \in among : m.from = from}}
<1>1. \A m \in among : m.from \in C => m.to \in C
  <2>1. SUFFICES ASSUME NEW m \in among, m.from \in C
                 PROVE  m.to \in C
    OBVIOUS
  <2>2. CASE m.from = from
    BY <2>2, ReachedFromItself
  <2>3. CASE m.from # from
    <3>1. PICK u \in among : u.from = from /\ m.from \in Reachable(u.to, among)
      BY <2>1, <2>3
    <3>2. m.to \in Reachable(u.to, among)
      BY <3>1, ReachedOnward
    <3> QED BY <3>1, <3>2
  <2> QED BY <2>2, <2>3
<1>2. from \in C
  OBVIOUS
<1>3. to \in C
  <2> HIDE DEF C
  <2> QED BY <1>1, <1>2, ReachedLeast
<1>4. PICK u \in among : u.from = from /\ to \in Reachable(u.to, among)
  BY <1>3
<1>5. Reachable(to, among) \subseteq Reachable(u.to, among)
  BY <1>4, ReachedTransitively
<1> QED BY <1>4, <1>5 DEF Acyclic

-----------------------------------------------------------------------------
(* The store.                                                               *)

Deps == {"field_def", "recipe", "step", "transform", "source", "dep"} \X (Fields \cup {""}) \X Nat
Artifacts ==
    [value : Values, status : {"present", "review"}, by : {"machine", "import", "person"},
     deps : SUBSET Deps, recipe : Nat, accepted : Nat, lineage : SUBSET (Fields \X Nat)]

StoreInv ==
    /\ history \in [Fields -> Seq(Artifacts)]
    /\ world.source \in 1 .. upsets + 1 /\ world.code \in 1 .. upsets + 1
    /\ world = [source |-> world.source, code |-> world.code]
    /\ upsets \in 0 .. MaxUpsets

LEMMA HistoryTypes ==
    ASSUME StoreInv, NEW f \in Fields
    PROVE  /\ history[f] \in Seq(Artifacts) /\ Newest(f) \in Nat
           /\ DOMAIN history[f] = 1 .. Newest(f)
           /\ \A k \in 1 .. Newest(f) : history[f][k] \in Artifacts
BY DEF StoreInv, Newest

LEMMA ValueTypes ==
    ASSUME StoreInv, NEW f \in Fields, NEW k \in 0 .. Newest(f)
    PROVE  ValueAt(f, k) \in Values \cup {Absent} /\ ValueAt(f, k) \in Nat /\ HashAt(f, k) \in Nat
<1>1. Values \subseteq Nat
  BY PlannerAssumption
<1>2. CASE k = 0
  BY <1>1, <1>2 DEF ValueAt, HashAt, Absent
<1>3. CASE k # 0
  <2>1. k \in 1 .. Newest(f)
    BY <1>3, HistoryTypes
  <2>2. history[f][k] \in Artifacts
    BY <2>1, HistoryTypes
  <2>3. ValueAt(f, k) \in Values
    BY <1>3, <2>2 DEF ValueAt, Artifacts
  <2>4. ValueAt(f, k) \in Nat
    BY <1>1, <2>3
  <2> QED BY <2>3, <2>4 DEF HashAt
<1> QED BY <1>2, <1>3

\* An artifact that is put is at its place, and every other stays where it was.
LEMMA PutKeeps ==
    ASSUME StoreInv, NEW f \in Fields, NEW a \in Artifacts
    PROVE  /\ Put(f, a) \in Seq(Artifacts) /\ Len(Put(f, a)) \in Nat /\ Newest(f) <= Len(Put(f, a))
           /\ Place(f, a) \in 1 .. Len(Put(f, a)) /\ Put(f, a)[Place(f, a)] = a
           /\ \A k \in 1 .. Newest(f) : Put(f, a)[k] = history[f][k]
<1>1. history[f] \in Seq(Artifacts) /\ Newest(f) \in Nat /\ Newest(f) = Len(history[f])
      /\ DOMAIN history[f] = 1 .. Newest(f)
  BY HistoryTypes DEF Newest
<1>2. CASE \E k \in DOMAIN history[f] : history[f][k] = a
  <2>1. Place(f, a) \in DOMAIN history[f] /\ history[f][Place(f, a)] = a
    BY <1>2 DEF Place
  <2>2. Put(f, a) = history[f]
    BY <2>1 DEF Put
  <2> QED BY <1>1, <2>1, <2>2
<1>3. CASE ~(\E k \in DOMAIN history[f] : history[f][k] = a)
  <2>1. Place(f, a) = Newest(f) + 1
    BY <1>1, <1>3 DEF Place
  <2>2. Put(f, a) = Append(history[f], a)
    BY <1>1, <2>1 DEF Put
  <2> QED BY <1>1, <2>1, <2>2
<1> QED BY <1>2, <1>3

-----------------------------------------------------------------------------
(* The steps of a plan.                                                     *)

LEMMA StepTypes ==
    ASSUME NEW m \in Catalogue, NEW s \in m.steps
    PROVE  /\ s \in StepDecls /\ s.reads \subseteq Fields /\ s.writes \subseteq Fields /\ s.writes # {}
           /\ s.id \in Nat /\ s.id < 10 /\ s.recipe \in Nat /\ m.id \in Nat /\ Key2(m, s) \in Nat
<1>1. s \in StepDecls /\ s.id < 10 /\ m.id \in Nat
  BY CatalogueTypes, PlannerAssumption
<1>2. s.reads \subseteq Fields /\ s.writes \subseteq Fields /\ s.writes # {} /\ s.id \in Nat /\ s.recipe \in Nat
  BY <1>1 DEF StepDecls
<1>3. Key2(m, s) \in Nat
  BY <1>1, <1>2 DEF Key2
<1> QED BY <1>1, <1>2, <1>3

\* A key is of one step.
LEMMA KeysDiffer ==
    ASSUME NEW m \in Catalogue, NEW s \in m.steps, NEW t \in m.steps, Key2(m, s) = Key2(m, t)
    PROVE  s = t
<1>1. s.id \in Nat /\ t.id \in Nat /\ m.id \in Nat
  BY StepTypes
<1>2. s.id = t.id
  BY <1>1 DEF Key2
<1>3. WellFormed(m)
  BY RegistryAssumption
<1> QED BY <1>2, <1>3 DEF WellFormed

LEMMA TripleTypes ==
    ASSUME NEW kind \in {"field_def", "recipe", "step", "transform", "source", "dep"},
           NEW f \in Fields \cup {""}, NEW n \in Nat
    PROVE  <<kind, f, n>> \in Deps
BY DEF Deps

LEMMA RecipeDepsTypes ==
    ASSUME NEW r \in Nat
    PROVE  RecipeDeps(r) \in SUBSET Deps
<1>1. RecipeHash(r) \in Nat
  BY DEF RecipeHash
<1> QED BY <1>1, TripleTypes DEF RecipeDeps

LEMMA DefDepsTypes ==
    ASSUME StockInv, NEW ref, HasSchema(ref), NEW fs \in SUBSET Fields
    PROVE  DefDeps(ref, fs) \in SUBSET Deps
<1>1. ASSUME NEW f \in fs
      PROVE  <<"field_def", f, DefHash(Schema(ref).fields[f])>> \in Deps
  <2>1. Schema(ref).fields[f] \in FieldDefs
    BY SchemaOfARef
  <2>2. DefHash(Schema(ref).fields[f]) \in Nat
    BY <2>1 DEF FieldDefs, DefHash
  <2> QED BY <2>2, TripleTypes
<1> QED BY <1>1 DEF DefDeps

LEMMA FieldDepsTypes ==
    ASSUME StockInv, NEW ref, HasSchema(ref), NEW f \in Fields
    PROVE  FieldDeps(ref, f) \in SUBSET Deps /\ Schema(ref).fields[f].recipe \in Nat
<1>1. Schema(ref).fields[f].recipe \in Nat
  BY SchemaOfARef DEF FieldDefs
<1>2. DefDeps(ref, {f}) \in SUBSET Deps
  BY DefDepsTypes
<1>3. RecipeDeps(Schema(ref).fields[f].recipe) \in SUBSET Deps
  BY <1>1, RecipeDepsTypes
<1> QED BY <1>1, <1>2, <1>3 DEF FieldDeps

LEMMA StepDepsTypes ==
    ASSUME StockInv, StoreInv, NEW m \in Catalogue, NEW s \in m.steps, NEW ref, HasSchema(ref)
    PROVE  /\ StepDeps(m, s, ref) \in SUBSET Deps
           /\ \A d \in StepDeps(m, s, ref) : d[1] = "dep" => d[2] \in Inputs(s)
           /\ \A g \in Inputs(s) : \E d \in StepDeps(m, s, ref) : d[1] = "dep" /\ d[2] = g
<1> DEFINE f == CHOOSE f \in s.writes : TRUE
           r == IF s.recipe \in recipes THEN s.recipe ELSE Schema(ref).fields[f].recipe
           own == {<<"step", "", Key2(m, s)>>}
           code == IF s.kind = "transform" THEN {<<"transform", "", world.code>>} ELSE {}
           source == IF s.source THEN {<<"source", "", world.source>>} ELSE {}
           read == {<<"dep", g, HashAt(g, Newest(g))>> : g \in Inputs(s)}
<1>1. StepDeps(m, s, ref) = DefDeps(ref, s.writes) \cup RecipeDeps(r) \cup own \cup code \cup source \cup read
  BY DEF StepDeps
<1>2. DefDeps(ref, s.writes) \in SUBSET Deps /\ \A d \in DefDeps(ref, s.writes) : d[1] = "field_def"
  <2>1. s.writes \in SUBSET Fields
    BY StepTypes
  <2> QED BY <2>1, DefDepsTypes DEF DefDeps
<1>3. RecipeDeps(r) \in SUBSET Deps /\ \A d \in RecipeDeps(r) : d[1] = "recipe"
  <2>1. f \in Fields
    BY StepTypes
  <2>2. Schema(ref).fields[f].recipe \in Nat /\ s.recipe \in Nat
    <3> HIDE DEF f
    <3> QED BY <2>1, StepTypes, FieldDepsTypes
  <2>3. r \in Nat
    <3> HIDE DEF f
    <3> QED BY <2>2
  <2> HIDE DEF r
  <2>4. RecipeDeps(r) \in SUBSET Deps
    BY <2>3, RecipeDepsTypes
  <2>5. RecipeDeps(r) \subseteq {<<"recipe", "", RecipeHash(r)>>}
    BY DEF RecipeDeps
  <2>6. \A d \in RecipeDeps(r) : d[1] = "recipe"
    <3>1. <<"recipe", "", RecipeHash(r)>>[1] = "recipe"
      OBVIOUS
    <3> QED BY <2>5, <3>1
  <2> QED BY <2>4, <2>6
<1>4. own \in SUBSET Deps /\ \A d \in own : d[1] = "step"
  <2>1. Key2(m, s) \in Nat
    BY StepTypes
  <2>2. <<"step", "", Key2(m, s)>> \in Deps
    BY <2>1, TripleTypes
  <2>3. \A d \in own : d[1] = "step"
    <3>1. \A d \in own : d = <<"step", "", Key2(m, s)>>
      OBVIOUS
    <3>2. <<"step", "", Key2(m, s)>>[1] = "step"
      OBVIOUS
    <3> HIDE DEF own
    <3> QED BY <3>1, <3>2
  <2> QED BY <2>2, <2>3
<1>5. world.code \in Nat /\ world.source \in Nat
  BY DEF StoreInv
<1>6. code \in SUBSET Deps /\ \A d \in code : d[1] = "transform"
  <2>1. <<"transform", "", world.code>> \in Deps
    BY <1>5, TripleTypes
  <2>2. code \subseteq {<<"transform", "", world.code>>}
    OBVIOUS
  <2> HIDE DEF code
  <2>3. \A d \in code : d[1] = "transform"
    <3>1. \A d \in code : d = <<"transform", "", world.code>>
      BY <2>2
    <3>2. <<"transform", "", world.code>>[1] = "transform"
      OBVIOUS
    <3> HIDE DEF code
    <3> QED BY <3>1, <3>2
  <2> QED BY <2>1, <2>2, <2>3
<1>7. source \in SUBSET Deps /\ \A d \in source : d[1] = "source"
  <2>1. <<"source", "", world.source>> \in Deps
    BY <1>5, TripleTypes
  <2>2. source \subseteq {<<"source", "", world.source>>}
    OBVIOUS
  <2> HIDE DEF source
  <2>3. \A d \in source : d[1] = "source"
    <3>1. \A d \in source : d = <<"source", "", world.source>>
      BY <2>2
    <3>2. <<"source", "", world.source>>[1] = "source"
      OBVIOUS
    <3> HIDE DEF source
    <3> QED BY <3>1, <3>2
  <2> QED BY <2>1, <2>2, <2>3
<1>8. /\ read \in SUBSET Deps /\ \A d \in read : d[1] = "dep" /\ d[2] \in Inputs(s)
      /\ \A g \in Inputs(s) : \E d \in read : d[1] = "dep" /\ d[2] = g
  <2>1. ASSUME NEW g \in Inputs(s)
        PROVE  <<"dep", g, HashAt(g, Newest(g))>> \in Deps
    <3>1. g \in Fields
      BY StepTypes DEF Inputs
    <3>2. Newest(g) \in 0 .. Newest(g)
      BY <3>1, HistoryTypes
    <3>3. HashAt(g, Newest(g)) \in Nat
      BY <3>1, <3>2, ValueTypes
    <3> QED BY <3>1, <3>3, TripleTypes
  <2>2. read \in SUBSET Deps
    BY <2>1
  <2>3. \A d \in read : \E g \in Inputs(s) : d = <<"dep", g, HashAt(g, Newest(g))>>
    OBVIOUS
  <2>4. \A g \in Inputs(s) : <<"dep", g, HashAt(g, Newest(g))>> \in read
    OBVIOUS
  <2>5. \A g \in Inputs(s) : <<"dep", g, HashAt(g, Newest(g))>>[1] = "dep"
                              /\ <<"dep", g, HashAt(g, Newest(g))>>[2] = g
    OBVIOUS
  <2> HIDE DEF read
  <2> QED BY <2>2, <2>3, <2>4, <2>5
<1> HIDE DEF f, r, own, code, source, read
<1>9. StepDeps(m, s, ref) \in SUBSET Deps
  BY <1>1, <1>2, <1>3, <1>4, <1>6, <1>7, <1>8
<1>10. \A d \in StepDeps(m, s, ref) : d[1] = "dep" => d \in read
  BY <1>1, <1>2, <1>3, <1>4, <1>6, <1>7
<1>11. read \subseteq StepDeps(m, s, ref)
  BY <1>1
<1> QED BY <1>8, <1>9, <1>10, <1>11

Linked(p, s) ==
    /\ \A d \in p.deps : d[1] = "dep" => d[2] \in Inputs(s)
    /\ p.disposition # "blocked" => \A g \in Inputs(s) : \E d \in p.deps : d[1] = "dep" /\ d[2] = g

\* What every step of a plan is, whatever happens later.
PlanSteps ==
    {p \in [key : Nat, migration : Nat, step : StepDecls, deps : SUBSET Deps,
            question : Nat \X Versions \X (SUBSET Deps) \X Nat, disposition : Dispositions] :
        /\ \E m \in Catalogue : \E s \in m.steps : p.key = Key2(m, s) /\ p.step = s
        /\ p.disposition = "deterministic" => p.step.kind = "transform"}

LEMMA DispositionTypes ==
    ASSUME NEW m, NEW s, NEW ref, NEW deps
    PROVE  /\ Disposition(m, s, ref, deps) \in Dispositions
           /\ Disposition(m, s, ref, deps) = "deterministic" => s.kind = "transform"
<1>1. SemanticDisposition(m, s, ref, deps) \in {"blocked", "review", "cached", "semantic"}
  BY PlannerAssumption DEF SemanticDisposition
<1> QED BY <1>1 DEF Disposition, Dispositions

LEMMA PlanStepShape ==
    ASSUME StockInv, StoreInv, NEW m \in Catalogue, NEW s \in m.steps, NEW target, HasSchema(target)
    PROVE  LET p == PlanStep(m, s, target) IN
           /\ p \in PlanSteps /\ p.key = Key2(m, s) /\ p.step = s /\ p.migration = m.id /\ Linked(p, s)
<1> DEFINE p == PlanStep(m, s, target)
           ref == IF HasSchema(m.to) THEN m.to ELSE target
           missing == \E f \in s.writes : ~Defined(ref, f)
           deps == IF missing THEN {} ELSE StepDeps(m, s, ref)
           ask == Question(m, s, ref, deps)
           way == IF missing THEN "blocked" ELSE Disposition(m, s, ref, deps)
           kept == IF Unlinked(s, way) THEN {} ELSE deps
<1>1. HasSchema(ref) /\ ref \in Versions
  <2>1. HasSchema(ref)
    OBVIOUS
  <2> HIDE DEF ref
  <2> QED BY <2>1, SchemaOfARef
<1>2. p = [key |-> Key2(m, s), migration |-> m.id, step |-> s, deps |-> kept, question |-> ask,
           disposition |-> way]
  BY DEF PlanStep
<1> HIDE DEF ref, missing
<1>3. deps \in SUBSET Deps /\ \A d \in deps : d[1] = "dep" => d[2] \in Inputs(s)
  <2>1. CASE missing
    BY <2>1
  <2>2. CASE ~missing
    BY <1>1, <2>2, StepDepsTypes
  <2> QED BY <2>1, <2>2
<1>4. ~missing => \A g \in Inputs(s) : \E d \in deps : d[1] = "dep" /\ d[2] = g
  BY <1>1, StepDepsTypes
<1> HIDE DEF deps
<1>5. way \in Dispositions /\ (way = "deterministic" => s.kind = "transform") /\ (way # "blocked" => ~missing)
  BY DispositionTypes DEF Dispositions
<1>6. Key2(m, s) \in Nat /\ m.id \in Nat /\ s \in StepDecls
  BY StepTypes
<1>7. ask \in Nat \X Versions \X (SUBSET Deps) \X Nat
  <2>1. world.source \in Nat
    BY DEF StoreInv
  <2> QED BY <1>1, <1>3, <1>6, <2>1 DEF Question
<1>8. kept \subseteq deps /\ (way # "blocked" => kept = deps)
  BY DEF Unlinked
<1> HIDE DEF ask, way, kept, p
<1>9. p.key = Key2(m, s) /\ p.step = s /\ p.migration = m.id /\ p.deps = kept /\ p.disposition = way
  BY <1>2
<1>10. p \in PlanSteps
  <2>1. kept \in SUBSET Deps
    BY <1>3, <1>8
  <2> QED BY <1>2, <1>5, <1>6, <1>7, <2>1 DEF PlanSteps
<1>11. Linked(p, s)
  BY <1>3, <1>4, <1>5, <1>8, <1>9 DEF Linked
<1> QED BY <1>9, <1>10, <1>11 DEF p

StepsOf(path, target) == UNION {{PlanStep(m, s, target) : s \in m.steps} : m \in ToSet(path)}

LEMMA StepsOfAPath ==
    ASSUME StockInv, StoreInv, NEW target, HasSchema(target), NEW path \in Seq(Catalogue)
    PROVE  /\ IsFiniteSet(StepsOf(path, target)) /\ StepsOf(path, target) \subseteq PlanSteps
           /\ KeysOf(StepsOf(path, target)) \subseteq Nat
<1> DEFINE Of(m) == {PlanStep(m, s, target) : s \in m.steps}
           ms == ToSet(path)
           sets == {Of(m) : m \in ms}
<1>1. ms \subseteq Catalogue /\ IsFiniteSet(ms)
  <2> DEFINE n == Len(path)
  <2>1. n \in Nat /\ DOMAIN path = 1 .. n /\ \A k \in 1 .. n : path[k] \in Catalogue
    OBVIOUS
  <2>2. ms = {path[k] : k \in 1 .. n}
    BY <2>1 DEF ToSet
  <2>3. path \in Surjection(1 .. n, ms)
    <3>1. path \in [1 .. n -> ms]
      BY <2>1, <2>2
    <3> HIDE DEF ms, n
    <3> QED BY <2>2, <3>1 DEF Surjection
  <2>4. IsFiniteSet(1 .. n)
    BY <2>1, FS_Interval
  <2> HIDE DEF ms, n
  <2> QED BY <2>1, <2>2, <2>3, <2>4, FS_Surjection
<1>2. ASSUME NEW m \in ms
      PROVE  IsFiniteSet(Of(m)) /\ Of(m) \subseteq PlanSteps
  <2>1. m \in Catalogue
    BY <1>1
  <2>2. IsFiniteSet(m.steps)
    BY <2>1, RegistryAssumption
  <2> DEFINE f == [s \in m.steps |-> PlanStep(m, s, target)]
  <2>3. f \in Surjection(m.steps, Of(m))
    BY DEF Surjection
  <2>4. IsFiniteSet(Of(m))
    <3> HIDE DEF f, Of
    <3> QED BY <2>2, <2>3, FS_Surjection
  <2>5. \A s \in m.steps : PlanStep(m, s, target) \in PlanSteps
    BY <2>1, PlanStepShape
  <2> QED BY <2>4, <2>5
<1>3. IsFiniteSet(sets)
  <2> DEFINE f == [m \in ms |-> Of(m)]
  <2>1. f \in Surjection(ms, sets)
    BY DEF Surjection
  <2> HIDE DEF f, sets, ms
  <2> QED BY <1>1, <2>1, FS_Surjection
<1>4. \A set \in sets : IsFiniteSet(set) /\ set \subseteq PlanSteps
  <2> HIDE DEF Of, ms
  <2> QED BY <1>2
<1>5. StepsOf(path, target) = UNION sets
  BY DEF StepsOf
<1>6. IsFiniteSet(UNION sets) /\ UNION sets \subseteq PlanSteps
  <2> HIDE DEF sets
  <2> QED BY <1>3, <1>4, FS_UNION
<1>7. \A p \in PlanSteps : p.key \in Nat
  BY DEF PlanSteps
<1> HIDE DEF sets
<1> QED BY <1>5, <1>6, <1>7 DEF KeysOf

StepOf(key, steps) == CHOOSE p \in steps : p.key = key

LEMMA StepOfAKey ==
    ASSUME NEW steps, NEW key \in KeysOf(steps)
    PROVE  StepOf(key, steps) \in steps /\ StepOf(key, steps).key = key
BY DEF StepOf, KeysOf

\* The steps of a plan along one migration are the steps of it.
LEMMA OneMigration ==
    ASSUME StockInv, StoreInv, NEW target, HasSchema(target), NEW path \in Seq(Eligible),
           Cardinality({p.migration : p \in StepsOf(path, target)}) = 1
    PROVE  \E m \in ToSet(path) : StepsOf(path, target) = {PlanStep(m, s, target) : s \in m.steps}
<1> DEFINE ids == {p.migration : p \in StepsOf(path, target)}
<1>1. ToSet(path) \subseteq migrations /\ \A m, o \in migrations : m.id = o.id => m = o
  <2>1. ToSet(path) \subseteq Eligible
    BY DEF ToSet
  <2> QED BY <2>1, EligibleTypes DEF StockInv, GraphInv, IdsUnique
<1>2. ASSUME NEW m \in ToSet(path), NEW s \in m.steps
      PROVE  PlanStep(m, s, target) \in StepsOf(path, target) /\ PlanStep(m, s, target).migration = m.id
  <2>1. PlanStep(m, s, target).migration = m.id
    BY DEF PlanStep
  <2> QED BY <2>1 DEF StepsOf
<1>3. PICK id : ids = {id}
  <2> DEFINE f == [p \in StepsOf(path, target) |-> p.migration]
  <2>1. path \in Seq(Catalogue)
    BY EligibleTypes
  <2>2. IsFiniteSet(StepsOf(path, target))
    BY <2>1, StepsOfAPath
  <2>3. f \in Surjection(StepsOf(path, target), ids)
    BY DEF Surjection
  <2>4. IsFiniteSet(ids)
    <3> HIDE DEF f, ids
    <3> QED BY <2>2, <2>3, FS_Surjection
  <2>5. Cardinality(ids) = 1
    OBVIOUS
  <2> HIDE DEF ids
  <2> QED BY <2>4, <2>5, FS_Singleton
<1>4. PICK p \in StepsOf(path, target) : p.migration = id
  BY <1>3
<1>5. PICK m \in ToSet(path) : \E s \in m.steps : p = PlanStep(m, s, target)
  BY DEF StepsOf
<1>6. m.id = id
  BY <1>2, <1>4, <1>5
<1>7. ASSUME NEW o \in ToSet(path), NEW s \in o.steps
      PROVE  o = m
  <2>1. o.id \in ids
    BY <1>2
  <2>2. o.id = id
    BY <1>3, <2>1
  <2> QED BY <1>1, <1>6, <2>2
<1> QED BY <1>7 DEF StepsOf

\* One migration's steps do not wait for each other in a circle, or it would not have
\* been registered with validation and would not be planned.
LEMMA NoCircle ==
    ASSUME StockInv, StoreInv, NEW target, HasSchema(target), NEW m \in Catalogue, ~StepCycle(m)
    PROVE  Loopless({PlanStep(m, s, target) : s \in m.steps})
<1> DEFINE steps == {PlanStep(m, s, target) : s \in m.steps}
           P(s) == PlanStep(m, s, target)
<1>1. \A s \in m.steps : P(s) \in steps /\ P(s).key = Key2(m, s) /\ P(s).step = s /\ Linked(P(s), s)
  BY PlanStepShape
<1>2. \A p \in steps : \E s \in m.steps : p = P(s)
  OBVIOUS
<1> HIDE DEF steps, P
<1>3. ASSUME NEW s \in m.steps
      PROVE  StepOf(Key2(m, s), steps) = P(s) /\ Key2(m, s) \in KeysOf(steps)
  <2>1. Key2(m, s) \in KeysOf(steps)
    BY <1>1 DEF KeysOf
  <2>2. StepOf(Key2(m, s), steps) \in steps /\ StepOf(Key2(m, s), steps).key = Key2(m, s)
    BY <2>1, StepOfAKey
  <2>3. PICK t \in m.steps : StepOf(Key2(m, s), steps) = P(t)
    BY <1>2, <2>2
  <2>4. Key2(m, t) = Key2(m, s)
    BY <1>1, <2>2, <2>3
  <2>5. t = s
    BY <2>4, KeysDiffer
  <2> QED BY <2>1, <2>3, <2>5
<1>4. SUFFICES ASSUME NEW rest \in (SUBSET KeysOf(steps)) \ {{}}
               PROVE  \E k \in rest : WaitsFor(k, steps) \cap rest = {}
  BY DEF Loopless, steps, P
<1> DEFINE stuck == {s \in m.steps : Key2(m, s) \in rest}
<1>5. PICK k \in rest : k \in KeysOf(steps)
  BY <1>4
<1>6. \E s \in m.steps : Key2(m, s) = k
  BY <1>1, <1>2, <1>5 DEF KeysOf
<1>7. stuck \in (SUBSET m.steps) \ {{}}
  BY <1>5, <1>6
<1>8. PICK s \in stuck : Waits(m, s) \cap {t.id : t \in stuck} = {}
  BY <1>7 DEF StepCycle
<1>9. ASSUME NEW j \in WaitsFor(Key2(m, s), steps) \cap rest
      PROVE  FALSE
  <2>1. j \in DependsOn(P(s), steps)
    BY <1>3 DEF WaitsFor, StepOf
  <2>2. PICK q \in steps : /\ j = q.key /\ q.key # P(s).key
                           /\ \E d \in P(s).deps : d[1] = "dep" /\ d[2] \in q.step.writes
    BY <2>1 DEF DependsOn
  <2>3. PICK t \in m.steps : q = P(t)
    BY <1>2
  <2>4. PICK d \in P(s).deps : d[1] = "dep" /\ d[2] \in t.writes
    BY <1>1, <2>2, <2>3
  <2>5. d[2] \in s.reads
    BY <1>1, <2>4 DEF Linked, Inputs
  <2>6. t # s
    BY <2>2, <2>3
  <2>7. t.id \in Waits(m, s)
    BY <2>4, <2>5, <2>6 DEF Waits
  <2>8. t \in stuck
    BY <1>1, <1>9, <2>2, <2>3
  <2> QED BY <1>8, <2>7, <2>8
<1> QED BY <1>8, <1>9

\* Of one migration, what is read is written before.
Sorted(s, steps) ==
    Cardinality({p.migration : p \in steps}) = 1 =>
        \A j, k \in DOMAIN s :
            LET reader == StepOf(s[j], steps) writer == StepOf(s[k], steps) IN
            reader.disposition # "blocked" /\ writer.step.writes \cap Inputs(reader.step) # {} => k <= j

\* A sequence that names a key after those its step waits for has what is read before.
LEMMA SequencedIsSorted ==
    ASSUME NEW steps, \A p \in steps : Linked(p, p.step), NEW s, Sequenced(s, steps), Loopless(steps)
    PROVE  Sorted(s, steps)
<1> SUFFICES ASSUME NEW j \in DOMAIN s, NEW k \in DOMAIN s,
                    StepOf(s[j], steps).disposition # "blocked",
                    StepOf(s[k], steps).step.writes \cap Inputs(StepOf(s[j], steps).step) # {}
             PROVE  k <= j
  BY DEF Sorted
<1> DEFINE reader == StepOf(s[j], steps)
           writer == StepOf(s[k], steps)
<1>1. s \in Seq(KeysOf(steps)) /\ Distinct(s) /\ DOMAIN s \subseteq Nat
  BY DEF Sequenced
<1>2. s[j] \in KeysOf(steps) /\ s[k] \in KeysOf(steps)
  BY <1>1
<1>3. reader \in steps /\ reader.key = s[j] /\ writer \in steps /\ writer.key = s[k]
  BY <1>2, StepOfAKey
<1>4. PICK g \in writer.step.writes : g \in Inputs(reader.step)
  OBVIOUS
<1>5. PICK d \in reader.deps : d[1] = "dep" /\ d[2] = g
  BY <1>3, <1>4 DEF Linked
<1>6. s[k] # s[j]
  <2>1. g \notin reader.step.writes
    BY <1>4 DEF Inputs
  <2> QED BY <1>4, <2>1
<1> HIDE DEF reader, writer
<1>7. s[k] \in DependsOn(reader, steps)
  BY <1>3, <1>4, <1>5, <1>6 DEF DependsOn
<1>8. s[k] \in WaitsFor(s[j], steps)
  BY <1>7 DEF WaitsFor, StepOf, reader
<1>9. PICK i \in 1 .. j - 1 : s[i] = s[k]
  BY <1>8 DEF Sequenced
<1>10. i \in DOMAIN s
  BY <1>1
<1>11. i = k
  BY <1>1, <1>9, <1>10 DEF Distinct
<1> QED BY <1>1, <1>11

LEMMA SortedTail ==
    ASSUME NEW steps, NEW s \in Seq(KeysOf(steps)), s # <<>>, Sorted(s, steps)
    PROVE  Tail(s) \in Seq(KeysOf(steps)) /\ Sorted(Tail(s), steps) /\ Head(s) \in KeysOf(steps)
<1> DEFINE K == KeysOf(steps)
<1>1. /\ Tail(s) \in Seq(K) /\ Head(s) \in K
      /\ \A k \in DOMAIN Tail(s) : k \in Nat /\ k + 1 \in DOMAIN s /\ Tail(s)[k] = s[k + 1]
  <2> HIDE DEF K
  <2> QED BY DEF K
<1>2. \A j, k \in Nat : k + 1 <= j + 1 => k <= j
  OBVIOUS
<1> QED BY <1>1, <1>2 DEF Sorted

-----------------------------------------------------------------------------
(* A plan when it is made.                                                  *)

Plans ==
    [from : Nat, to : Versions, registry : Nat \X Nat \X Nat, ran : BOOLEAN, blocked : BOOLEAN,
     steps : SUBSET PlanSteps, order : Seq(Nat), stale : SUBSET Fields, asked : SUBSET Fields]

WrittenBy(steps) == UNION {p.step.writes : p \in steps}

\* A plan is blocked and empty, or has the steps of the path.
LEMMA PlanOfEither ==
    ASSUME NEW target
    PROVE  LET path == FindPath(at, target)
               steps == StepsOf(path, target)
               stale == StaleFields(target, WrittenBy(steps))
               Made(blocked, ss, order, st, as) ==
                   [from |-> at, to |-> target, registry |-> RegistryHash, ran |-> FALSE,
                    blocked |-> blocked, steps |-> ss, order |-> order, stale |-> st, asked |-> as]
           IN  \/ PlanOf(target) = Made(TRUE, {}, <<>>, {}, {})
               \/ /\ Paths(at, target) # {} /\ \A m \in ToSet(path) : Permits(m)
                  /\ \/ PlanOf(target) = Made(FALSE, steps, Ordered(steps), stale, {})
                     \/ PlanOf(target) = Made(FALSE, steps, Ordered(steps), {}, stale)
<1> DEFINE path == FindPath(at, target)
           steps == StepsOf(path, target)
           stale == StaleFields(target, WrittenBy(steps))
           none == [from |-> at, to |-> target, registry |-> RegistryHash, ran |-> FALSE, blocked |-> TRUE,
                    steps |-> {}, order |-> <<>>, stale |-> {}, asked |-> {}]
<1>1. PlanOf(target) =
        IF Paths(at, target) = {} \/ \E m \in ToSet(path) : ~Permits(m)
        THEN none
        ELSE [none EXCEPT !.blocked = FALSE, !.steps = steps, !.order = Ordered(steps),
                          !.stale = IF OnStale = "report" THEN stale ELSE {},
                          !.asked = IF OnStale = "report" THEN {} ELSE stale]
  BY DEF PlanOf, StepsOf, WrittenBy
<1> HIDE DEF path, steps, stale
<1> QED BY <1>1 DEF path, steps, stale

LEMMA HashTypes ==
    ASSUME StockInv
    PROVE  /\ IsFiniteSet(migrations) /\ Cardinality(schemas) \in Nat /\ Cardinality(recipes) \in Nat
           /\ Cardinality(migrations) \in Nat /\ RegistryHash \in Nat \X Nat \X Nat
<1>1. IsFiniteSet(migrations)
  BY SomeAreFinite DEF StockInv, GraphInv
<1>2. Cardinality(schemas) \in Nat /\ Cardinality(recipes) \in Nat /\ Cardinality(migrations) \in Nat
  BY <1>1, FS_CardinalityType DEF StockInv
<1> QED BY <1>1, <1>2 DEF RegistryHash

\* Every step is in the order, once.
EachOnce(order, steps) == ToSet(order) = KeysOf(steps) /\ Distinct(order)

Fresh(p, target) ==
    /\ p \in Plans /\ p.from = at /\ p.to = target /\ p.registry = RegistryHash /\ ~p.ran
    /\ p.order \in Seq(KeysOf(p.steps)) /\ Sorted(p.order, p.steps) /\ EachOnce(p.order, p.steps)
    /\ ~p.blocked => /\ target \in Reachable(at, Upgrades)
                     /\ p.stale \cup p.asked = StaleFields(target, WrittenBy(p.steps))

LEMMA PlanIsFresh ==
    ASSUME StockInv, StoreInv, NEW target, CanPlan(target), at \in {0} \cup Versions
    PROVE  Fresh(PlanOf(target), target)
<1> DEFINE path == FindPath(at, target)
           steps == StepsOf(path, target)
           stale == StaleFields(target, WrittenBy(steps))
           Made(blocked, ss, order, st, as) ==
               [from |-> at, to |-> target, registry |-> RegistryHash, ran |-> FALSE,
                blocked |-> blocked, steps |-> ss, order |-> order, stale |-> st, asked |-> as]
<1>1. HasSchema(target) /\ target \in Versions /\ at \in Nat
  <2>1. HasSchema(target)
    BY DEF CanPlan
  <2>2. \A ref \in Versions : ref \in Nat
    BY RegistryAssumption DEF Versions
  <2> QED BY <2>1, <2>2, SchemaOfARef
<1>2. stale \subseteq Fields /\ RegistryHash \in Nat \X Nat \X Nat
  BY HashTypes DEF StaleFields
<1>3. ASSUME PlanOf(target) = Made(TRUE, {}, <<>>, {}, {})
      PROVE  Fresh(PlanOf(target), target)
  <2> DEFINE p == Made(TRUE, {}, <<>>, {}, {})
  <2>1. p \in Plans
    BY <1>1, <1>2 DEF Plans
  <2>2. <<>> \in Seq(KeysOf({})) /\ Sorted(<<>>, {}) /\ EachOnce(<<>>, {})
    BY DEF Sorted, EachOnce, KeysOf, Distinct, ToSet
  <2>3. Fresh(p, target)
    BY <2>1, <2>2 DEF Fresh
  <2> QED BY <1>3, <2>3
<1>4. ASSUME Paths(at, target) # {}, \A m \in ToSet(path) : Permits(m), NEW st, NEW as,
             (st = stale /\ as = {}) \/ (st = {} /\ as = stale),
             PlanOf(target) = Made(FALSE, steps, Ordered(steps), st, as)
      PROVE  Fresh(PlanOf(target), target)
  <2> DEFINE p == Made(FALSE, steps, Ordered(steps), st, as)
  <2>1. path \in Seq(Eligible)
    BY <1>4, EligibleTypes, FoundPath
  <2>2. path \in Seq(Catalogue)
    <3> HIDE DEF path
    <3> QED BY <2>1, EligibleTypes
  <2>3. IsFiniteSet(steps) /\ steps \subseteq PlanSteps /\ KeysOf(steps) \subseteq Nat
    BY <1>1, <2>2, StepsOfAPath
  <2>4. Sequenced(Ordered(steps), steps)
    BY <2>3, OrderedIsSequenced
  <2>5. Ordered(steps) \in Seq(KeysOf(steps)) /\ Ordered(steps) \in Seq(Nat)
    <3>1. Ordered(steps) \in Seq(KeysOf(steps))
      BY <2>4 DEF Sequenced
    <3> HIDE DEF steps
    <3> QED BY <2>3, <3>1
  <2>6. Sorted(Ordered(steps), steps)
    <3>1. CASE Cardinality({q.migration : q \in steps}) # 1
      BY <3>1 DEF Sorted
    <3>2. CASE Cardinality({q.migration : q \in steps}) = 1
      <4>1. PICK m \in ToSet(path) : steps = {PlanStep(m, s, target) : s \in m.steps}
        BY <1>1, <2>1, <3>2, OneMigration
      <4>2. m \in Catalogue /\ ~StepCycle(m)
        <5>1. m \in Catalogue
          BY <2>2 DEF ToSet
        <5>2. ~StepCycle(m)
          BY <1>4 DEF CanPlan
        <5> QED BY <5>1, <5>2
      <4>3. Loopless(steps)
        BY <1>1, <4>1, <4>2, NoCircle
      <4>4. \A q \in steps : Linked(q, q.step)
        BY <1>1, <4>1, <4>2, PlanStepShape
      <4> HIDE DEF steps
      <4> QED BY <2>4, <4>3, <4>4, SequencedIsSorted
    <3> QED BY <3>1, <3>2
  <2>7. target \in Reachable(at, Upgrades) /\ EachOnce(Ordered(steps), steps)
    BY <1>4, <2>3, <2>4, PathsLead, OrderIsComplete DEF EachOnce, Sequenced
  <2>8. st \in SUBSET Fields /\ as \in SUBSET Fields /\ st \cup as = stale
    <3> HIDE DEF stale
    <3> QED BY <1>2, <1>4
  <2> HIDE DEF steps, stale
  <2>9. p \in Plans
    BY <1>1, <1>2, <2>3, <2>5, <2>8 DEF Plans
  <2>10. Fresh(p, target)
    BY <2>5, <2>6, <2>7, <2>8, <2>9 DEF Fresh, stale
  <2> QED BY <1>4, <2>10
<1> HIDE DEF steps, stale
<1>5. \/ PlanOf(target) = Made(TRUE, {}, <<>>, {}, {})
      \/ /\ Paths(at, target) # {} /\ \A m \in ToSet(path) : Permits(m)
         /\ \/ PlanOf(target) = Made(FALSE, steps, Ordered(steps), stale, {})
            \/ PlanOf(target) = Made(FALSE, steps, Ordered(steps), {}, stale)
  BY PlanOfEither DEF steps, stale
<1> HIDE DEF Made
<1> QED BY <1>3, <1>4, <1>5

-----------------------------------------------------------------------------
(* The inductive invariant.                                                 *)

\* A plan was made, and may be run.
HasPlan == plan # None \/ run # None

\* The plan is in order, was made of no more than is registered now, and leads from
\* where it starts to where it is to lead.
PlanInv ==
    HasPlan =>
        /\ plan \in Plans /\ at # 0
        /\ plan.order \in Seq(KeysOf(plan.steps)) /\ Sorted(plan.order, plan.steps)
        /\ EachOnce(plan.order, plan.steps)
        /\ plan.registry[1] <= Cardinality(schemas) /\ plan.registry[2] <= Cardinality(recipes)
        /\ plan.registry[3] <= Cardinality(migrations)
        /\ HasSchema(plan.to)
        /\ ~plan.blocked => plan.to \in Reachable(plan.from, Upgrades)

\* What is published and what the run has seen is stored; what is left of the run is in
\* order; a run that does not hold the record has nothing to ask about it.
ViewInv ==
    /\ at \in {0} \cup Versions
    /\ ingests \in Nat /\ (at # 0 => 1 <= ingests)
    /\ \A f \in Fields : shown[f] \in 0 .. Newest(f)
    /\ \A q \in DOMAIN cache : cache[q] \in Values
    /\ run # None =>
        /\ ~plan.blocked /\ plan.ran
        /\ run.left \in Seq(KeysOf(plan.steps)) /\ Sorted(run.left, plan.steps)
        /\ \A f \in Fields : run.view[f] \in 0 .. Newest(f)
        /\ ~run.held => plan.asked = {}

TypeInv == StockInv /\ StoreInv /\ PlanInv /\ ViewInv

LEMMA TypeInit == Init => TypeInv
<1> SUFFICES ASSUME Init
             PROVE  TypeInv
  OBVIOUS
<1>1. StockInv
  BY StockInit DEF Init
<1>2. StoreInv
  BY PlannerAssumption DEF Init, StoreInv
<1>3. PlanInv
  BY DEF Init, PlanInv, HasPlan
<1>4. ViewInv
  BY DEF Init, ViewInv, Newest
<1> QED BY <1>1, <1>2, <1>3, <1>4 DEF TypeInv

-----------------------------------------------------------------------------
(* What is registered and what is stored only grows.                        *)

Grows == \A f \in Fields : /\ Newest(f) \in Nat /\ Newest(f)' \in Nat /\ Newest(f) <= Newest(f)'
                           /\ \A k \in 1 .. Newest(f) : history'[f][k] = history[f][k]

LEMMA GrowsWhenKept == StoreInv /\ UNCHANGED history => Grows
BY HistoryTypes DEF Grows, Newest

LEMMA StillStored ==
    ASSUME Grows, NEW f \in Fields, NEW k \in 0 .. Newest(f)
    PROVE  k \in 0 .. Newest(f)'
BY DEF Grows

LEMMA RegisterGrows ==
    ASSUME StockInv, RegisterAny
    PROVE  /\ Upgrades \subseteq Upgrades' /\ schemas \subseteq schemas'
           /\ Cardinality(schemas) <= Cardinality(schemas')
           /\ Cardinality(recipes) <= Cardinality(recipes')
           /\ Cardinality(migrations) <= Cardinality(migrations')
           /\ \/ Cardinality(schemas) < Cardinality(schemas')
              \/ Cardinality(recipes) < Cardinality(recipes')
              \/ Cardinality(migrations) < Cardinality(migrations')
<1>1. /\ IsFiniteSet(schemas) /\ IsFiniteSet(recipes) /\ IsFiniteSet(migrations)
      /\ Cardinality(schemas) \in Nat /\ Cardinality(recipes) \in Nat /\ Cardinality(migrations) \in Nat
  BY HashTypes DEF StockInv
<1>2. ASSUME NEW d \in Drafts, RegisterSchema(d)
      PROVE  /\ schemas \subseteq schemas' /\ UNCHANGED <<recipes, migrations>>
             /\ Cardinality(schemas') = Cardinality(schemas) + 1
  <2>1. d \notin schemas /\ schemas' = schemas \cup {d}
    BY <1>2 DEF RegisterSchema, HasSchema
  <2> QED BY <1>1, <1>2, <2>1, FS_AddElement DEF RegisterSchema
<1>3. ASSUME NEW r \in Recipes, RegisterRecipe(r)
      PROVE  UNCHANGED <<schemas, migrations>> /\ Cardinality(recipes') = Cardinality(recipes) + 1
  BY <1>1, <1>3, FS_AddElement DEF RegisterRecipe
<1>4. ASSUME NEW m \in Catalogue, NEW validate \in BOOLEAN, RegisterMigration(m, validate)
      PROVE  /\ UNCHANGED <<schemas, recipes>> /\ migrations \subseteq migrations'
             /\ Cardinality(migrations') = Cardinality(migrations) + 1
  <2>1. m \notin migrations /\ migrations' = migrations \cup {m}
    BY <1>4 DEF RegisterMigration
  <2> QED BY <1>1, <1>4, <2>1, FS_AddElement DEF RegisterMigration
<1>5. migrations \subseteq migrations' => Upgrades \subseteq Upgrades'
  BY DEF Upgrades
<1> QED BY <1>1, <1>2, <1>3, <1>4, <1>5 DEF RegisterAny

\* An artifact put for each field of a set.
LEMMA WriteGrows ==
    ASSUME StoreInv, NEW W \in SUBSET Fields, NEW a, \A f \in W : a[f] \in Artifacts,
           history' = [f \in Fields |-> IF f \in W THEN Put(f, a[f]) ELSE history[f]]
    PROVE  /\ history' \in [Fields -> Seq(Artifacts)] /\ Grows
           /\ \A f \in W : Place(f, a[f]) \in 1 .. Newest(f)' /\ history'[f][Place(f, a[f])] = a[f]
           /\ \A f \in Fields \ W : history'[f] = history[f]
<1>1. ASSUME NEW f \in W
      PROVE  /\ history'[f] \in Seq(Artifacts) /\ Newest(f)' \in Nat /\ Newest(f) <= Newest(f)'
             /\ \A k \in 1 .. Newest(f) : history'[f][k] = history[f][k]
             /\ Place(f, a[f]) \in 1 .. Newest(f)' /\ history'[f][Place(f, a[f])] = a[f]
  <2>1. history'[f] = Put(f, a[f]) /\ Newest(f)' = Len(Put(f, a[f]))
    BY DEF Newest
  <2>2. a[f] \in Artifacts /\ f \in Fields
    OBVIOUS
  <2> QED BY <2>1, <2>2, PutKeeps
<1>2. ASSUME NEW f \in Fields \ W
      PROVE  /\ history'[f] = history[f] /\ history'[f] \in Seq(Artifacts)
             /\ Newest(f)' \in Nat /\ Newest(f) <= Newest(f)'
             /\ \A k \in 1 .. Newest(f) : history'[f][k] = history[f][k]
  <2>1. history'[f] = history[f] /\ Newest(f)' = Newest(f)
    BY DEF Newest
  <2>2. history[f] \in Seq(Artifacts) /\ Newest(f) \in Nat /\ Newest(f) <= Newest(f)
    BY HistoryTypes
  <2> QED BY <2>1, <2>2
<1>3. \A f \in Fields : Newest(f) \in Nat
  BY HistoryTypes
<1>4. history' \in [Fields -> Seq(Artifacts)]
  BY <1>1, <1>2
<1>5. Grows
  BY <1>1, <1>2, <1>3 DEF Grows
<1> QED BY <1>1, <1>2, <1>4, <1>5

-----------------------------------------------------------------------------
(* Every step keeps it.                                                     *)

LEMMA StockKept == StockInv /\ UNCHANGED registry => StockInv'
BY StockStep

\* A step that leaves the registry, the plan and the version as they are.
LEMMA PlanKept ==
    ASSUME PlanInv, HasPlan, UNCHANGED <<schemas, recipes, migrations, at, plan>>
    PROVE  PlanInv'
<1>1. Upgrades' = Upgrades
  BY DEF Upgrades
<1>2. HasSchema(plan.to)' <=> HasSchema(plan.to)
  BY DEF HasSchema
<1> QED BY <1>1, <1>2 DEF PlanInv

LEMMA RegisterKeeps == ASSUME TypeInv, Register PROVE TypeInv'
<1>1. StockInv /\ StoreInv /\ PlanInv /\ ViewInv
  BY DEF TypeInv
<1>2. /\ RegisterAny /\ run = None
      /\ UNCHANGED <<history, at, shown, cache, world, plan, run, ingests, upsets>>
  BY DEF Register, record, budget
<1>3. StockInv'
  BY <1>1, <1>2, StockStep
<1>4. StoreInv'
  BY <1>1, <1>2 DEF StoreInv
<1>5. ViewInv'
  BY <1>1, <1>2 DEF ViewInv, Newest
<1>6. PlanInv'
  <2>1. SUFFICES ASSUME HasPlan
                 PROVE  PlanInv'
    BY <1>2 DEF PlanInv, HasPlan
  <2>2. Upgrades \subseteq Upgrades' /\ IsFiniteSet(Upgrades')
    <3>1. Upgrades' \subseteq Catalogue
      BY <1>3 DEF StockInv, GraphInv, Upgrades
    <3> QED BY <1>1, <1>2, <3>1, RegisterGrows, SomeAreFinite
  <2>3. ~plan.blocked => plan.to \in Reachable(plan.from, Upgrades')
    BY <1>1, <2>1, <2>2, EligibleTypes, ReachedByMore DEF PlanInv
  <2>4. HasSchema(plan.to)'
    BY <1>1, <1>2, <2>1, RegisterGrows DEF PlanInv, HasSchema
  <2>5. /\ plan.registry[1] \in Nat /\ plan.registry[2] \in Nat /\ plan.registry[3] \in Nat
    BY <1>1, <2>1 DEF PlanInv, Plans
  <2>6. /\ Cardinality(schemas) \in Nat /\ Cardinality(recipes) \in Nat /\ Cardinality(migrations) \in Nat
        /\ Cardinality(schemas') \in Nat /\ Cardinality(recipes') \in Nat /\ Cardinality(migrations') \in Nat
    <3>1. IsFiniteSet(migrations')
      BY <1>3, SomeAreFinite DEF StockInv, GraphInv
    <3> QED BY <1>1, <1>3, <3>1, HashTypes, FS_CardinalityType DEF StockInv
  <2>7. /\ plan.registry[1] <= Cardinality(schemas') /\ plan.registry[2] <= Cardinality(recipes')
        /\ plan.registry[3] <= Cardinality(migrations')
    <3>1. /\ Cardinality(schemas) <= Cardinality(schemas')
          /\ Cardinality(recipes) <= Cardinality(recipes')
          /\ Cardinality(migrations) <= Cardinality(migrations')
      BY <1>1, <1>2, RegisterGrows
    <3>2. /\ plan.registry[1] <= Cardinality(schemas) /\ plan.registry[2] <= Cardinality(recipes)
          /\ plan.registry[3] <= Cardinality(migrations)
      BY <1>1, <2>1 DEF PlanInv
    <3> QED BY <2>5, <2>6, <3>1, <3>2
  <2> QED BY <1>1, <1>2, <2>1, <2>3, <2>4, <2>7 DEF PlanInv
<1> QED BY <1>3, <1>4, <1>5, <1>6 DEF TypeInv

LEMMA PlanKeeps == ASSUME TypeInv, NEW target, Plan(target) PROVE TypeInv'
<1>1. StockInv /\ StoreInv /\ PlanInv /\ ViewInv
  BY DEF TypeInv
<1>2. /\ CanPlan(target) /\ run = None /\ at # 0 /\ HasSchema(target) /\ plan' = PlanOf(target)
      /\ UNCHANGED <<schemas, recipes, migrations, history, at, shown, cache, world, run, ingests, upsets>>
  BY DEF Plan, CanPlan, registry, record, budget
<1>3. StockInv'
  BY <1>1, <1>2, StockKept DEF registry
<1>4. StoreInv'
  BY <1>1, <1>2 DEF StoreInv
<1>5. ViewInv'
  BY <1>1, <1>2 DEF ViewInv, Newest
<1>6. PlanInv'
  <2> DEFINE p == PlanOf(target)
  <2>1. Fresh(p, target)
    BY <1>1, <1>2, PlanIsFresh DEF ViewInv
  <2> HIDE DEF p
  <2>2. /\ p.registry[1] = Cardinality(schemas) /\ p.registry[2] = Cardinality(recipes)
        /\ p.registry[3] = Cardinality(migrations)
    BY <2>1 DEF Fresh, RegistryHash
  <2>3. /\ Cardinality(schemas) <= Cardinality(schemas) /\ Cardinality(recipes) <= Cardinality(recipes)
        /\ Cardinality(migrations) <= Cardinality(migrations)
    <3>1. \A n \in Nat : n <= n
      OBVIOUS
    <3> QED BY <1>1, <3>1, HashTypes
  <2>4. HasSchema(p.to)
    BY <1>2, <2>1 DEF Fresh
  <2>5. plan' = p /\ Upgrades' = Upgrades
    BY <1>2 DEF p, Upgrades
  <2>6. HasSchema(plan.to)'
    BY <1>2, <2>4, <2>5 DEF HasSchema
  <2> QED BY <1>2, <2>1, <2>2, <2>3, <2>5, <2>6 DEF PlanInv, Fresh
<1> QED BY <1>3, <1>4, <1>5, <1>6 DEF TypeInv

LEMMA BeginRunKeeps == ASSUME TypeInv, BeginRun PROVE TypeInv'
<1>1. StockInv /\ StoreInv /\ PlanInv /\ ViewInv
  BY DEF TypeInv
<1>2. /\ run = None /\ plan # None /\ at # 0 /\ ~plan.blocked /\ plan.registry = RegistryHash
      /\ plan' = [plan EXCEPT !.ran = TRUE]
      /\ run' = [left |-> plan.order, held |-> plan.asked # {}, view |-> [f \in Fields |-> Newest(f)]]
      /\ UNCHANGED <<schemas, recipes, migrations, history, at, shown, cache, world, ingests, upsets>>
  BY DEF BeginRun, registry, record, budget
<1>3. HasPlan /\ plan \in Plans
  BY <1>1, <1>2 DEF HasPlan, PlanInv
<1>4. /\ plan' \in Plans /\ plan'.from = plan.from /\ plan'.to = plan.to /\ plan'.steps = plan.steps
      /\ plan'.order = plan.order /\ plan'.registry = plan.registry /\ plan'.blocked = plan.blocked
      /\ plan'.asked = plan.asked /\ plan'.stale = plan.stale /\ plan'.ran
  BY <1>2, <1>3 DEF Plans
<1>5. StockInv'
  BY <1>1, <1>2, StockKept DEF registry
<1>6. StoreInv'
  BY <1>1, <1>2 DEF StoreInv
<1>7. PlanInv'
  <2>1. Upgrades' = Upgrades
    BY <1>2 DEF Upgrades
  <2>2. HasSchema(plan.to)' <=> HasSchema(plan.to)
    BY <1>2, <1>4 DEF HasSchema
  <2> QED BY <1>1, <1>2, <1>3, <1>4, <2>1, <2>2 DEF PlanInv
<1>8. ViewInv'
  <2>1. \A f \in Fields : Newest(f)' = Newest(f) /\ Newest(f) \in 0 .. Newest(f)
    BY <1>1, <1>2, HistoryTypes DEF Newest
  <2>2. run'.left = plan.order /\ (~run'.held => plan.asked = {}) /\ \A f \in Fields : run'.view[f] = Newest(f)
    BY <1>2
  <2>3. plan.order \in Seq(KeysOf(plan.steps)) /\ Sorted(plan.order, plan.steps)
    BY <1>1, <1>3 DEF PlanInv
  <2> QED BY <1>1, <1>2, <1>4, <2>1, <2>2, <2>3 DEF ViewInv
<1> QED BY <1>5, <1>6, <1>7, <1>8 DEF TypeInv

\* A step of a run that leaves the rest of it in order, whatever it stores.
LEMMA RunAdvances ==
    ASSUME TypeInv, Working, StoreInv', Grows,
           UNCHANGED <<schemas, recipes, migrations, at, shown, plan, ingests>>,
           \A q \in DOMAIN cache' : cache'[q] \in Values,
           run'.left = Tail(run.left), run.held => run'.held,
           \A f \in Fields : run'.view[f] \in 0 .. Newest(f)'
    PROVE  TypeInv'
<1>1. StockInv /\ PlanInv /\ ViewInv /\ run # None /\ run.left # <<>> /\ HasPlan
  BY DEF TypeInv, Working, HasPlan
<1>2. StockInv'
  BY <1>1, StockKept DEF registry
<1>3. PlanInv'
  BY <1>1, PlanKept
<1>4. run.left \in Seq(KeysOf(plan.steps)) /\ Sorted(run.left, plan.steps)
  BY <1>1 DEF ViewInv
<1>5. run'.left \in Seq(KeysOf(plan.steps)) /\ Sorted(run'.left, plan.steps)
  BY <1>1, <1>4, SortedTail
<1>6. \A f \in Fields : shown[f] \in 0 .. Newest(f)'
  BY <1>1, StillStored DEF ViewInv
<1>7. ViewInv'
  BY <1>1, <1>5, <1>6 DEF ViewInv
<1> QED BY <1>2, <1>3, <1>7 DEF TypeInv

\* The step that is run is a step of the plan.
LEMMA NowTypes ==
    ASSUME TypeInv, Working
    PROVE  /\ Now \in plan.steps /\ Now \in PlanSteps /\ Now.step.reads \subseteq Fields
           /\ Now.step.writes \subseteq Fields /\ Now.deps \in SUBSET Deps /\ Now.step.recipe \in Nat
<1>1. PlanInv /\ ViewInv /\ run # None /\ run.left # <<>> /\ HasPlan
  BY DEF TypeInv, Working, HasPlan
<1>2. Head(run.left) \in KeysOf(plan.steps)
  BY <1>1, SortedTail DEF ViewInv
<1>3. Now \in plan.steps
  BY <1>2, StepOfAKey DEF Now, Planned, StepOf
<1>4. plan.steps \subseteq PlanSteps
  BY <1>1 DEF PlanInv, Plans
<1>5. Now \in PlanSteps
  BY <1>3, <1>4
<1>6. Now.step \in StepDecls /\ Now.deps \in SUBSET Deps
  BY <1>5 DEF PlanSteps
<1>7. Now.step.reads \subseteq Fields /\ Now.step.writes \subseteq Fields /\ Now.step.recipe \in Nat
  BY <1>6 DEF StepDecls
<1> QED BY <1>3, <1>5, <1>6, <1>7

LEMMA ProducedType ==
    ASSUME TypeInv, Working, NEW v \in Values, NEW status \in {"present", "review"}
    PROVE  Produced(Now, v, status) \in Artifacts
<1> DEFINE p == Now
           from == IF p.step.kind = "transform" THEN p.step.reads \ p.step.writes ELSE p.step.reads
           lineage == {<<f, HashAt(f, run.view[f])>> : f \in from}
<1>1. StoreInv /\ ViewInv /\ run # None
  BY DEF TypeInv, Working
<1>2. ASSUME NEW f \in from
      PROVE  <<f, HashAt(f, run.view[f])>> \in Fields \X Nat
  <2>1. f \in Fields
    BY NowTypes
  <2>2. run.view[f] \in 0 .. Newest(f)
    BY <1>1, <2>1 DEF ViewInv
  <2>3. HashAt(f, run.view[f]) \in Nat
    BY <1>1, <2>1, <2>2, ValueTypes
  <2> QED BY <2>1, <2>3
<1>3. lineage \in SUBSET (Fields \X Nat)
  BY <1>2
<1>4. Produced(p, v, status) = [value |-> v, status |-> status, by |-> "machine", deps |-> p.deps,
                                recipe |-> p.step.recipe, accepted |-> 0, lineage |-> lineage]
  BY DEF Produced, Artifact
<1>5. p.deps \in SUBSET Deps /\ p.step.recipe \in Nat
  BY NowTypes
<1> HIDE DEF p, lineage
<1>6. Produced(p, v, status) \in Artifacts
  BY <1>3, <1>4, <1>5 DEF Artifacts
<1> QED BY <1>6 DEF p

\* What a step stores.
LEMMA StoreGrows ==
    ASSUME TypeInv, Working, NEW v \in Values, NEW status \in {"present", "review"},
           Store(Now, v, status), UNCHANGED <<world, upsets>>
    PROVE  /\ StoreInv' /\ Grows /\ run'.left = Tail(run.left) /\ (run.held => run'.held)
           /\ \A f \in Fields : run'.view[f] \in 0 .. Newest(f)'
           /\ \A f \in Fields \ Now.step.writes : history'[f] = history[f] /\ run'.view[f] = run.view[f]
           /\ \A f \in Fields : \A k \in DOMAIN history[f] :
                k \in DOMAIN history'[f] /\ history'[f][k] = history[f][k]
<1> DEFINE W == Now.step.writes
           b == Produced(Now, v, status)
           a == [f \in W |-> b]
           view == [f \in Fields |-> IF f \in W THEN Place(f, b) ELSE run.view[f]]
<1>1. StoreInv /\ ViewInv /\ run # None
  BY DEF TypeInv, Working
<1>2. W \in SUBSET Fields /\ b \in Artifacts
  BY NowTypes, ProducedType
<1>3. /\ history' = [f \in Fields |-> IF f \in W THEN Put(f, b) ELSE history[f]]
      /\ run' = [left |-> Tail(run.left), held |-> run.held \/ status # "present", view |-> view]
  BY DEF Store, Done
<1> HIDE DEF W, b
<1>4. /\ history' = [f \in Fields |-> IF f \in W THEN Put(f, a[f]) ELSE history[f]]
      /\ \A f \in W : a[f] \in Artifacts
  BY <1>2, <1>3
<1>5. /\ history' \in [Fields -> Seq(Artifacts)] /\ Grows
      /\ \A f \in W : Place(f, a[f]) \in 1 .. Newest(f)'
      /\ \A f \in Fields \ W : history'[f] = history[f]
  <2> HIDE DEF a
  <2> QED BY <1>1, <1>2, <1>4, WriteGrows
<1>6. StoreInv'
  BY <1>1, <1>5 DEF StoreInv
<1>7. ASSUME NEW f \in Fields
      PROVE  view[f] \in 0 .. Newest(f)'
  <2>1. CASE f \in W
    <3>1. view[f] = Place(f, b) /\ a[f] = b
      BY <2>1
    <3>2. Place(f, b) \in 1 .. Newest(f)'
      BY <1>5, <2>1, <3>1
    <3> QED BY <3>1, <3>2
  <2>2. CASE f \notin W
    BY <1>1, <1>5, <2>2, StillStored DEF ViewInv
  <2> QED BY <2>1, <2>2
<1>8. run'.view = view /\ run'.left = Tail(run.left) /\ (run.held => run'.held)
  BY <1>3
<1>9. \A f \in Fields : \A k \in DOMAIN history[f] :
          k \in DOMAIN history'[f] /\ history'[f][k] = history[f][k]
  <2>1. SUFFICES ASSUME NEW f \in Fields, NEW k \in DOMAIN history[f]
                 PROVE  k \in DOMAIN history'[f] /\ history'[f][k] = history[f][k]
    OBVIOUS
  <2>2. k \in 1 .. Newest(f) /\ DOMAIN history'[f] = 1 .. Newest(f)'
    BY <1>1, <1>5, HistoryTypes DEF Newest
  <2> QED BY <1>5, <2>2 DEF Grows
<1> QED BY <1>5, <1>6, <1>7, <1>8, <1>9 DEF W

LEMMA ComputeType ==
    ASSUME TypeInv, Working, Now.disposition = "deterministic"
    PROVE  Compute(Now, run.view) \in Values
<1>1. StoreInv /\ ViewInv /\ run # None
  BY DEF TypeInv, Working
<1>2. Now \in PlanSteps
  BY NowTypes
<1>3. PICK m \in Catalogue : \E s \in m.steps : Now.key = Key2(m, s) /\ Now.step = s
  BY <1>2 DEF PlanSteps
<1>4. PICK s \in m.steps : Now.key = Key2(m, s) /\ Now.step = s
  BY <1>3
<1>5. s.kind = "transform"
  BY <1>2, <1>4 DEF PlanSteps
<1>6. Computed[Now.key] \in [Sources \X [Now.step.reads -> Values \cup {Absent}] -> Values]
  <2>1. Computed[Key2(m, s)] \in [Sources \X [s.reads -> Values \cup {Absent}] -> Values]
    BY <1>5, PlannerAssumption
  <2> QED BY <1>4, <2>1
<1> DEFINE read == [f \in Now.step.reads |-> ValueAt(f, run.view[f])]
<1>7. read \in [Now.step.reads -> Values \cup {Absent}]
  <2>1. SUFFICES ASSUME NEW f \in Now.step.reads
                 PROVE  ValueAt(f, run.view[f]) \in Values \cup {Absent}
    OBVIOUS
  <2>2. f \in Fields
    BY <1>4, StepTypes
  <2>3. run.view[f] \in 0 .. Newest(f)
    BY <1>1, <2>2 DEF ViewInv
  <2> QED BY <1>1, <2>2, <2>3, ValueTypes
<1>8. world.code \in Sources
  BY <1>1, PlannerAssumption DEF StoreInv, Sources
<1>9. Compute(Now, run.view) = Computed[Now.key][world.code, read]
  BY DEF Compute
<1> HIDE DEF read
<1>10. <<world.code, read>> \in Sources \X [Now.step.reads -> Values \cup {Absent}]
  BY <1>7, <1>8
<1>11. Computed[Now.key][<<world.code, read>>] \in Values
  BY <1>6, <1>10
<1> QED BY <1>9, <1>11

LEMMA SkipKeeps == ASSUME TypeInv, SkipStep PROVE TypeInv' /\ Grows
<1>1. /\ Working /\ UNCHANGED <<schemas, recipes, migrations, history, at, shown, cache, world, plan, ingests, upsets>>
      /\ run' = [left |-> Tail(run.left), held |-> run.held \/ Now.disposition # "reuse", view |-> run.view]
  BY DEF SkipStep, Done, registry, record, budget
<1>2. StoreInv /\ StoreInv' /\ Grows /\ ViewInv /\ run # None
  BY <1>1, GrowsWhenKept DEF TypeInv, StoreInv, Working
<1>3. \A f \in Fields : run'.view[f] \in 0 .. Newest(f)'
  BY <1>1, <1>2, StillStored DEF ViewInv
<1>4. run'.left = Tail(run.left) /\ (run.held => run'.held) /\ \A q \in DOMAIN cache' : cache'[q] \in Values
  BY <1>1, <1>2 DEF ViewInv
<1> QED BY <1>1, <1>2, <1>3, <1>4, RunAdvances

LEMMA RefuseKeeps == ASSUME TypeInv, RefuseAsk PROVE TypeInv' /\ Grows
<1>1. /\ Working /\ UNCHANGED <<schemas, recipes, migrations, history, at, shown, cache, world, plan, ingests, upsets>>
      /\ run' = [left |-> Tail(run.left), held |-> run.held \/ TRUE, view |-> run.view]
  BY DEF RefuseAsk, Asking, Done, registry, record, budget
<1>2. StoreInv /\ StoreInv' /\ Grows /\ ViewInv /\ run # None
  BY <1>1, GrowsWhenKept DEF TypeInv, StoreInv, Working
<1>3. \A f \in Fields : run'.view[f] \in 0 .. Newest(f)'
  BY <1>1, <1>2, StillStored DEF ViewInv
<1>4. run'.left = Tail(run.left) /\ (run.held => run'.held) /\ \A q \in DOMAIN cache' : cache'[q] \in Values
  BY <1>1, <1>2 DEF ViewInv
<1> QED BY <1>1, <1>2, <1>3, <1>4, RunAdvances

LEMMA FailKeeps == ASSUME TypeInv, FailStep PROVE TypeInv' /\ Grows
<1>1. /\ Working /\ UNCHANGED <<schemas, recipes, migrations, history, at, shown, cache, world, plan, ingests>>
      /\ upsets < MaxUpsets /\ upsets' = upsets + 1
      /\ run' = [left |-> Tail(run.left), held |-> run.held \/ TRUE, view |-> run.view]
  BY DEF FailStep, Done, Upset, registry, record
<1>2. StoreInv /\ ViewInv /\ run # None
  BY <1>1 DEF TypeInv, Working
<1>3. StoreInv' /\ Grows
  <2>1. upsets' \in 0 .. MaxUpsets /\ 1 .. upsets + 1 \subseteq 1 .. upsets' + 1
    BY <1>1, <1>2, PlannerAssumption DEF StoreInv
  <2> QED BY <1>1, <1>2, <2>1, GrowsWhenKept DEF StoreInv
<1>4. \A f \in Fields : run'.view[f] \in 0 .. Newest(f)'
  BY <1>1, <1>2, <1>3, StillStored DEF ViewInv
<1>5. run'.left = Tail(run.left) /\ (run.held => run'.held) /\ \A q \in DOMAIN cache' : cache'[q] \in Values
  BY <1>1, <1>2 DEF ViewInv
<1> QED BY <1>1, <1>3, <1>4, <1>5, RunAdvances

LEMMA TransformKeeps == ASSUME TypeInv, RunTransform PROVE TypeInv'
<1>1. /\ Working /\ UNCHANGED <<schemas, recipes, migrations, at, shown, cache, world, plan, ingests, upsets>>
      /\ Now.disposition = "deterministic" /\ Store(Now, Compute(Now, run.view), "present")
  BY DEF RunTransform, registry, budget
<1>2. Compute(Now, run.view) \in Values
  BY <1>1, ComputeType
<1>3. /\ StoreInv' /\ Grows /\ run'.left = Tail(run.left) /\ (run.held => run'.held)
      /\ \A f \in Fields : run'.view[f] \in 0 .. Newest(f)'
  BY <1>1, <1>2, StoreGrows
<1>4. \A q \in DOMAIN cache' : cache'[q] \in Values
  BY <1>1 DEF TypeInv, ViewInv
<1> QED BY <1>1, <1>3, <1>4, RunAdvances

LEMMA AskIsStore ==
    ASSUME TypeInv, AskModel
    PROVE  /\ Working /\ UNCHANGED <<schemas, recipes, migrations, at, shown, world, plan, ingests, upsets>>
           /\ \E v \in Values : \E status \in {"present", "review"} :
                /\ Store(Now, v, status)
                /\ cache' = [q \in DOMAIN cache \cup {AskedNow} |-> IF q = AskedNow THEN v ELSE cache[q]]
<1>1. /\ Working /\ UNCHANGED <<schemas, recipes, migrations, at, shown, world, plan, ingests, upsets>>
  BY DEF AskModel, Asking, registry, budget
<1>2. PICK v \in IF AskedNow \in DOMAIN cache THEN {cache[AskedNow]} ELSE Values :
        /\ Store(Now, v, IF v \in Flagged THEN "review" ELSE "present")
        /\ cache' = [q \in DOMAIN cache \cup {AskedNow} |-> IF q = AskedNow THEN v ELSE cache[q]]
  BY DEF AskModel
<1>3. v \in Values
  BY DEF TypeInv, ViewInv
<1> QED BY <1>1, <1>2, <1>3

LEMMA AskKeeps == ASSUME TypeInv, AskModel PROVE TypeInv'
<1>1. /\ Working /\ UNCHANGED <<schemas, recipes, migrations, at, shown, world, plan, ingests, upsets>>
  BY AskIsStore
<1>2. PICK v \in Values, status \in {"present", "review"} :
        /\ Store(Now, v, status)
        /\ cache' = [q \in DOMAIN cache \cup {AskedNow} |-> IF q = AskedNow THEN v ELSE cache[q]]
  BY AskIsStore
<1>3. /\ StoreInv' /\ Grows /\ run'.left = Tail(run.left) /\ (run.held => run'.held)
      /\ \A f \in Fields : run'.view[f] \in 0 .. Newest(f)'
  BY <1>1, <1>2, StoreGrows
<1>4. \A q \in DOMAIN cache' : cache'[q] \in Values
  BY <1>2 DEF TypeInv, ViewInv
<1> QED BY <1>1, <1>3, <1>4, RunAdvances

LEMMA HoldKeeps == ASSUME TypeInv, Hold PROVE TypeInv'
<1>1. /\ run # None /\ run' = None
      /\ UNCHANGED <<schemas, recipes, migrations, history, at, shown, cache, world, plan, ingests, upsets>>
  BY DEF Hold, registry, record, budget
<1>2. StockInv /\ StoreInv /\ PlanInv /\ ViewInv /\ HasPlan
  BY <1>1 DEF TypeInv, HasPlan
<1>3. StockInv' /\ StoreInv' /\ PlanInv'
  BY <1>1, <1>2, StockKept, PlanKept DEF StoreInv, registry
<1>4. ViewInv'
  BY <1>1, <1>2 DEF ViewInv, Newest
<1> QED BY <1>3, <1>4 DEF TypeInv

LEMMA PublishKeeps == ASSUME TypeInv, Publish PROVE TypeInv'
<1>1. /\ run # None /\ run' = None /\ at' = plan.to
      /\ shown' = [f \in Fields |-> IF Defined(plan.to, f) THEN run.view[f] ELSE 0]
      /\ UNCHANGED <<schemas, recipes, migrations, history, cache, world, plan, ingests, upsets>>
  BY DEF Publish, registry, budget
<1>2. StockInv /\ StoreInv /\ PlanInv /\ ViewInv /\ HasPlan
  BY <1>1 DEF TypeInv, HasPlan
<1>3. plan.to \in Versions /\ plan.to # 0 /\ HasSchema(plan.to)
  <2>1. HasSchema(plan.to)
    BY <1>2 DEF PlanInv
  <2> QED BY <1>2, <2>1, SchemaOfARef
<1>4. StockInv' /\ StoreInv'
  BY <1>1, <1>2, StockKept DEF StoreInv, registry
<1>5. PlanInv'
  <2>1. Upgrades' = Upgrades
    BY <1>1 DEF Upgrades
  <2>2. HasSchema(plan.to)'
    BY <1>1, <1>3 DEF HasSchema
  <2> QED BY <1>1, <1>2, <1>3, <2>1, <2>2 DEF PlanInv
<1>6. \A f \in Fields : shown'[f] \in 0 .. Newest(f)'
  <2>1. ASSUME NEW f \in Fields
        PROVE  shown'[f] \in 0 .. Newest(f)'
    <3>1. Newest(f)' = Newest(f) /\ Newest(f) \in Nat
      BY <1>1, <1>2, HistoryTypes DEF Newest
    <3>2. run.view[f] \in 0 .. Newest(f)
      BY <1>1, <1>2 DEF ViewInv
    <3>3. shown'[f] = run.view[f] \/ shown'[f] = 0
      BY <1>1
    <3> QED BY <3>1, <3>2, <3>3
  <2> QED BY <2>1
<1>7. ViewInv'
  BY <1>1, <1>2, <1>3, <1>6 DEF ViewInv, PlanInv
<1> QED BY <1>4, <1>5, <1>7 DEF TypeInv

LEMMA WriteOneGrows ==
    ASSUME StoreInv, NEW g \in Fields, NEW a \in Artifacts,
           history' = [f \in Fields |-> IF f = g THEN Put(f, a) ELSE history[f]]
    PROVE  /\ history' \in [Fields -> Seq(Artifacts)] /\ Grows
           /\ Place(g, a) \in 1 .. Newest(g)' /\ history'[g][Place(g, a)] = a
<1> DEFINE W == {g}
           as == [f \in W |-> a]
<1>1. W \in SUBSET Fields /\ as[g] = a /\ g \in W /\ \A f \in W : as[f] \in Artifacts
  OBVIOUS
<1>2. history' = [f \in Fields |-> IF f \in W THEN Put(f, as[f]) ELSE history[f]]
  <2>1. \A f \in Fields : (f = g <=> f \in W) /\ (f = g => as[f] = a)
    OBVIOUS
  <2> HIDE DEF W, as
  <2> QED BY <2>1
<1> HIDE DEF W, as
<1>3. /\ history' \in [Fields -> Seq(Artifacts)] /\ Grows
      /\ \A f \in W : Place(f, as[f]) \in 1 .. Newest(f)' /\ history'[f][Place(f, as[f])] = as[f]
  BY <1>1, <1>2, WriteGrows
<1> QED BY <1>1, <1>3

\* A person writes one value, between runs.
LEMMA WriteOneKeeps ==
    ASSUME TypeInv, run = None, NEW g \in Fields, NEW a \in Artifacts,
           history' = [history EXCEPT ![g] = Put(g, a)], Upset,
           UNCHANGED <<schemas, recipes, migrations, at, shown, cache, world, plan, run, ingests>>
    PROVE  TypeInv' /\ Grows /\ Place(g, a) \in DOMAIN history'[g] /\ history'[g][Place(g, a)] = a
<1>1. StockInv /\ StoreInv /\ PlanInv /\ ViewInv
  BY DEF TypeInv
<1>2. history' = [f \in Fields |-> IF f = g THEN Put(f, a) ELSE history[f]]
  BY <1>1 DEF StoreInv
<1>3. history' \in [Fields -> Seq(Artifacts)] /\ Grows
  BY <1>1, <1>2, WriteOneGrows
<1>4. Place(g, a) \in 1 .. Newest(g)' /\ history'[g][Place(g, a)] = a
  BY <1>1, <1>2, WriteOneGrows
<1>5. DOMAIN history'[g] = 1 .. Newest(g)'
  BY <1>3 DEF Newest
<1>6. StoreInv'
  <2>1. upsets' = upsets + 1 /\ upsets' \in 0 .. MaxUpsets /\ 1 .. upsets + 1 \subseteq 1 .. upsets' + 1
    BY <1>1, PlannerAssumption DEF StoreInv, Upset
  <2> QED BY <1>1, <1>3, <2>1 DEF StoreInv
<1>7. StockInv'
  BY <1>1, StockKept DEF registry
<1>8. PlanInv'
  <2>1. CASE HasPlan
    BY <1>1, <2>1, PlanKept
  <2>2. CASE ~HasPlan
    BY <2>2 DEF HasPlan, PlanInv
  <2> QED BY <2>1, <2>2
<1>9. ViewInv'
  <2>1. \A f \in Fields : shown[f] \in 0 .. Newest(f)'
    BY <1>1, <1>3, StillStored DEF ViewInv
  <2> QED BY <1>1, <2>1 DEF ViewInv
<1> QED BY <1>3, <1>4, <1>5, <1>6, <1>7, <1>8, <1>9 DEF TypeInv

LEMMA EditKeeps ==
    ASSUME TypeInv, NEW f \in Fields, NEW v \in Values, Edit(f, v)
    PROVE  /\ TypeInv' /\ Grows /\ run = None /\ UNCHANGED <<schemas, recipes, migrations, plan, run, at, ingests>>
           /\ \E k \in DOMAIN history'[f] : history'[f][k].by = "person"
<1> DEFINE a == Artifact(v, "present", "person", {}, 0, 0, {})
<1>1. a = [value |-> v, status |-> "present", by |-> "person", deps |-> {}, recipe |-> 0,
           accepted |-> 0, lineage |-> {}]
  BY DEF Artifact
<1>2. a \in Artifacts /\ a.by = "person"
  BY <1>1 DEF Artifacts
<1>3. /\ run = None /\ history' = [history EXCEPT ![f] = Put(f, a)] /\ Upset
      /\ UNCHANGED <<schemas, recipes, migrations, at, shown, cache, world, plan, run, ingests>>
  BY DEF Edit, registry
<1> HIDE DEF a
<1>4. TypeInv' /\ Grows /\ Place(f, a) \in DOMAIN history'[f] /\ history'[f][Place(f, a)] = a
  BY <1>2, <1>3, WriteOneKeeps
<1> QED BY <1>2, <1>3, <1>4

LEMMA AcceptKeeps ==
    ASSUME TypeInv, NEW f \in Fields, NEW r \in Recipes, AcceptLegacy(f, r)
    PROVE  /\ TypeInv' /\ Grows /\ run = None /\ UNCHANGED <<schemas, recipes, migrations, plan, run, at, ingests>>
           /\ \E k \in DOMAIN history'[f] : history'[f][k].by = "person"
<1> DEFINE old == history[f][Newest(f)]
           a == [old EXCEPT !.by = "person", !.recipe = r, !.accepted = r, !.lineage = {}]
<1>1. /\ run = None /\ Newest(f) # 0 /\ history' = [history EXCEPT ![f] = Put(f, a)] /\ Upset
      /\ UNCHANGED <<schemas, recipes, migrations, at, shown, cache, world, plan, run, ingests>>
  BY DEF AcceptLegacy, registry
<1>2. old \in Artifacts
  <2>1. StoreInv
    BY DEF TypeInv
  <2>2. Newest(f) \in 1 .. Newest(f)
    BY <1>1, <2>1, HistoryTypes
  <2> QED BY <2>1, <2>2, HistoryTypes
<1>3. r \in Nat
  BY RegistryAssumption
<1> HIDE DEF old
<1>4. a \in Artifacts /\ a.by = "person"
  BY <1>2, <1>3 DEF Artifacts
<1> HIDE DEF a
<1>5. TypeInv' /\ Grows /\ Place(f, a) \in DOMAIN history'[f] /\ history'[f][Place(f, a)] = a
  BY <1>1, <1>4, WriteOneKeeps
<1> QED BY <1>1, <1>4, <1>5

LEMMA IngestKeeps ==
    ASSUME TypeInv, NEW ref, NEW v \in Values, Ingest(ref, v)
    PROVE  TypeInv' /\ Grows
<1> DEFINE fields == {f \in Fields : Defined(ref, f) /\ ~Schema(ref).fields[f].computed}
           Imported(f) == Artifact(v, "present", "import", IF Vouched THEN FieldDeps(ref, f) ELSE {},
                                   IF Vouched THEN Schema(ref).fields[f].recipe ELSE 0, 0, {})
           a == [f \in fields |-> Imported(f)]
<1>1. StockInv /\ StoreInv /\ PlanInv /\ ViewInv
  BY DEF TypeInv
<1>2. /\ run = None /\ HasSchema(ref) /\ ingests < MaxIngests /\ ingests' = ingests + 1 /\ at' = ref
      /\ history' = [f \in Fields |-> IF f \in fields THEN Put(f, Imported(f)) ELSE history[f]]
      /\ shown' = [f \in Fields |-> IF f \in fields THEN Place(f, Imported(f)) ELSE 0]
      /\ UNCHANGED <<schemas, recipes, migrations, cache, world, plan, run, upsets>>
  BY DEF Ingest, registry
<1>3. ASSUME NEW f \in fields
      PROVE  Imported(f) \in Artifacts
  <2>1. FieldDeps(ref, f) \in SUBSET Deps /\ Schema(ref).fields[f].recipe \in Nat
    BY <1>1, <1>2, FieldDepsTypes
  <2> QED BY <2>1 DEF Imported, Artifact, Artifacts
<1>4. fields \in SUBSET Fields
  OBVIOUS
<1> HIDE DEF fields, Imported
<1>5. /\ \A f \in fields : a[f] \in Artifacts /\ a[f] = Imported(f)
      /\ history' = [f \in Fields |-> IF f \in fields THEN Put(f, a[f]) ELSE history[f]]
  BY <1>2, <1>3, <1>4
<1>6. /\ history' \in [Fields -> Seq(Artifacts)] /\ Grows
      /\ \A f \in fields : Place(f, a[f]) \in 1 .. Newest(f)'
  <2> HIDE DEF a
  <2> QED BY <1>1, <1>4, <1>5, WriteGrows
<1>7. StockInv' /\ StoreInv'
  BY <1>1, <1>2, <1>6, StockKept DEF StoreInv, registry
<1>8. ref \in Versions /\ ref # 0
  BY <1>1, <1>2, SchemaOfARef
<1>9. PlanInv'
  <2>1. Upgrades' = Upgrades
    BY <1>2 DEF Upgrades
  <2>2. HasSchema(plan.to)' <=> HasSchema(plan.to)
    BY <1>2 DEF HasSchema
  <2> QED BY <1>1, <1>2, <1>8, <2>1, <2>2 DEF PlanInv, HasPlan
<1>10. \A f \in Fields : shown'[f] \in 0 .. Newest(f)'
  <2>1. ASSUME NEW f \in Fields
        PROVE  shown'[f] \in 0 .. Newest(f)'
    <3>1. CASE f \in fields
      <4>1. shown'[f] = Place(f, a[f])
        BY <1>2, <1>5, <3>1
      <4> HIDE DEF a
      <4>2. Place(f, a[f]) \in 1 .. Newest(f)'
        BY <1>6, <3>1
      <4> QED BY <4>1, <4>2
    <3>2. CASE f \notin fields
      <4>1. shown'[f] = 0 /\ Newest(f)' \in Nat
        BY <1>2, <1>6, <3>2 DEF Grows
      <4> QED BY <4>1
    <3> QED BY <3>1, <3>2
  <2> QED BY <2>1
<1>11. ViewInv'
  BY <1>1, <1>2, <1>8, <1>10 DEF ViewInv
<1> QED BY <1>6, <1>7, <1>9, <1>11 DEF TypeInv

LEMMA ChangeKeeps == ASSUME TypeInv, Change PROVE TypeInv'
<1>1. StockInv /\ StoreInv /\ PlanInv /\ ViewInv
  BY DEF TypeInv
<1>2. /\ UNCHANGED <<schemas, recipes, migrations, history, at, shown, cache, plan, run, ingests>>
      /\ run = None /\ upsets < MaxUpsets /\ upsets' = upsets + 1
      /\ \/ world' = [world EXCEPT !.source = @ + 1]
         \/ world' = [world EXCEPT !.code = @ + 1]
  BY DEF Change, Upset, registry, record
<1>3. StoreInv'
  <2>1. /\ upsets \in Nat /\ upsets' \in 0 .. MaxUpsets /\ world.source \in 1 .. upsets + 1
        /\ world.code \in 1 .. upsets + 1
    BY <1>1, <1>2, PlannerAssumption DEF StoreInv
  <2>2. world = [source |-> world.source, code |-> world.code]
    BY <1>1 DEF StoreInv
  <2>3. \/ world' = [source |-> world.source + 1, code |-> world.code]
        \/ world' = [source |-> world.source, code |-> world.code + 1]
    BY <1>2, <2>2
  <2>4. world'.source \in 1 .. upsets' + 1 /\ world'.code \in 1 .. upsets' + 1
        /\ world' = [source |-> world'.source, code |-> world'.code]
    BY <1>2, <2>1, <2>3
  <2> QED BY <1>1, <1>2, <2>1, <2>4 DEF StoreInv
<1>4. StockInv'
  BY <1>1, <1>2, StockKept DEF registry
<1>5. PlanInv'
  <2>1. CASE HasPlan
    BY <1>1, <1>2, <2>1, PlanKept
  <2>2. CASE ~HasPlan
    BY <1>2, <2>2 DEF HasPlan, PlanInv
  <2> QED BY <2>1, <2>2
<1>6. ViewInv'
  BY <1>1, <1>2 DEF ViewInv, Newest
<1> QED BY <1>3, <1>4, <1>5, <1>6 DEF TypeInv

LEMMA StutterKeeps == ASSUME TypeInv, UNCHANGED vars PROVE TypeInv'
<1>1. StockInv /\ StoreInv /\ PlanInv /\ ViewInv
  BY DEF TypeInv
<1>2. UNCHANGED <<schemas, recipes, migrations, history, at, shown, cache, world, plan, run, ingests, upsets>>
  BY DEF vars, registry, record, budget
<1>3. StockInv' /\ StoreInv' /\ ViewInv'
  BY <1>1, <1>2, StockKept DEF StoreInv, ViewInv, Newest, registry
<1>4. PlanInv'
  <2>1. CASE HasPlan
    BY <1>1, <1>2, <2>1, PlanKept
  <2>2. CASE ~HasPlan
    BY <1>2, <2>2 DEF HasPlan, PlanInv
  <2> QED BY <2>1, <2>2
<1> QED BY <1>3, <1>4 DEF TypeInv

LEMMA TypeStep == TypeInv /\ [Next]_vars => TypeInv'
<1> SUFFICES ASSUME TypeInv, [Next]_vars
             PROVE  TypeInv'
  OBVIOUS
<1>1. CASE Register
  BY <1>1, RegisterKeeps
<1>2. CASE Replan
  BY <1>2, PlanKeeps DEF Replan
<1>3. CASE BeginRun
  BY <1>3, BeginRunKeeps
<1>4. CASE RunStep
  BY <1>4, SkipKeeps, TransformKeeps, AskKeeps, RefuseKeeps DEF RunStep
<1>5. CASE FailStep
  BY <1>5, FailKeeps
<1>6. CASE Hold
  BY <1>6, HoldKeeps
<1>7. CASE Publish
  BY <1>7, PublishKeeps
<1>8. ASSUME NEW d \in Drafts, NEW v \in Values, Ingest(d.ref, v)
      PROVE  TypeInv'
  BY <1>8, IngestKeeps
<1>9. ASSUME NEW f \in Fields, NEW v \in Values, Edit(f, v)
      PROVE  TypeInv'
  BY <1>9, EditKeeps
<1>10. ASSUME NEW f \in Fields, NEW r \in Recipes, AcceptLegacy(f, r)
       PROVE  TypeInv'
  BY <1>10, AcceptKeeps
<1>11. CASE Change
  BY <1>11, ChangeKeeps
<1>12. CASE UNCHANGED vars
  BY <1>12, StutterKeeps
<1> QED BY <1>1, <1>2, <1>3, <1>4, <1>5, <1>6, <1>7, <1>8, <1>9, <1>10, <1>11, <1>12 DEF Next

\* The types, the plan's order and direction, and what a run has seen are kept by every
\* step; each theorem below is a consequence.
THEOREM TypesKept == Spec => []TypeInv
<1>1. Init => TypeInv
  BY TypeInit
<1>2. TypeInv /\ [Next]_vars => TypeInv'
  BY TypeStep
<1> QED BY <1>1, <1>2, PTL DEF Spec

-----------------------------------------------------------------------------
(* What the runs check.                                                     *)

\* PlannerProperties.TypeOK, in every state.
THEOREM PlannerTypes == Spec => []TypeOK
<1>1. TypeInv => TypeOK
  <2> SUFFICES ASSUME TypeInv
               PROVE  TypeOK
    OBVIOUS
  <2>1. StockInv /\ StoreInv /\ PlanInv /\ ViewInv
    BY DEF TypeInv
  <2>2. schemas \subseteq Drafts /\ recipes \subseteq Recipes /\ migrations \subseteq Catalogue
    BY <2>1 DEF StockInv, GraphInv
  <2>3. \A f \in Fields : \A k \in DOMAIN history[f] : history[f][k].value \in Values
    <3>1. ASSUME NEW f \in Fields, NEW k \in DOMAIN history[f]
          PROVE  history[f][k].value \in Values
      <4>1. history[f][k] \in Artifacts
        BY <2>1, HistoryTypes
      <4> QED BY <4>1 DEF Artifacts
    <3> QED BY <3>1
  <2>4. world \in [source : Sources, code : Sources]
    <3>1. world.source \in Sources /\ world.code \in Sources
      BY <2>1, PlannerAssumption DEF StoreInv, Sources
    <3>2. world = [source |-> world.source, code |-> world.code]
      BY <2>1 DEF StoreInv
    <3> QED BY <3>1, <3>2
  <2>5. ASSUME plan # None
        PROVE  /\ plan.stale \cup plan.asked \subseteq Fields
               /\ \A p \in plan.steps : p.disposition \in Dispositions
    <3>1. plan \in Plans
      BY <2>1, <2>5 DEF PlanInv, HasPlan
    <3>2. plan.steps \subseteq PlanSteps /\ plan.stale \subseteq Fields /\ plan.asked \subseteq Fields
      BY <3>1 DEF Plans
    <3>3. \A p \in PlanSteps : p.disposition \in Dispositions
      BY DEF PlanSteps
    <3> QED BY <3>2, <3>3
  <2> QED BY <2>1, <2>2, <2>3, <2>4, <2>5 DEF ViewInv, TypeOK, Versions
<1> QED BY <1>1, TypesKept, PTL

\* PlannerProperties.ReadsFollowWrites, in every state of every run.
THEOREM ReadsFollow == Spec => []ReadsFollowWrites
<1>1. TypeInv => ReadsFollowWrites
  <2> SUFFICES ASSUME TypeInv, run # None, Cardinality({p.migration : p \in plan.steps}) = 1,
                      NEW j \in DOMAIN run.left, NEW k \in DOMAIN run.left,
                      Planned(run.left[j]).disposition # "blocked",
                      Planned(run.left[k]).step.writes \cap Inputs(Planned(run.left[j]).step) # {}
               PROVE  k <= j
    BY DEF ReadsFollowWrites
  <2>1. Sorted(run.left, plan.steps)
    BY DEF TypeInv, ViewInv
  <2>2. \A key : Planned(key) = StepOf(key, plan.steps)
    BY DEF Planned, StepOf
  <2> QED BY <2>1, <2>2 DEF Sorted
<1> QED BY <1>1, TypesKept, PTL

\* A run starts with every step of its plan, each once, steps that wait for each other
\* in a circle among them: _ordered drops and repeats none.
THEOREM StepsAreRunOnce ==
    Spec => [](plan # None => \A p \in plan.steps :
                  /\ \E j \in DOMAIN plan.order : plan.order[j] = p.key
                  /\ \A i, j \in DOMAIN plan.order : plan.order[i] = p.key /\ plan.order[j] = p.key => i = j)
<1>1. TypeInv => (plan # None => \A p \in plan.steps :
                     /\ \E j \in DOMAIN plan.order : plan.order[j] = p.key
                     /\ \A i, j \in DOMAIN plan.order : plan.order[i] = p.key /\ plan.order[j] = p.key => i = j)
  <2> SUFFICES ASSUME TypeInv, plan # None, NEW p \in plan.steps
               PROVE  /\ \E j \in DOMAIN plan.order : plan.order[j] = p.key
                      /\ \A i, j \in DOMAIN plan.order :
                            plan.order[i] = p.key /\ plan.order[j] = p.key => i = j
    OBVIOUS
  <2>1. EachOnce(plan.order, plan.steps)
    BY DEF TypeInv, PlanInv, HasPlan
  <2>2. p.key \in ToSet(plan.order)
    BY <2>1 DEF EachOnce, KeysOf
  <2> QED BY <2>1, <2>2 DEF EachOnce, Distinct, ToSet
<1> QED BY <1>1, TypesKept, PTL

\* PlannerProperties.MovesForward: what a run publishes cannot be left backwards, for
\* the upgrades have no cycle and those the plan followed are registered still.
THEOREM RunsMoveForward == Spec => MovesForward
<1>1. ASSUME TypeInv, [Next]_vars, at' # at, at # 0, run # None, plan.from = at
      PROVE  at' \in Reachable(at, Upgrades) /\ at \notin Reachable(at', Upgrades)
  <2>1. StockInv /\ PlanInv /\ ViewInv /\ HasPlan
    BY <1>1 DEF TypeInv, HasPlan
  <2>2. Publish
    <3>1. ~Register /\ ~Replan /\ ~BeginRun /\ ~Change
      BY <1>1 DEF Register, Replan, Plan, CanPlan, BeginRun, Change
    <3>2. \A f, v : ~Edit(f, v) /\ ~AcceptLegacy(f, v) /\ ~Ingest(f, v)
      BY <1>1 DEF Edit, AcceptLegacy, Ingest
    <3>3. ~RunStep /\ ~FailStep /\ ~Hold /\ ~UNCHANGED vars
      BY <1>1 DEF RunStep, SkipStep, RunTransform, AskModel, RefuseAsk, FailStep, Hold, vars, record
    <3> QED BY <1>1, <3>1, <3>2, <3>3 DEF Next
  <2>3. at' = plan.to /\ ~plan.blocked
    BY <1>1, <2>1, <2>2 DEF Publish, ViewInv
  <2>4. at' \in Reachable(at, Upgrades)
    BY <1>1, <2>1, <2>3 DEF PlanInv
  <2>5. Acyclic(Upgrades) /\ IsFiniteSet(Upgrades)
    BY <2>1, EligibleTypes DEF StockInv, GraphInv
  <2>6. at \notin Reachable(plan.to, Upgrades)
    BY <1>1, <2>3, <2>4, <2>5, NoWayBack
  <2> QED BY <2>3, <2>4, <2>6
<1>2. TypeInv /\ [Next]_vars =>
        [at' # at /\ at # 0 /\ run # None /\ plan.from = at =>
            at' \in Reachable(at, Upgrades) /\ at \notin Reachable(at', Upgrades)]_vars
  BY <1>1
<1> QED BY <1>2, TypesKept, PTL DEF Spec, MovesForward

-----------------------------------------------------------------------------
(* The stale report.                                                        *)

\* The place of a field holds a value that is current under the plan's target, or the
\* plan names the field.
Accounted(f, k) ==
    \/ ~Defined(plan.to, f) \/ Schema(plan.to).fields[f].computed
    \/ f \in plan.stale \cup plan.asked
    \/ Reusable(Currency(Held(f, k), FieldDeps(plan.to, f), Schema(plan.to).fields[f].recipe))
Unwritten == Fields \ WrittenBy(plan.steps)

\* As long as nobody writes, every field that no step writes is accounted for: by its
\* newest value until the plan is run, by the one the run has seen from then on.
StaleInv ==
    NobodyWrites =>
        /\ HasPlan /\ run = None /\ ~plan.blocked /\ ~plan.ran /\ plan.registry = RegistryHash
              => \A f \in Unwritten : Accounted(f, Newest(f))
        /\ run # None => \A f \in Unwritten : Accounted(f, run.view[f])

\* Whoever has written stays written.
LEMMA NobodyWroteBefore ==
    ASSUME TypeInv, StoreInv', Grows, ingests' \in Nat, ingests <= ingests', NobodyWrites'
    PROVE  NobodyWrites
<1>1. StoreInv /\ ingests \in Nat
  BY DEF TypeInv, ViewInv
<1>2. ASSUME NEW f \in Fields, NEW k \in DOMAIN history[f]
      PROVE  history[f][k].by # "person"
  <2>1. k \in 1 .. Newest(f)
    BY <1>1, HistoryTypes
  <2>2. history'[f] \in Seq(Artifacts)
    BY DEF StoreInv
  <2>3. k \in DOMAIN history'[f]
    <3>1. DOMAIN history'[f] = 1 .. Newest(f)'
      BY <2>2 DEF Newest
    <3> QED BY <2>1, <3>1 DEF Grows
  <2>4. history'[f][k] = history[f][k]
    BY <2>1 DEF Grows
  <2>5. history'[f][k].by # "person"
    BY <2>3 DEF NobodyWrites
  <2> QED BY <2>4, <2>5
<1>3. ingests <= 1
  BY <1>1 DEF NobodyWrites
<1> QED BY <1>2, <1>3 DEF NobodyWrites

\* A step that leaves the plan's target, the schemas and the recipes alone leaves what
\* is expected of a field.
LEMMA SameTarget ==
    ASSUME UNCHANGED <<schemas, recipes>>, plan'.to = plan.to, NEW f
    PROVE  /\ Schema(plan.to)' = Schema(plan.to) /\ (Defined(plan.to, f)' <=> Defined(plan.to, f))
           /\ FieldDeps(plan.to, f)' = FieldDeps(plan.to, f)
<1>1. Schema(plan.to)' = Schema(plan.to)
  BY DEF Schema
<1>2. Defined(plan.to, f)' <=> Defined(plan.to, f)
  BY <1>1 DEF Defined
<1>3. FieldDeps(plan.to, f)' = FieldDeps(plan.to, f)
  BY <1>1 DEF FieldDeps, DefDeps, RecipeDeps, RecipeHash
<1> QED BY <1>1, <1>2, <1>3

LEMMA StaleInit == Init => StaleInv
BY DEF Init, StaleInv, HasPlan

LEMMA RegisterStale == ASSUME TypeInv, StaleInv, Register PROVE StaleInv'
<1>1. StockInv /\ PlanInv /\ RegisterAny /\ run = None /\ run' = None /\ plan' = plan
  BY DEF TypeInv, Register
<1>2. SUFFICES ASSUME HasPlan', plan'.registry = RegistryHash'
               PROVE  FALSE
  BY <1>1 DEF StaleInv
<1>3. HasPlan /\ plan \in Plans
  BY <1>1, <1>2 DEF HasPlan, PlanInv
<1>4. /\ plan.registry[1] = Cardinality(schemas') /\ plan.registry[2] = Cardinality(recipes')
      /\ plan.registry[3] = Cardinality(migrations')
  BY <1>1, <1>2 DEF RegistryHash
<1>5. /\ Cardinality(schemas') <= Cardinality(schemas) /\ Cardinality(recipes') <= Cardinality(recipes)
      /\ Cardinality(migrations') <= Cardinality(migrations)
  BY <1>1, <1>3, <1>4 DEF PlanInv
<1>6. /\ Cardinality(schemas) \in Nat /\ Cardinality(recipes) \in Nat /\ Cardinality(migrations) \in Nat
      /\ Cardinality(schemas') \in Nat /\ Cardinality(recipes') \in Nat /\ Cardinality(migrations') \in Nat
  <2>1. plan.registry[1] \in Nat /\ plan.registry[2] \in Nat /\ plan.registry[3] \in Nat
    BY <1>3 DEF Plans
  <2> QED BY <1>1, <1>4, <2>1, HashTypes
<1>7. \/ Cardinality(schemas) < Cardinality(schemas')
      \/ Cardinality(recipes) < Cardinality(recipes')
      \/ Cardinality(migrations) < Cardinality(migrations')
  BY <1>1, RegisterGrows
<1> QED BY <1>5, <1>6, <1>7

LEMMA PlanStale == ASSUME TypeInv, NEW target, Plan(target) PROVE StaleInv'
<1>1. StockInv /\ StoreInv /\ ViewInv /\ CanPlan(target) /\ run = None /\ run' = None
      /\ UNCHANGED <<schemas, recipes, history>> /\ plan' = PlanOf(target)
  BY DEF TypeInv, Plan, CanPlan, registry, record
<1> DEFINE p == PlanOf(target)
<1>2. Fresh(p, target)
  BY <1>1, PlanIsFresh DEF ViewInv
<1> HIDE DEF p
<1>3. plan' = p /\ plan'.to = target
  BY <1>1, <1>2 DEF p, Fresh
<1>4. SUFFICES ASSUME ~p.blocked, NEW f \in Fields \ WrittenBy(p.steps)
               PROVE  Accounted(f, Newest(f))'
  BY <1>1, <1>3 DEF StaleInv, Unwritten
<1>5. p.stale \cup p.asked = StaleFields(target, WrittenBy(p.steps))
  BY <1>2, <1>4 DEF Fresh
<1>6. \/ ~Defined(target, f) \/ Schema(target).fields[f].computed
      \/ f \in p.stale \cup p.asked
      \/ Reusable(Currency(Held(f, Newest(f)), FieldDeps(target, f), Schema(target).fields[f].recipe))
  BY <1>4, <1>5 DEF StaleFields
<1>7. Schema(target)' = Schema(target) /\ Schema(plan.to)' = Schema(target)
  BY <1>1, <1>3 DEF Schema
<1>8. Defined(plan.to, f)' <=> Defined(target, f)
  BY <1>7 DEF Defined
<1>9. FieldDeps(plan.to, f)' = FieldDeps(target, f)
  BY <1>1, <1>3, <1>7 DEF FieldDeps, DefDeps, RecipeDeps, RecipeHash
<1>10. Newest(f)' = Newest(f) /\ Held(f, Newest(f))' = Held(f, Newest(f))
  BY <1>1 DEF Newest, Held
<1> QED BY <1>3, <1>6, <1>7, <1>8, <1>9, <1>10 DEF Accounted

LEMMA BeginRunStale == ASSUME TypeInv, StaleInv, BeginRun PROVE StaleInv'
<1>1. /\ run = None /\ plan # None /\ at # 0 /\ ~plan.blocked /\ ~plan.ran /\ plan.registry = RegistryHash
      /\ plan' = [plan EXCEPT !.ran = TRUE]
      /\ run' = [left |-> plan.order, held |-> plan.asked # {}, view |-> [f \in Fields |-> Newest(f)]]
      /\ UNCHANGED <<schemas, recipes, migrations, history, at, shown, cache, world, ingests, upsets>>
  BY DEF BeginRun, registry, record, budget
<1>2. HasPlan /\ plan \in Plans
  BY <1>1 DEF HasPlan, PlanInv, TypeInv
<1>3. /\ plan'.to = plan.to /\ plan'.steps = plan.steps /\ plan'.asked = plan.asked
      /\ plan'.stale = plan.stale /\ plan'.ran
  BY <1>1, <1>2 DEF Plans
<1>4. NobodyWrites' => NobodyWrites
  BY <1>1 DEF NobodyWrites
<1>5. SUFFICES ASSUME NobodyWrites, NEW f \in Unwritten
               PROVE  Accounted(f, run.view[f])'
  BY <1>3, <1>4 DEF StaleInv, Unwritten
<1>6. Accounted(f, Newest(f))
  BY <1>1, <1>2, <1>5 DEF StaleInv
<1>7. run'.view[f] = Newest(f)
  BY <1>1 DEF Unwritten
<1>8. Held(f, run.view[f])' = Held(f, Newest(f))
  BY <1>1, <1>7 DEF Held
<1> QED BY <1>1, <1>3, <1>6, <1>8, SameTarget DEF Accounted

\* A step of a run leaves alone what it does not write.
LEMMA RunStale ==
    ASSUME TypeInv, StaleInv, Working, StoreInv', Grows,
           UNCHANGED <<schemas, recipes, plan, ingests>>,
           \A f \in Fields \ Now.step.writes : history'[f] = history[f] /\ run'.view[f] = run.view[f]
    PROVE  StaleInv'
<1>1. run # None /\ plan.ran /\ ingests \in Nat
  BY DEF Working, TypeInv, ViewInv
<1>2. SUFFICES ASSUME NobodyWrites', NEW f \in Unwritten
               PROVE  Accounted(f, run.view[f])'
  BY <1>1 DEF StaleInv, Unwritten
<1>3. NobodyWrites
  BY <1>1, <1>2, NobodyWroteBefore
<1>4. Accounted(f, run.view[f])
  BY <1>1, <1>2, <1>3 DEF StaleInv
<1>5. f \in Fields \ Now.step.writes
  BY NowTypes DEF Unwritten, WrittenBy
<1>6. Held(f, run.view[f])' = Held(f, run.view[f])
  BY <1>5 DEF Held
<1> QED BY <1>4, <1>6, SameTarget DEF Accounted

\* Between runs a second import, or a person, is somebody who writes.
LEMMA IngestStale == ASSUME TypeInv, NEW ref, NEW v \in Values, Ingest(ref, v) PROVE StaleInv'
<1>1. PlanInv /\ ViewInv
  BY DEF TypeInv
<1>2. run = None /\ run' = None /\ plan' = plan /\ ingests' = ingests + 1
  BY DEF Ingest
<1>3. SUFFICES ASSUME NobodyWrites', HasPlan
               PROVE  FALSE
  BY <1>2 DEF StaleInv, HasPlan
<1>4. ingests \in Nat /\ 1 <= ingests
  BY <1>1, <1>3 DEF PlanInv, ViewInv
<1>5. ingests + 1 <= 1
  BY <1>2, <1>3 DEF NobodyWrites
<1> QED BY <1>4, <1>5

LEMMA StaleStep == TypeInv /\ StaleInv /\ [Next]_vars => StaleInv'
<1> SUFFICES ASSUME TypeInv, StaleInv, [Next]_vars
             PROVE  StaleInv'
  OBVIOUS
<1>1. CASE Register
  BY <1>1, RegisterStale
<1>2. CASE Replan
  BY <1>2, PlanStale DEF Replan
<1>3. CASE BeginRun
  BY <1>3, BeginRunStale
<1>4. ASSUME SkipStep \/ RefuseAsk \/ FailStep
      PROVE  StaleInv'
  <2>1. /\ Working /\ UNCHANGED <<schemas, recipes, plan, history, ingests>> /\ run'.view = run.view
    BY <1>4 DEF SkipStep, RefuseAsk, Asking, FailStep, Done, registry, record, budget
  <2>2. StoreInv' /\ Grows
    BY <1>4, SkipKeeps, RefuseKeeps, FailKeeps DEF TypeInv
  <2> QED BY <2>1, <2>2, RunStale
<1>5. ASSUME RunTransform
      PROVE  StaleInv'
  <2>1. /\ Working /\ UNCHANGED <<schemas, recipes, plan, world, ingests, upsets>>
        /\ Now.disposition = "deterministic" /\ Store(Now, Compute(Now, run.view), "present")
    BY <1>5 DEF RunTransform, registry, budget
  <2>2. Compute(Now, run.view) \in Values
    BY <2>1, ComputeType
  <2>3. /\ StoreInv' /\ Grows
        /\ \A f \in Fields \ Now.step.writes : history'[f] = history[f] /\ run'.view[f] = run.view[f]
    BY <2>1, <2>2, StoreGrows
  <2> QED BY <2>1, <2>3, RunStale
<1>6. ASSUME AskModel
      PROVE  StaleInv'
  <2>1. Working /\ UNCHANGED <<schemas, recipes, plan, world, ingests, upsets>>
    BY <1>6, AskIsStore
  <2>2. PICK v \in Values, status \in {"present", "review"} : Store(Now, v, status)
    BY <1>6, AskIsStore
  <2>3. /\ StoreInv' /\ Grows
        /\ \A f \in Fields \ Now.step.writes : history'[f] = history[f] /\ run'.view[f] = run.view[f]
    BY <2>1, <2>2, StoreGrows
  <2> QED BY <2>1, <2>3, RunStale
<1>7. ASSUME Hold \/ Publish
      PROVE  StaleInv'
  <2>1. run # None /\ run' = None /\ plan' = plan
    BY <1>7 DEF Hold, Publish
  <2>2. plan'.ran
    BY <2>1 DEF TypeInv, ViewInv
  <2> QED BY <2>1, <2>2 DEF StaleInv
<1>8. ASSUME NEW d \in Drafts, NEW v \in Values, Ingest(d.ref, v)
      PROVE  StaleInv'
  BY <1>8, IngestStale
<1>9. ASSUME NEW f \in Fields,
             (\E v \in Values : Edit(f, v)) \/ (\E r \in Recipes : AcceptLegacy(f, r))
      PROVE  StaleInv'
  <2>1. \E k \in DOMAIN history'[f] : history'[f][k].by = "person"
    BY <1>9, EditKeeps, AcceptKeeps
  <2> QED BY <2>1 DEF StaleInv, NobodyWrites
<1>10. ASSUME Change \/ UNCHANGED vars
       PROVE  StaleInv'
  <2>1. UNCHANGED <<schemas, recipes, migrations, history, plan, run, ingests>>
    BY <1>10 DEF Change, vars, registry, record, budget
  <2>2. (NobodyWrites' <=> NobodyWrites) /\ (HasPlan' <=> HasPlan) /\ Unwritten' = Unwritten
        /\ RegistryHash' = RegistryHash
    BY <2>1 DEF NobodyWrites, HasPlan, Unwritten, RegistryHash
  <2>3. \A f : (Accounted(f, Newest(f))' <=> Accounted(f, Newest(f)))
               /\ (Accounted(f, run.view[f])' <=> Accounted(f, run.view[f]))
    <3> TAKE f
    <3>1. Held(f, Newest(f))' = Held(f, Newest(f)) /\ Held(f, run.view[f])' = Held(f, run.view[f])
      BY <2>1 DEF Held, Newest
    <3> QED BY <2>1, <3>1, SameTarget DEF Accounted
  <2> QED BY <2>1, <2>2, <2>3 DEF StaleInv
<1> QED BY <1>1, <1>2, <1>3, <1>4, <1>5, <1>6, <1>7, <1>8, <1>9, <1>10 DEF Next, RunStep

\* PlannerProperties.StaleIsReported, of every publication.
THEOREM StaleReported == Spec => StaleIsReported
<1>1. Spec => [](TypeInv /\ StaleInv)
  <2>1. Init => TypeInv /\ StaleInv
    BY TypeInit, StaleInit
  <2>2. TypeInv /\ StaleInv /\ [Next]_vars => TypeInv' /\ StaleInv'
    BY TypeStep, StaleStep
  <2> QED BY <2>1, <2>2, PTL DEF Spec
<1>2. TypeInv /\ StaleInv =>
        [Publish /\ NobodyWrites =>
            LET written == UNION {p.step.writes : p \in plan.steps} IN
            \A f \in Fields \ written :
                \/ ~Defined(at', f) \/ Schema(at').fields[f].computed
                \/ f \in plan.stale
                \/ Reusable(Currency(Held(f, shown'[f]), FieldDeps(at', f),
                                      Schema(at').fields[f].recipe))]_vars
  <2> SUFFICES ASSUME TypeInv, StaleInv, Publish, NobodyWrites, NEW f \in Unwritten
               PROVE  \/ ~Defined(at', f) \/ Schema(at').fields[f].computed
                      \/ f \in plan.stale
                      \/ Reusable(Currency(Held(f, shown'[f]), FieldDeps(at', f),
                                            Schema(at').fields[f].recipe))
    BY DEF Unwritten, WrittenBy
  <2>1. /\ run # None /\ ~run.held /\ at' = plan.to /\ f \in Fields
        /\ shown' = [g \in Fields |-> IF Defined(plan.to, g) THEN run.view[g] ELSE 0]
    BY DEF Publish, Unwritten
  <2>2. plan.asked = {}
    BY <2>1 DEF TypeInv, ViewInv
  <2>3. Accounted(f, run.view[f])
    BY <2>1 DEF StaleInv
  <2>4. Defined(plan.to, f) => shown'[f] = run.view[f]
    BY <2>1
  <2> QED BY <2>1, <2>2, <2>3, <2>4 DEF Accounted
<1> QED BY <1>1, <1>2, PTL DEF Spec, StaleIsReported
=============================================================================

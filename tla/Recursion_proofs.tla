--------------------------- MODULE Recursion_proofs ---------------------------
(* Induction and recursion over the naturals, stated with sets and functions *)
(* where the library has operators, so that the provers can instantiate them:*)
(* the facts about paths, levels, sums and loops over a chain rest on these. *)
EXTENDS Naturals, Sequences, WellFoundedInduction, TLAPS

\* Of some naturals one is the least.
LEMMA LeastNatural ==
    ASSUME NEW T, T \subseteq Nat, T # {}
    PROVE  \E n \in T : \A m \in T : n <= m
<1> DEFINE R == OpToRel(<, Nat)
<1>1. IsWellFoundedOn(R, Nat)
  BY NatLessThanWellFounded
<1>2. \A m, n \in Nat : m < n => <<m, n>> \in R
  BY DEF OpToRel
<1> HIDE DEF R
<1>3. PICK n \in T : \A m \in T : <<m, n>> \notin R
  BY <1>1, WFMin
<1>4. ASSUME NEW m \in T
      PROVE  n <= m
  <2>1. m \in Nat /\ n \in Nat
    OBVIOUS
  <2>2. ~(m < n)
    BY <1>2, <1>3, <2>1
  <2> QED BY <2>1, <2>2
<1> QED BY <1>4

\* A set that holds 0, and with each natural the next, holds them all.
LEMMA SetInduction ==
    ASSUME NEW T, 0 \in T, \A n \in Nat : n \in T => n + 1 \in T
    PROVE  Nat \subseteq T
<1> SUFFICES ASSUME Nat \ T # {}
             PROVE  FALSE
  OBVIOUS
<1>1. PICK n \in Nat \ T : \A m \in Nat \ T : n <= m
  <2>1. Nat \ T \subseteq Nat
    OBVIOUS
  <2> QED BY <2>1, LeastNatural
<1>2. n # 0
  OBVIOUS
<1>3. n - 1 \in Nat /\ n - 1 \in T
  BY <1>1, <1>2
<1> QED BY <1>1, <1>3

-----------------------------------------------------------------------------
(* Recursive functions.                                                     *)

\* g obeys the recursion up to n.
Solves(g, n, S, a, F) ==
    g \in [0 .. n -> S] /\ g[0] = a /\ \A i \in 0 .. n - 1 : g[i + 1] = F[<<i + 1, g[i]>>]

LEMMA Extended ==
    ASSUME NEW S, NEW a, NEW F \in [Nat \X S -> S], NEW n \in Nat, NEW g, Solves(g, n, S, a, F)
    PROVE  \E h : Solves(h, n + 1, S, a, F)
<1> DEFINE h == [i \in 0 .. n + 1 |-> IF i = n + 1 THEN F[<<n + 1, g[n]>>] ELSE g[i]]
<1>1. g \in [0 .. n -> S] /\ n \in 0 .. n
  BY DEF Solves
<1>2. g[n] \in S /\ <<n + 1, g[n]>> \in Nat \X S
  BY <1>1
<1>3. F[<<n + 1, g[n]>>] \in S
  BY <1>2
<1>4. h \in [0 .. n + 1 -> S]
  BY <1>1, <1>3
<1>5. h[0] = a
  BY DEF Solves
<1>6. ASSUME NEW i \in 0 .. (n + 1) - 1
      PROVE  h[i + 1] = F[<<i + 1, h[i]>>]
  <2>1. CASE i = n
    <3>1. h[i + 1] = F[<<n + 1, g[n]>>] /\ h[i] = g[n]
      BY <2>1
    <3> QED BY <2>1, <3>1
  <2>2. CASE i \in 0 .. n - 1
    <3>1. h[i + 1] = g[i + 1] /\ h[i] = g[i]
      BY <2>2
    <3> QED BY <2>2, <3>1 DEF Solves
  <2> QED BY <2>1, <2>2
<1> HIDE DEF h
<1> QED BY <1>4, <1>5, <1>6 DEF Solves

LEMMA Solvable ==
    ASSUME NEW S, NEW a \in S, NEW F \in [Nat \X S -> S]
    PROVE  \A n \in Nat : \E g : Solves(g, n, S, a, F)
<1> DEFINE T == {n \in Nat : \E g : Solves(g, n, S, a, F)}
<1>1. 0 \in T
  <2>1. Solves([i \in 0 .. 0 |-> a], 0, S, a, F)
    BY DEF Solves
  <2> QED BY <2>1
<1>2. ASSUME NEW n \in Nat, n \in T
      PROVE  n + 1 \in T
  <2>1. PICK g : Solves(g, n, S, a, F)
    BY <1>2
  <2>2. \E h : Solves(h, n + 1, S, a, F)
    BY <2>1, Extended
  <2> QED BY <2>2
<1>3. Nat \subseteq T
  <2> HIDE DEF T
  <2> QED BY <1>1, <1>2, SetInduction
<1> QED BY <1>3

LEMMA SolutionsAgree ==
    ASSUME NEW S, NEW a, NEW F, NEW n \in Nat, NEW k \in Nat, n <= k, NEW g, NEW h,
           Solves(g, n, S, a, F), Solves(h, k, S, a, F)
    PROVE  g[n] = h[n]
<1> DEFINE T == {i \in Nat : i <= n => g[i] = h[i]}
<1>1. 0 \in T
  BY DEF Solves
<1>2. ASSUME NEW i \in Nat, i \in T
      PROVE  i + 1 \in T
  <2>1. SUFFICES ASSUME i + 1 <= n
                 PROVE  g[i + 1] = h[i + 1]
    OBVIOUS
  <2>2. g[i] = h[i] /\ i \in 0 .. n - 1 /\ i \in 0 .. k - 1
    BY <1>2, <2>1
  <2> QED BY <2>2 DEF Solves
<1>3. Nat \subseteq T
  <2> HIDE DEF T
  <2> QED BY <1>1, <1>2, SetInduction
<1> QED BY <1>3

\* A function defined by recursion up to a natural exists.
LEMMA RecursionUpTo ==
    ASSUME NEW S, NEW a \in S, NEW F \in [Nat \X S -> S], NEW N \in Nat
    PROVE  \E g : Solves(g, N, S, a, F)
BY Solvable

\* g is defined over the naturals from a by F.
Recurses(g, S, a, F) ==
    g \in [Nat -> S] /\ g[0] = a /\ \A n \in Nat \ {0} : g[n] = F[<<n, g[n - 1]>>]

\* A function defined by recursion over the naturals exists, and stays in a set that
\* its step stays in.
LEMMA RecursionExists ==
    ASSUME NEW S, NEW a \in S, NEW F \in [Nat \X S -> S]
    PROVE  \E g : Recurses(g, S, a, F)
<1> DEFINE Part(n) == CHOOSE g : Solves(g, n, S, a, F)
           G == [n \in Nat |-> Part(n)[n]]
<1>1. \A n \in Nat : Solves(Part(n), n, S, a, F)
  BY Solvable
<1> HIDE DEF Part
<1>2. ASSUME NEW n \in Nat
      PROVE  Part(n)[n] \in S
  <2>1. Part(n) \in [0 .. n -> S] /\ n \in 0 .. n
    BY <1>1 DEF Solves
  <2> QED BY <2>1
<1>3. G \in [Nat -> S]
  BY <1>2
<1>4. G[0] = a
  BY <1>1 DEF Solves
<1>5. ASSUME NEW n \in Nat \ {0}
      PROVE  G[n] = F[<<n, G[n - 1]>>]
  <2>1. n \in Nat /\ n - 1 \in Nat /\ n - 1 <= n /\ (n - 1) + 1 = n
    OBVIOUS
  <2>2. Part(n - 1)[n - 1] = Part(n)[n - 1]
    BY <1>1, <2>1, SolutionsAgree
  <2>3. Part(n)[n] = F[<<n, Part(n)[n - 1]>>]
    <3>1. Solves(Part(n), n, S, a, F) /\ n - 1 \in 0 .. n - 1
      BY <1>1
    <3> QED BY <2>1, <3>1 DEF Solves
  <2>4. G[n] = Part(n)[n] /\ G[n - 1] = Part(n - 1)[n - 1]
    BY <2>1
  <2> HIDE DEF G
  <2> QED BY <2>2, <2>3, <2>4
<1> HIDE DEF G
<1>6. Recurses(G, S, a, F)
  BY <1>3, <1>4, <1>5 DEF Recurses
<1> QED BY <1>6
=============================================================================

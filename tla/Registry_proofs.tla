---------------------------- MODULE Registry_proofs ----------------------------
(* Theorems about Registry, for every catalogue of migrations, every registry *)
(* that is opened and every preference: the graph of upgrades stays acyclic   *)
(* and can be opened again, and a path is found exactly when there is one and *)
(* is the only best one.                                                      *)
EXTENDS RegistryProperties, FiniteSetTheorems, Recursion_proofs

-----------------------------------------------------------------------------
(* Levels and what can be reached.                                          *)

Grown(level, among) == level \cup UNION {After(r, among) : r \in level}

\* The recursion that defines the levels has a solution.
LEMMA LevelsDef ==
    ASSUME NEW ref, NEW among
    PROVE  /\ Levels(ref, among)[0] = {ref}
           /\ \A n \in Nat \ {0} : Levels(ref, among)[n] = Grown(Levels(ref, among)[n - 1], among)
<1> DEFINE S == SUBSET ({ref} \cup {m.to : m \in among})
           F == [x \in Nat \X S |-> Grown(x[2], among)]
           Body(g) == [n \in Nat |-> IF n = 0 THEN {ref}
                          ELSE g[n - 1] \cup UNION {After(r, among) : r \in g[n - 1]}]
<1>1. F \in [Nat \X S -> S]
  BY DEF After, Grown
<1>2. {ref} \in S
  OBVIOUS
<1>3. \A n \in Nat, x \in S : F[<<n, x>>] = Grown(x, among)
  OBVIOUS
<1> HIDE DEF F, S
<1>4. PICK g : Recurses(g, S, {ref}, F)
  BY <1>1, <1>2, RecursionExists
<1>5. g[0] = {ref} /\ \A n \in Nat \ {0} : g[n] = Grown(g[n - 1], among)
  <2>1. \A n \in Nat \ {0} : n \in Nat /\ n - 1 \in Nat
    OBVIOUS
  <2> QED BY <1>3, <1>4, <2>1 DEF Recurses
<1>6. g = Body(g)
  <2>1. \A n \in Nat : g[n] = Body(g)[n]
    BY <1>5 DEF Grown
  <2>2. g \in [Nat -> S]
    BY <1>4 DEF Recurses
  <2> QED BY <2>1, <2>2
<1>7. Levels(ref, among) = Body(Levels(ref, among))
  BY <1>6 DEF Levels
<1> QED BY <1>7 DEF Grown

\* A set that is closed under the edges holds all levels of what it holds.
LEMMA LevelsLeast ==
    ASSUME NEW ref, NEW among, NEW C, ref \in C, \A m \in among : m.from \in C => m.to \in C
    PROVE  \A n \in Nat : Levels(ref, among)[n] \subseteq C
<1> DEFINE L == Levels(ref, among)
           T == {n \in Nat : L[n] \subseteq C}
<1>1. 0 \in T
  BY LevelsDef
<1>2. ASSUME NEW n \in Nat, n \in T
      PROVE  n + 1 \in T
  <2>1. L[n + 1] = Grown(L[n], among)
    <3>1. n + 1 \in Nat \ {0} /\ (n + 1) - 1 = n
      OBVIOUS
    <3> QED BY <3>1, LevelsDef
  <2> HIDE DEF L
  <2> QED BY <1>2, <2>1 DEF Grown, After
<1>3. Nat \subseteq T
  <2> HIDE DEF T
  <2> QED BY <1>1, <1>2, SetInduction
<1> QED BY <1>3

LEMMA LevelsGrow ==
    ASSUME NEW ref, NEW among, NEW n \in Nat
    PROVE  /\ Levels(ref, among)[n + 1] = Grown(Levels(ref, among)[n], among)
           /\ Levels(ref, among)[n] \subseteq Levels(ref, among)[n + 1]
<1>1. n + 1 \in Nat \ {0} /\ (n + 1) - 1 = n
  OBVIOUS
<1>2. Levels(ref, among)[n + 1] = Grown(Levels(ref, among)[n], among)
  BY <1>1, LevelsDef
<1> QED BY <1>2 DEF Grown

\* As many levels as there are edges are enough: a level that is not the last adds a
\* target, and there are not more targets than edges.
LEMMA LevelsSaturate ==
    ASSUME NEW ref, NEW among, IsFiniteSet(among)
    PROVE  LET n == Cardinality(among) IN
           Grown(Levels(ref, among)[n], among) = Levels(ref, among)[n]
<1> DEFINE L == Levels(ref, among)
           Targets == {m.to : m \in among}
           V == {ref} \cup Targets
           N == Cardinality(among)
           T == {n \in Nat : (L[n + 1] # L[n]) => Cardinality(L[n]) >= n + 1}
<1>1. IsFiniteSet(Targets) /\ Cardinality(Targets) <= N
  <2> DEFINE f == [m \in among |-> m.to]
  <2>1. f \in Surjection(among, Targets)
    BY DEF Surjection
  <2> HIDE DEF f
  <2> QED BY <2>1, FS_Surjection
<1>2. IsFiniteSet(V) /\ Cardinality(V) <= N + 1 /\ N \in Nat
  <2>1. IsFiniteSet(V) /\ Cardinality(V) \in {Cardinality(Targets), Cardinality(Targets) + 1}
    BY <1>1, FS_AddElement
  <2>2. N \in Nat /\ Cardinality(Targets) \in Nat
    BY <1>1, FS_CardinalityType
  <2> HIDE DEF Targets, V, N
  <2> QED BY <1>1, <2>1, <2>2
<1>3. \A n \in Nat : L[n] \subseteq V
  <2>1. ref \in V /\ \A m \in among : m.from \in V => m.to \in V
    OBVIOUS
  <2> HIDE DEF V
  <2> QED BY <2>1, LevelsLeast
<1>4. \A n \in Nat : IsFiniteSet(L[n]) /\ Cardinality(L[n]) \in Nat
  BY <1>2, <1>3, FS_Subset, FS_CardinalityType
<1>5. \A n \in Nat : L[n + 1] = Grown(L[n], among) /\ L[n] \subseteq L[n + 1]
  BY LevelsGrow
<1>6. L[0] = {ref}
  BY LevelsDef
<1> HIDE DEF L, V, Targets
<1>7. 0 \in T
  <2>1. Cardinality(L[0]) = 1
    BY <1>6, FS_Singleton
  <2> QED BY <2>1
<1>8. ASSUME NEW n \in Nat, n \in T
      PROVE  n + 1 \in T
  <2>1. SUFFICES ASSUME L[(n + 1) + 1] # L[n + 1]
                 PROVE  Cardinality(L[n + 1]) >= (n + 1) + 1
    OBVIOUS
  <2>2. L[n + 1] # L[n]
    <3>1. n + 1 \in Nat
      OBVIOUS
    <3> QED BY <1>5, <2>1, <3>1
  <2>3. Cardinality(L[n]) >= n + 1
    BY <1>8, <2>2
  <2>4. n + 1 \in Nat /\ IsFiniteSet(L[n + 1]) /\ Cardinality(L[n + 1]) \in Nat
    <3>1. n + 1 \in Nat
      OBVIOUS
    <3> QED BY <1>4, <3>1
  <2>5. Cardinality(L[n]) < Cardinality(L[n + 1])
    <3>1. Cardinality(L[n]) <= Cardinality(L[n + 1])
      BY <1>5, <2>4, FS_Subset
    <3>2. Cardinality(L[n]) # Cardinality(L[n + 1])
      BY <1>5, <2>2, <2>4, FS_Subset
    <3> QED BY <1>4, <2>4, <3>1, <3>2
  <2> QED BY <1>4, <2>3, <2>4, <2>5
<1>9. Nat \subseteq T
  <2> HIDE DEF T
  <2> QED BY <1>7, <1>8, SetInduction
<1>10. L[N + 1] = L[N]
  <2>1. SUFFICES ASSUME L[N + 1] # L[N]
                 PROVE  FALSE
    OBVIOUS
  <2>2. Cardinality(L[N]) >= N + 1
    BY <1>2, <1>9, <2>1
  <2>3. L[N] = V
    <3>1. L[N] \subseteq V /\ Cardinality(L[N]) <= Cardinality(V)
      BY <1>2, <1>3, FS_Subset
    <3>2. Cardinality(L[N]) = Cardinality(V)
      <4>1. Cardinality(L[N]) \in Nat /\ Cardinality(V) \in Nat
        BY <1>2, <1>4, FS_CardinalityType
      <4> QED BY <1>2, <2>2, <3>1, <4>1
    <3> QED BY <1>2, <3>1, <3>2, FS_Subset
  <2>4. N + 1 \in Nat
    BY <1>2
  <2>5. L[N + 1] \subseteq V /\ L[N] \subseteq L[N + 1]
    BY <1>2, <1>3, <1>5, <2>4
  <2> QED BY <2>1, <2>3, <2>5
<1> QED BY <1>2, <1>5, <1>10 DEF L

\* What is reached contains where one starts, and where every edge from it leads.
LEMMA ReachedFromItself ==
    ASSUME NEW ref, NEW among, IsFiniteSet(among)
    PROVE  ref \in Reachable(ref, among)
<1>1. Cardinality(among) \in Nat
  BY FS_CardinalityType
<1>2. \A n \in Nat : ref \in Levels(ref, among)[n]
  <2> DEFINE T == {n \in Nat : ref \in Levels(ref, among)[n]}
  <2>1. 0 \in T
    BY LevelsDef
  <2>2. \A n \in Nat : n \in T => n + 1 \in T
    BY LevelsGrow
  <2> HIDE DEF T
  <2>3. Nat \subseteq T
    BY <2>1, <2>2, SetInduction
  <2> QED BY <2>3 DEF T
<1> QED BY <1>1, <1>2 DEF Reachable

LEMMA ReachedOnward ==
    ASSUME NEW ref, NEW among, IsFiniteSet(among), NEW m \in among, m.from \in Reachable(ref, among)
    PROVE  m.to \in Reachable(ref, among)
<1>1. m.to \in Grown(Reachable(ref, among), among)
  BY DEF Grown, After
<1> QED BY <1>1, LevelsSaturate DEF Reachable

\* ... and is contained in every set of which that is true.
LEMMA ReachedLeast ==
    ASSUME NEW ref, NEW among, IsFiniteSet(among),
           NEW C, ref \in C, \A m \in among : m.from \in C => m.to \in C
    PROVE  Reachable(ref, among) \subseteq C
BY LevelsLeast, FS_CardinalityType DEF Reachable

LEMMA ReachedTransitively ==
    ASSUME NEW ref, NEW among, IsFiniteSet(among), NEW r \in Reachable(ref, among)
    PROVE  Reachable(r, among) \subseteq Reachable(ref, among)
BY ReachedOnward, ReachedLeast

LEMMA ReachedByMore ==
    ASSUME NEW ref, NEW among, IsFiniteSet(among), NEW fewer \in SUBSET among
    PROVE  Reachable(ref, fewer) \subseteq Reachable(ref, among)
<1>1. IsFiniteSet(fewer)
  BY FS_Subset
<1>2. \A m \in fewer : m.from \in Reachable(ref, among) => m.to \in Reachable(ref, among)
  BY ReachedOnward
<1> QED BY <1>1, <1>2, ReachedFromItself, ReachedLeast

-----------------------------------------------------------------------------
(* Acyclicity.                                                              *)

Acyclic(among) == \A m \in among : m.from \notin Reachable(m.to, among)

\* What can be reached with one edge more: what could be, and, if the edge starts
\* there, what could be reached from its end.
LEMMA ReachedWithOneMore ==
    ASSUME NEW ref, NEW among, IsFiniteSet(among), NEW m, m.from \notin Reachable(m.to, among)
    PROVE  Reachable(ref, among \cup {m}) \subseteq
              Reachable(ref, among)
                 \cup (IF m.from \in Reachable(ref, among) THEN Reachable(m.to, among) ELSE {})
<1> DEFINE C == Reachable(ref, among)
                   \cup (IF m.from \in Reachable(ref, among) THEN Reachable(m.to, among) ELSE {})
<1>1. ref \in C
  BY ReachedFromItself
<1>2. ASSUME NEW e \in among \cup {m}, e.from \in C
      PROVE  e.to \in C
  <2>1. CASE e \in among
    BY <1>2, <2>1, ReachedOnward
  <2>2. CASE e = m
    BY <1>2, <2>2, ReachedFromItself
  <2> QED BY <2>1, <2>2
<1>3. IsFiniteSet(among \cup {m})
  BY FS_AddElement
<1> HIDE DEF C
<1> QED BY <1>1, <1>2, <1>3, ReachedLeast DEF C

\* An edge that closes no cycle leaves a graph without cycles without cycles.
LEMMA AcyclicWithOneMore ==
    ASSUME NEW among, IsFiniteSet(among), Acyclic(among), NEW m, ~ClosesCycle(m, among)
    PROVE  Acyclic(among \cup {m})
<1>1. m.from \notin Reachable(m.to, among)
  BY DEF ClosesCycle
<1>2. SUFFICES ASSUME NEW u \in among \cup {m}, u.from \in Reachable(u.to, among \cup {m})
               PROVE  FALSE
  BY DEF Acyclic
<1>3. u \in among
  BY <1>1, <1>2, ReachedWithOneMore
<1>4. u.from \notin Reachable(u.to, among)
  BY <1>3 DEF Acyclic
<1>5. m.from \in Reachable(u.to, among) /\ u.from \in Reachable(m.to, among)
  BY <1>1, <1>2, <1>4, ReachedWithOneMore
<1>6. u.to \in Reachable(m.to, among)
  BY <1>3, <1>5, ReachedOnward
<1>7. m.from \in Reachable(m.to, among)
  BY <1>5, <1>6, ReachedTransitively
<1> QED BY <1>1, <1>7

-----------------------------------------------------------------------------
(* The invariant of registrations: what ids, approvals and edges owe each     *)
(* other.                                                                     *)

IdsUnique(among) == \A m, o \in among : m.id = o.id => m = o
OneApproved(among) ==
    \A m, o \in among : m.from = o.from /\ m.to = o.to /\ m.approved /\ o.approved /\ m.main /\ o.main
                            => m = o
GraphInv ==
    migrations \subseteq Catalogue /\ IdsUnique(migrations) /\ OneApproved(Upgrades) /\ Acyclic(Upgrades)

LEMMA CatalogueTypes ==
    \A m \in Catalogue : /\ m.id \in Nat /\ m.from \in Nat /\ m.to \in Nat
                         /\ IsFiniteSet(m.steps) /\ m.steps \subseteq StepDecls
BY RegistryAssumption

LEMMA SomeAreFinite ==
    ASSUME NEW among \in SUBSET Catalogue
    PROVE  IsFiniteSet(among)
BY FS_Subset, RegistryAssumption

\* What a store holds can be registered in the order of its ids, so it has no cycle:
\* the edges up to an id have none, by induction on the id, and what can be reached by
\* all of them can be reached by those up to some id.
SavedUpTo(n) == {o \in Saved.migrations : ~o.downgrade /\ o.id < n}
SavedUpgrades == {o \in Saved.migrations : ~o.downgrade}

LEMMA SavedTypes ==
    /\ Saved.migrations \subseteq Catalogue /\ IsFiniteSet(SavedUpgrades)
    /\ \A n : IsFiniteSet(SavedUpTo(n)) /\ SavedUpTo(n) \subseteq SavedUpgrades
    /\ \A o \in Saved.migrations : o.id \in Nat
<1>1. Saved.migrations \subseteq Catalogue
  BY RegistryAssumption
<1> QED BY <1>1, SomeAreFinite, CatalogueTypes DEF SavedUpTo, SavedUpgrades

LEMMA SavedUpToAcyclic == \A n \in Nat : Acyclic(SavedUpTo(n))
<1> DEFINE T == {n \in Nat : Acyclic(SavedUpTo(n))}
<1>1. 0 \in T
  <2>1. SavedUpTo(0) = {}
    BY SavedTypes DEF SavedUpTo
  <2> QED BY <2>1 DEF Acyclic
<1>2. ASSUME NEW n \in Nat, n \in T
      PROVE  n + 1 \in T
  <2>1. CASE \E m \in Saved.migrations : m.id = n /\ ~m.downgrade
    <3>1. PICK m \in Saved.migrations : m.id = n /\ ~m.downgrade
      BY <2>1
    <3>2. SavedUpTo(n + 1) = SavedUpTo(n) \cup {m}
      <4>1. \A o \in Saved.migrations : o.id < n + 1 <=> (o.id < n \/ o.id = n)
        BY SavedTypes
      <4>2. \A o \in Saved.migrations : o.id = n => o = m
        BY <3>1, SavedAssumption
      <4> QED BY <3>1, <4>1, <4>2 DEF SavedUpTo
    <3>3. ~ClosesCycle(m, SavedUpTo(n))
      BY <3>1, SavedAssumption DEF Accepted, SavedUpTo
    <3>4. Acyclic(SavedUpTo(n)) /\ IsFiniteSet(SavedUpTo(n))
      BY <1>2, SavedTypes
    <3> QED BY <3>2, <3>3, <3>4, AcyclicWithOneMore
  <2>2. CASE ~(\E m \in Saved.migrations : m.id = n /\ ~m.downgrade)
    <3>1. SavedUpTo(n + 1) = SavedUpTo(n)
      BY <2>2, SavedTypes DEF SavedUpTo
    <3> QED BY <1>2, <3>1
  <2> QED BY <2>1, <2>2
<1>3. Nat \subseteq T
  <2> HIDE DEF T
  <2> QED BY <1>1, <1>2, SetInduction
<1> QED BY <1>3

LEMMA SavedSound == IdsUnique(Saved.migrations) /\ OneApproved(SavedUpgrades) /\ Acyclic(SavedUpgrades)
<1>1. IdsUnique(Saved.migrations)
  BY SavedAssumption DEF IdsUnique
<1>2. OneApproved(SavedUpgrades)
  <2>1. ASSUME NEW m \in SavedUpgrades, NEW o \in SavedUpgrades, m.id < o.id,
               m.from = o.from, m.to = o.to, m.approved, o.approved, m.main, o.main
        PROVE  FALSE
    <3>1. m \in SavedUpTo(o.id)
      BY <2>1 DEF SavedUpTo, SavedUpgrades
    <3>2. Rivals(o, SavedUpTo(o.id)) = {}
      BY <2>1, SavedAssumption DEF Accepted, SavedUpTo, SavedUpgrades
    <3> QED BY <2>1, <3>1, <3>2 DEF Rivals
  <2>2. ASSUME NEW m \in SavedUpgrades, NEW o \in SavedUpgrades, m # o
        PROVE  m.id < o.id \/ o.id < m.id
    BY <1>1, <2>2, SavedTypes DEF IdsUnique, SavedUpgrades
  <2> QED BY <2>1, <2>2 DEF OneApproved
<1>3. Acyclic(SavedUpgrades)
  <2>1. SUFFICES ASSUME NEW u \in SavedUpgrades, u.from \in Reachable(u.to, SavedUpgrades)
                 PROVE  FALSE
    BY DEF Acyclic
  <2> DEFINE C == UNION {Reachable(u.to, SavedUpTo(n)) : n \in Nat}
  <2>2. ASSUME NEW n \in Nat, NEW e \in SavedUpgrades,
               NEW x \in Reachable(u.to, SavedUpTo(n))
        PROVE  \E k \in Nat : e \in SavedUpTo(k) /\ x \in Reachable(u.to, SavedUpTo(k))
    <3> DEFINE k == n + e.id + 1
    <3>1. e.id \in Nat /\ k \in Nat /\ n <= k /\ e.id < k
      BY SavedTypes DEF SavedUpgrades
    <3> HIDE DEF k
    <3>2. SavedUpTo(n) \subseteq SavedUpTo(k) /\ e \in SavedUpTo(k)
      BY <3>1, SavedTypes DEF SavedUpTo, SavedUpgrades
    <3> QED BY <2>2, <3>1, <3>2, SavedTypes, ReachedByMore
  <2>3. u.to \in C
    BY SavedTypes, ReachedFromItself
  <2>4. ASSUME NEW e \in SavedUpgrades, e.from \in C
        PROVE  e.to \in C
    <3>1. PICK n \in Nat : e.from \in Reachable(u.to, SavedUpTo(n))
      BY <2>4
    <3>2. PICK k \in Nat : e \in SavedUpTo(k) /\ e.from \in Reachable(u.to, SavedUpTo(k))
      BY <2>2, <3>1
    <3> QED BY <3>2, SavedTypes, ReachedOnward
  <2>5. u.from \in C
    <3> HIDE DEF C
    <3> QED BY <2>1, <2>3, <2>4, SavedTypes, ReachedLeast
  <2>6. PICK n \in Nat : u.from \in Reachable(u.to, SavedUpTo(n))
    BY <2>5
  <2>7. PICK k \in Nat : u \in SavedUpTo(k) /\ u.from \in Reachable(u.to, SavedUpTo(k))
    BY <2>2, <2>6
  <2> QED BY <2>7, SavedUpToAcyclic DEF Acyclic
<1> QED BY <1>1, <1>2, <1>3

LEMMA GraphInit == InitRegistry => GraphInv
BY SavedSound, SavedTypes DEF InitRegistry, GraphInv, Upgrades, SavedUpgrades

LEMMA GraphStep == GraphInv /\ [RegisterAny]_registry => GraphInv'
<1> SUFFICES ASSUME GraphInv, [RegisterAny]_registry
             PROVE  GraphInv'
  OBVIOUS
<1>1. CASE UNCHANGED migrations
  BY <1>1 DEF GraphInv, Upgrades
<1>2. ASSUME NEW m \in Catalogue, NEW validate \in BOOLEAN, RegisterMigration(m, validate)
      PROVE  GraphInv'
  <2>1. /\ migrations' = migrations \cup {m}
        /\ \A o \in migrations : o.id # m.id
        /\ Accepted(m, Upgrades)
    BY <1>2 DEF RegisterMigration
  <2>2. migrations' \subseteq Catalogue /\ IdsUnique(migrations')
    BY <2>1 DEF GraphInv, IdsUnique
  <2>3. CASE m.downgrade
    <3>1. Upgrades' = Upgrades
      BY <2>1, <2>3 DEF Upgrades
    <3> QED BY <2>2, <3>1 DEF GraphInv
  <2>4. CASE ~m.downgrade
    <3>1. Upgrades' = Upgrades \cup {m}
      BY <2>1, <2>4 DEF Upgrades
    <3>2. IsFiniteSet(Upgrades)
      BY SomeAreFinite DEF GraphInv, Upgrades
    <3>3. Acyclic(Upgrades')
      BY <2>1, <2>4, <3>1, <3>2, AcyclicWithOneMore DEF GraphInv, Accepted
    <3>4. OneApproved(Upgrades')
      BY <2>1, <2>4, <3>1 DEF GraphInv, Accepted, Rivals, OneApproved
    <3> QED BY <2>2, <3>3, <3>4 DEF GraphInv
  <2> QED BY <2>3, <2>4
<1> QED BY <1>1, <1>2 DEF RegisterAny, RegisterSchema, RegisterRecipe, registry

\* FR-MIG-004: whatever is registered, in whatever order, with validation or without, no
\* version can be upgraded to itself.
THEOREM NoUpgradeCycles == RegistrySpec => []UpgradesAcyclic
<1>1. GraphInv => UpgradesAcyclic
  BY DEF GraphInv, Acyclic, UpgradesAcyclic
<1> QED BY <1>1, GraphInit, GraphStep, PTL DEF RegistrySpec

\* A registry that was filled in any order can be filled again in the order of its ids,
\* so a project that was written to can be opened.
THEOREM RegistryReopens == RegistrySpec => []Reopens
<1>1. GraphInv => Reopens
  <2>1. SUFFICES ASSUME GraphInv, NEW m \in migrations, ~m.downgrade
                 PROVE  Accepted(m, {o \in Upgrades : o.id < m.id})
    BY DEF Reopens, Accepted
  <2> DEFINE earlier == {o \in Upgrades : o.id < m.id}
  <2>2. m \in Upgrades /\ m \notin earlier /\ IsFiniteSet(Upgrades)
    <3>1. m.id \in Nat
      BY <2>1, CatalogueTypes DEF GraphInv
    <3> QED BY <2>1, <3>1, SomeAreFinite DEF GraphInv, Upgrades
  <2>3. ~ClosesCycle(m, earlier)
    <3>1. m.from \notin Reachable(m.to, Upgrades)
      BY <2>1, <2>2 DEF GraphInv, Acyclic
    <3>2. m.from # m.to
      BY <2>2, <3>1, ReachedFromItself
    <3>3. earlier \in SUBSET Upgrades
      OBVIOUS
    <3> HIDE DEF earlier
    <3> QED BY <2>2, <3>1, <3>2, <3>3, ReachedByMore DEF ClosesCycle
  <2>4. m.approved /\ m.main => Rivals(m, earlier) = {}
    BY <2>1, <2>2 DEF GraphInv, OneApproved, Rivals
  <2> QED BY <2>3, <2>4 DEF Accepted
<1> QED BY <1>1, GraphInit, GraphStep, PTL DEF RegistrySpec

-----------------------------------------------------------------------------
(* Paths.                                                                   *)

\* What the walk goes on to from its paths of some length.
Onwards(from, to, walk) ==
    UNION {{Append(p, m) : m \in Onward(from, p)} : p \in {p \in walk : End(from, p) # to}}

LEMMA WalksDef ==
    ASSUME NEW from, NEW to
    PROVE  /\ Walks(from, to)[0] = {<<>>}
           /\ \A n \in Nat : Walks(from, to)[n + 1] = Onwards(from, to, Walks(from, to)[n])
<1> DEFINE S == SUBSET Seq(Eligible)
           F == [x \in Nat \X S |-> Onwards(from, to, x[2])]
           Body(g) == [n \in Nat |-> IF n = 0 THEN {<<>>}
                          ELSE UNION {{Append(p, m) : m \in Onward(from, p)} :
                                         p \in {p \in g[n - 1] : End(from, p) # to}}]
<1>1. F \in [Nat \X S -> S]
  <2>1. ASSUME NEW walk \in S
        PROVE  Onwards(from, to, walk) \in S
    <3>1. ASSUME NEW p \in walk, NEW m \in Onward(from, p)
          PROVE  Append(p, m) \in Seq(Eligible)
      <4>1. p \in Seq(Eligible) /\ m \in Eligible
        BY DEF Onward
      <4> QED BY <4>1
    <3> QED BY <3>1 DEF Onwards
  <2> HIDE DEF S
  <2> QED BY <2>1
<1>2. {<<>>} \in S
  OBVIOUS
<1>3. \A n \in Nat, x \in S : F[<<n, x>>] = Onwards(from, to, x)
  OBVIOUS
<1> HIDE DEF F, S
<1>4. PICK g : Recurses(g, S, {<<>>}, F)
  BY <1>1, <1>2, RecursionExists
<1>5. g[0] = {<<>>} /\ \A n \in Nat \ {0} : g[n] = Onwards(from, to, g[n - 1])
  <2>1. \A n \in Nat \ {0} : n \in Nat /\ n - 1 \in Nat
    OBVIOUS
  <2> QED BY <1>3, <1>4, <2>1 DEF Recurses
<1>6. g = Body(g)
  <2>1. \A n \in Nat : g[n] = Body(g)[n]
    BY <1>5 DEF Onwards
  <2>2. g \in [Nat -> S]
    BY <1>4 DEF Recurses
  <2> QED BY <2>1, <2>2
<1>7. Walks(from, to) = Body(Walks(from, to))
  BY <1>6 DEF Walks
<1>8. \A n \in Nat : n + 1 \in Nat /\ n + 1 # 0 /\ (n + 1) - 1 = n
  OBVIOUS
<1> QED BY <1>7, <1>8 DEF Onwards

LEMMA EndOfLonger ==
    ASSUME NEW S, NEW p \in Seq(S), NEW m, NEW from
    PROVE  End(from, Append(p, m)) = m.to /\ Visited(from, Append(p, m)) = Visited(from, p) \cup {m.to}
<1>1. /\ Append(p, m) # <<>> /\ Len(Append(p, m)) = Len(p) + 1
      /\ Append(p, m)[Len(p) + 1] = m
      /\ \A k \in 1 .. Len(p) : Append(p, m)[k] = p[k]
      /\ DOMAIN Append(p, m) = 1 .. Len(p) + 1 /\ DOMAIN p = 1 .. Len(p)
      /\ Len(p) \in Nat
  OBVIOUS
<1>2. End(from, Append(p, m)) = m.to
  BY <1>1 DEF End
<1>3. DOMAIN Append(p, m) = DOMAIN p \cup {Len(p) + 1}
  BY <1>1
<1>4. Visited(from, Append(p, m)) = Visited(from, p) \cup {m.to}
  BY <1>1, <1>3 DEF Visited
<1> QED BY <1>2, <1>4

\* A path of the walk is of eligible migrations, and ends at the level of its length.
LEMMA WalksClimb ==
    ASSUME NEW from, NEW to, NEW n \in Nat, NEW p \in Walks(from, to)[n]
    PROVE  p \in Seq(Eligible) /\ Len(p) = n /\ End(from, p) \in Levels(from, Eligible)[n]
<1> DEFINE L == Levels(from, Eligible)
           W == Walks(from, to)
           Climbs(q, k) == q \in Seq(Eligible) /\ Len(q) = k /\ End(from, q) \in L[k]
           T == {k \in Nat : \A q \in W[k] : Climbs(q, k)}
<1>1. 0 \in T
  <2>1. W[0] = {<<>>} /\ L[0] = {from}
    BY WalksDef, LevelsDef
  <2>2. Climbs(<<>>, 0)
    BY <2>1 DEF End
  <2> HIDE DEF W, L, Climbs
  <2> QED BY <2>1, <2>2
<1>2. ASSUME NEW k \in Nat, k \in T
      PROVE  k + 1 \in T
  <2>1. SUFFICES ASSUME NEW q \in W[k + 1]
                 PROVE  Climbs(q, k + 1)
    OBVIOUS
  <2>2. PICK r, m : r \in W[k] /\ m \in Onward(from, r) /\ q = Append(r, m)
    <3>1. W[k + 1] = Onwards(from, to, W[k])
      BY WalksDef
    <3> HIDE DEF W
    <3> QED BY <2>1, <3>1 DEF Onwards
  <2>3. r \in Seq(Eligible) /\ Len(r) = k /\ End(from, r) \in L[k]
    BY <1>2, <2>2
  <2>4. m \in Eligible /\ m.from = End(from, r)
    BY <2>2 DEF Onward
  <2>5. q \in Seq(Eligible) /\ Len(q) = k + 1
    BY <2>2, <2>3, <2>4
  <2>6. End(from, q) = m.to
    BY <2>2, <2>3, EndOfLonger
  <2>7. m.to \in L[k + 1]
    <3>1. L[k + 1] = Grown(L[k], Eligible)
      BY LevelsGrow
    <3> HIDE DEF L
    <3> QED BY <2>3, <2>4, <3>1 DEF Grown, After
  <2> QED BY <2>5, <2>6, <2>7
<1>3. Nat \subseteq T
  <2> HIDE DEF T
  <2> QED BY <1>1, <1>2, SetInduction
<1> QED BY <1>3

LEMMA LevelsMonotone ==
    ASSUME NEW ref, NEW among, NEW i \in Nat, NEW j \in Nat, i <= j
    PROVE  Levels(ref, among)[i] \subseteq Levels(ref, among)[j]
<1> DEFINE L == Levels(ref, among)
           T == {k \in Nat : L[i] \subseteq L[i + k]}
<1>1. 0 \in T
  OBVIOUS
<1>2. ASSUME NEW k \in Nat, k \in T
      PROVE  k + 1 \in T
  <2>1. i + k \in Nat /\ i + (k + 1) = (i + k) + 1
    OBVIOUS
  <2>2. L[i + k] \subseteq L[(i + k) + 1]
    BY <2>1, LevelsGrow
  <2> QED BY <1>2, <2>1, <2>2
<1>3. Nat \subseteq T
  <2> HIDE DEF T
  <2> QED BY <1>1, <1>2, SetInduction
<1>4. j - i \in Nat /\ i + (j - i) = j
  OBVIOUS
<1>5. j - i \in T
  BY <1>3, <1>4
<1> QED BY <1>4, <1>5

\* A version that is first reached at some level, no later than the target, is the end
\* of a path of that length that stays within the level.
LEMMA ShortestWalk ==
    ASSUME NEW from, NEW to, NEW d \in Nat,
           \A n \in Nat : n < d => to \notin Levels(from, Eligible)[n]
    PROVE  \A n \in Nat : n <= d =>
              \A x \in Levels(from, Eligible)[n] :
                 (n = 0 \/ x \notin Levels(from, Eligible)[n - 1]) =>
                    \E p \in Walks(from, to)[n] :
                       End(from, p) = x /\ Visited(from, p) \subseteq Levels(from, Eligible)[n]
<1> DEFINE L == Levels(from, Eligible)
           W == Walks(from, to)
           Leads(p, x, n) == End(from, p) = x /\ Visited(from, p) \subseteq L[n]
           T == {n \in Nat : n <= d =>
                    \A x \in L[n] : (n = 0 \/ x \notin L[n - 1]) => \E p \in W[n] : Leads(p, x, n)}
<1>1. 0 \in T
  <2>1. L[0] = {from} /\ W[0] = {<<>>}
    BY LevelsDef, WalksDef
  <2>2. Leads(<<>>, from, 0)
    BY <2>1 DEF End, Visited
  <2> HIDE DEF L, W, Leads
  <2> QED BY <2>1, <2>2
<1>2. ASSUME NEW n \in Nat, n \in T
      PROVE  n + 1 \in T
  <2>1. SUFFICES ASSUME n + 1 <= d, NEW x \in L[n + 1], x \notin L[n]
                 PROVE  \E p \in W[n + 1] : Leads(p, x, n + 1)
    <3>1. n + 1 # 0 /\ (n + 1) - 1 = n /\ n + 1 \in Nat
      OBVIOUS
    <3> HIDE DEF L, W, Leads
    <3> QED BY <3>1
  <2>2. L[n + 1] = Grown(L[n], Eligible) /\ L[n] \subseteq L[n + 1]
    BY LevelsGrow
  <2>3. PICK m \in Eligible : m.from \in L[n] /\ m.to = x
    <3> HIDE DEF L
    <3> QED BY <2>1, <2>2 DEF Grown, After
  <2>4. n = 0 \/ m.from \notin L[n - 1]
    <3>1. SUFFICES ASSUME n # 0, m.from \in L[n - 1]
                   PROVE  x \in L[n]
      BY <2>1
    <3>2. n - 1 \in Nat /\ (n - 1) + 1 = n
      BY <3>1
    <3>3. L[n] = Grown(L[n - 1], Eligible)
      BY <3>2, LevelsGrow
    <3> HIDE DEF L
    <3> QED BY <2>3, <3>1, <3>3 DEF Grown, After
  <2>5. PICK p \in W[n] : Leads(p, m.from, n)
    BY <1>2, <2>1, <2>3, <2>4
  <2>6. m \in Onward(from, p)
    BY <2>1, <2>3, <2>5 DEF Onward
  <2>7. End(from, p) # to
    BY <2>1, <2>3, <2>5
  <2>8. Append(p, m) \in W[n + 1]
    <3>1. W[n + 1] = Onwards(from, to, W[n])
      BY WalksDef
    <3> HIDE DEF W
    <3> QED BY <2>6, <2>7, <3>1 DEF Onwards
  <2>9. End(from, Append(p, m)) = x /\ Visited(from, Append(p, m)) = Visited(from, p) \cup {x}
    BY <2>3, WalksClimb, EndOfLonger
  <2>10. Leads(Append(p, m), x, n + 1)
    BY <2>1, <2>2, <2>5, <2>9
  <2> QED BY <2>8, <2>10
<1>3. Nat \subseteq T
  <2> HIDE DEF T
  <2> QED BY <1>1, <1>2, SetInduction
<1> HIDE DEF L, W
<1> QED BY <1>3 DEF L, W

\* A walk that is shortest is simple, so the walks through new versions find every level.
LEMMA PathsComplete ==
    ASSUME NEW from, NEW to
    PROVE  to \in Levels(from, Eligible)[Preference.hops + 1] <=> Paths(from, to) # {}
<1> DEFINE L == Levels(from, Eligible)
           W == Walks(from, to)
           B == Preference.hops + 1
<1>1. B \in Nat /\ B = Bound /\ B # 0
  BY RegistryAssumption DEF Bound
<1>2. CASE from = to
  <2>1. Paths(from, to) = {<<>>} /\ L[0] = {from}
    BY <1>2, LevelsDef DEF Paths
  <2>2. L[0] \subseteq L[B]
    BY <1>1, LevelsMonotone
  <2> QED BY <1>2, <2>1, <2>2
<1>3. CASE from # to
  <2>1. ASSUME NEW p \in Paths(from, to)
        PROVE  to \in L[B]
    <3>1. PICK n \in 1 .. Bound : p \in W[n]
      BY <1>3 DEF Paths
    <3>2. n \in Nat /\ n <= B
      BY <1>1
    <3>3. End(from, p) \in L[n] /\ L[n] \subseteq L[B]
      BY <1>1, <3>1, <3>2, WalksClimb, LevelsMonotone
    <3>4. End(from, p) = to
      BY <1>3 DEF Paths
    <3> QED BY <3>3, <3>4
  <2>2. ASSUME to \in L[B]
        PROVE  Paths(from, to) # {}
    <3>1. PICK d \in {n \in Nat : to \in L[n]} : \A n \in {n \in Nat : to \in L[n]} : d <= n
      <4>1. {n \in Nat : to \in L[n]} \subseteq Nat /\ B \in {n \in Nat : to \in L[n]}
        BY <1>1, <2>2
      <4> HIDE DEF L, B
      <4> QED BY <4>1, LeastNatural
    <3>2. d \in Nat /\ to \in L[d] /\ d <= B /\ \A n \in Nat : n < d => to \notin L[n]
      <4>1. \A n \in Nat : to \in L[n] => d <= n
        BY <3>1
      <4>2. d <= B
        BY <1>1, <2>2, <4>1
      <4>3. d \in Nat /\ to \in L[d]
        BY <3>1
      <4> HIDE DEF L
      <4> QED BY <4>1, <4>2, <4>3
    <3>3. d # 0
      BY <1>3, <3>2, LevelsDef
    <3>4. d - 1 \in Nat /\ to \notin L[d - 1]
      BY <3>2, <3>3
    <3>5. PICK p \in W[d] : End(from, p) = to
      <4>1. \A x \in L[d] : (d = 0 \/ x \notin L[d - 1]) =>
                \E p \in W[d] : End(from, p) = x /\ Visited(from, p) \subseteq L[d]
        <5>1. \A n \in Nat : n < d => to \notin L[n]
          BY <3>2
        <5>2. d \in Nat /\ d <= d
          BY <3>2
        <5> QED BY <5>1, <5>2, ShortestWalk
      <4> HIDE DEF L, W
      <4> QED BY <3>2, <3>4, <4>1
    <3>6. d \in 1 .. Bound
      BY <1>1, <3>2, <3>3
    <3>7. p \in Paths(from, to)
      BY <1>3, <3>5, <3>6 DEF Paths
    <3> QED BY <3>7
  <2> QED BY <2>1, <2>2
<1> QED BY <1>2, <1>3

\* Whatever is registered, find_path is refused exactly when no eligible migrations
\* connect two versions within the bound.
THEOREM PathsAreFound == RegistrySpec => []BlockedMeansNoPath
<1>1. BlockedMeansNoPath
  BY PathsComplete DEF BlockedMeansNoPath
<1> QED BY <1>1, PTL

-----------------------------------------------------------------------------
(* Which path is best.                                                      *)

\* Sequences of numbers of which neither is before the other agree where both are.
LEMMA NeitherBefore ==
    ASSUME NEW a \in Seq(Nat), NEW b \in Seq(Nat), ~Before(a, b), ~Before(b, a)
    PROVE  \A k \in DOMAIN a \cap DOMAIN b : a[k] = b[k]
<1> DEFINE T == {k \in DOMAIN a \cap DOMAIN b : a[k] # b[k]}
<1>1. SUFFICES ASSUME T # {}
               PROVE  FALSE
  OBVIOUS
<1>2. T \subseteq Nat /\ \A k \in DOMAIN a \cap DOMAIN b : 1 .. k \subseteq DOMAIN a \cap DOMAIN b
  OBVIOUS
<1>3. PICK k \in T : \A j \in T : k <= j
  <2> HIDE DEF T
  <2> QED BY <1>1, <1>2, LeastNatural
<1>4. k \in DOMAIN a \cap DOMAIN b /\ a[k] # b[k] /\ k \in Nat
  BY <1>2
<1>5. \A j \in 1 .. k - 1 : a[j] = b[j]
  <2>1. SUFFICES ASSUME NEW j \in 1 .. k - 1, a[j] # b[j]
                 PROVE  FALSE
    OBVIOUS
  <2>2. j \in DOMAIN a \cap DOMAIN b
    BY <1>2, <1>4
  <2>3. k <= j
    BY <1>3, <2>1, <2>2
  <2> QED BY <1>4, <2>3
<1>6. a[k] \in Nat /\ b[k] \in Nat
  BY <1>4
<1>7. a[k] < b[k] \/ b[k] < a[k]
  BY <1>4, <1>6
<1> QED BY <1>4, <1>5, <1>7 DEF Before

\* The sum of a sequence of numbers is a number.
LEMMA TotalType ==
    ASSUME NEW sizes \in Seq(Nat)
    PROVE  Total(sizes) \in Nat
<1> DEFINE N == Len(sizes)
           F == [x \in Nat \X Nat |-> x[2] + (IF x[1] \in 1 .. N THEN sizes[x[1]] ELSE 0)]
           Body(g) == [n \in 0 .. N |-> IF n = 0 THEN 0 ELSE g[n - 1] + sizes[n]]
           Sum == CHOOSE g : g = Body(g)
<1>1. N \in Nat /\ \A n \in 1 .. N : sizes[n] \in Nat
  OBVIOUS
<1>2. F \in [Nat \X Nat -> Nat]
  BY <1>1
<1>3. \A n \in 1 .. N, x \in Nat : F[<<n, x>>] = x + sizes[n]
  BY <1>1
<1> HIDE DEF F, N
<1>4. PICK g : Solves(g, N, Nat, 0, F)
  BY <1>1, <1>2, RecursionUpTo
<1>5. g = Body(g)
  <2>1. g \in [0 .. N -> Nat] /\ g[0] = 0
    BY <1>4 DEF Solves
  <2>2. ASSUME NEW n \in 1 .. N
        PROVE  g[n] = g[n - 1] + sizes[n]
    <3>1. n - 1 \in 0 .. N - 1 /\ n - 1 \in 0 .. N /\ (n - 1) + 1 = n
      BY <1>1
    <3>2. g[n] = F[<<n, g[n - 1]>>]
      BY <1>4, <3>1 DEF Solves
    <3>3. g[n - 1] \in Nat
      BY <2>1, <3>1
    <3> QED BY <1>3, <3>2, <3>3
  <2>3. \A n \in 0 .. N : g[n] = Body(g)[n]
    BY <1>1, <2>1, <2>2
  <2> QED BY <2>1, <2>3
<1>6. Sum = Body(Sum)
  BY <1>5
<1>7. Total(sizes) = Sum[N]
  BY DEF Total, N
<1> HIDE DEF Sum
<1>8. \A n \in Nat : n <= N => Sum[n] \in Nat
  <2> DEFINE T == {n \in Nat : n <= N => Sum[n] \in Nat}
  <2>1. 0 \in T
    BY <1>1, <1>6
  <2>2. ASSUME NEW n \in Nat, n \in T
        PROVE  n + 1 \in T
    <3>1. SUFFICES ASSUME n + 1 <= N
                   PROVE  Sum[n + 1] \in Nat
      OBVIOUS
    <3>2. Sum[n] \in Nat /\ n + 1 \in 0 .. N /\ n + 1 \in 1 .. N /\ n + 1 # 0 /\ (n + 1) - 1 = n
      BY <1>1, <2>2, <3>1
    <3>3. Sum[n + 1] = Sum[n] + sizes[n + 1]
      BY <1>6, <3>2
    <3> QED BY <1>1, <3>2, <3>3
  <2>3. Nat \subseteq T
    <3> HIDE DEF T
    <3> QED BY <2>1, <2>2, SetInduction
  <2> QED BY <2>3
<1> QED BY <1>1, <1>7, <1>8

LEMMA WorstType ==
    ASSUME NEW p \in Seq(Catalogue)
    PROVE  Worst(p) \in Nat
<1>1. ASSUME NEW R \in SUBSET Ranks, R # {}
      PROVE  \E r \in R : \A q \in R : q <= r
  <2>1. \A q \in R : q = 0 \/ q = 1 \/ q = 2
    BY DEF Ranks
  <2>2. CASE 2 \in R
    BY <2>1, <2>2
  <2>3. CASE 2 \notin R /\ 1 \in R
    BY <2>1, <2>3
  <2>4. CASE 2 \notin R /\ 1 \notin R
    <3>1. \A q \in R : q = 0
      BY <2>1, <2>4
    <3> QED BY <1>1, <3>1
  <2> QED BY <2>2, <2>3, <2>4
<1>2. \A R \in SUBSET Ranks : R # {} => (CHOOSE r \in R : \A q \in R : q <= r) \in Ranks
  BY <1>1
<1>3. ASSUME NEW m \in Catalogue
      PROVE  Rank(m) \in Ranks
  <2>1. {s.rank : s \in m.steps} \in SUBSET Ranks
    BY CatalogueTypes DEF StepDecls
  <2>2. 0 \in Ranks
    BY DEF Ranks
  <2> QED BY <1>2, <2>1, <2>2 DEF Rank
<1>4. {Rank(m) : m \in ToSet(p)} \in SUBSET Ranks
  <2>1. \A m \in ToSet(p) : m \in Catalogue
    BY DEF ToSet
  <2> QED BY <1>3, <2>1
<1>5. Worst(p) \in Ranks
  <2>1. 0 \in Ranks
    BY DEF Ranks
  <2> QED BY <1>2, <1>4, <2>1 DEF Worst
<1> QED BY <1>5 DEF Ranks

\* The measure of a path is three numbers or two, and its length is one of them.
Width == IF Preference.optimise = "latency" THEN 2 ELSE 3
LengthAt ==
    CASE Preference.optimise = "hops" -> 1
      [] Preference.optimise = "latency" -> 2
      [] OTHER -> 3

LEMMA MeasureType ==
    ASSUME NEW p \in Seq(Catalogue)
    PROVE  /\ Measure(p) \in Seq(Nat) /\ Len(Measure(p)) = Width
           /\ LengthAt \in 1 .. Width /\ Measure(p)[LengthAt] = Len(p)
<1>1. [k \in DOMAIN p |-> Semantic(p[k])] \in Seq(Nat)
  <2>1. ASSUME NEW m \in Catalogue
        PROVE  Semantic(m) \in Nat
    BY CatalogueTypes, FS_Subset, FS_CardinalityType DEF Semantic
  <2> QED BY <2>1
<1>2. [k \in DOMAIN p |-> Cardinality(p[k].steps)] \in Seq(Nat)
  <2>1. ASSUME NEW m \in Catalogue
        PROVE  Cardinality(m.steps) \in Nat
    BY CatalogueTypes, FS_CardinalityType
  <2> QED BY <2>1
<1> DEFINE semantic == Total([k \in DOMAIN p |-> Semantic(p[k])])
           steps == Total([k \in DOMAIN p |-> Cardinality(p[k].steps)])
<1>3. semantic \in Nat /\ steps \in Nat /\ Worst(p) \in Nat /\ Len(p) \in Nat
  BY <1>1, <1>2, TotalType, WorstType
<1>4. Measure(p) =
        CASE Preference.optimise = "cost"    -> <<semantic, Worst(p), Len(p)>>
          [] Preference.optimise = "hops"    -> <<Len(p), Worst(p), semantic>>
          [] Preference.optimise = "latency" -> <<steps, Len(p)>>
          [] OTHER                           -> <<Worst(p), semantic, Len(p)>>
  BY DEF Measure
<1> HIDE DEF semantic, steps
<1>5. Preference.optimise \in {"fidelity", "cost", "hops", "latency"}
  BY RegistryAssumption
<1> QED BY <1>3, <1>4, <1>5 DEF Width, LengthAt

LEMMA ConcatOfNumbers ==
    ASSUME NEW a \in Seq(Nat), NEW b \in Seq(Nat)
    PROVE  /\ a \o b \in Seq(Nat) /\ Len(a \o b) = Len(a) + Len(b)
           /\ \A k \in 1 .. Len(a) : (a \o b)[k] = a[k]
           /\ \A k \in 1 .. Len(b) : (a \o b)[Len(a) + k] = b[k]
OBVIOUS

LEMMA KeyType ==
    ASSUME NEW r \in Seq(Catalogue)
    PROVE  /\ Key(r) \in Seq(Nat) /\ Len(Key(r)) = Width + Len(r)
           /\ Key(r)[LengthAt] = Len(r)
           /\ \A k \in 1 .. Len(r) : Key(r)[Width + k] = r[k].id
<1>1. Ids(r) \in Seq(Nat) /\ Len(Ids(r)) = Len(r) /\ \A k \in 1 .. Len(r) : Ids(r)[k] = r[k].id
  <2>1. \A k \in 1 .. Len(r) : r[k].id \in Nat
    BY CatalogueTypes
  <2>2. DOMAIN r = 1 .. Len(r) /\ Len(r) \in Nat
    OBVIOUS
  <2> QED BY <2>1, <2>2 DEF Ids
<1>2. /\ Measure(r) \in Seq(Nat) /\ Len(Measure(r)) = Width
      /\ LengthAt \in 1 .. Width /\ Measure(r)[LengthAt] = Len(r)
  BY MeasureType
<1>3. /\ Key(r) \in Seq(Nat) /\ Len(Key(r)) = Len(Measure(r)) + Len(Ids(r))
      /\ \A k \in 1 .. Len(Measure(r)) : Key(r)[k] = Measure(r)[k]
      /\ \A k \in 1 .. Len(Ids(r)) : Key(r)[Len(Measure(r)) + k] = Ids(r)[k]
  BY <1>1, <1>2, ConcatOfNumbers DEF Key
<1> QED BY <1>1, <1>2, <1>3

LEMMA KeyDetermines ==
    ASSUME NEW among \in SUBSET Catalogue, IdsUnique(among), NEW p \in Seq(among), NEW q \in Seq(among),
           ~Before(Key(p), Key(q)), ~Before(Key(q), Key(p))
    PROVE  p = q
<1>1. p \in Seq(Catalogue) /\ q \in Seq(Catalogue)
  OBVIOUS
<1>2. ASSUME NEW r \in Seq(among)
      PROVE  /\ Key(r) \in Seq(Nat) /\ Len(Key(r)) = Width + Len(r)
             /\ Key(r)[LengthAt] = Len(r)
             /\ \A k \in 1 .. Len(r) : Key(r)[Width + k] = r[k].id
  <2>1. r \in Seq(Catalogue)
    OBVIOUS
  <2> QED BY <2>1, KeyType
<1>3. LengthAt \in 1 .. Width /\ Width \in Nat
  BY <1>1, MeasureType DEF Width
<1> HIDE DEF Width, LengthAt
<1>4. /\ DOMAIN Key(p) = 1 .. Width + Len(p) /\ DOMAIN Key(q) = 1 .. Width + Len(q)
      /\ Len(p) \in Nat /\ Len(q) \in Nat
  <2>1. \A r \in Seq(Nat) : DOMAIN r = 1 .. Len(r)
    OBVIOUS
  <2>2. Len(p) \in Nat /\ Len(q) \in Nat
    OBVIOUS
  <2> QED BY <1>2, <2>1, <2>2
<1>5. \A k \in DOMAIN Key(p) \cap DOMAIN Key(q) : Key(p)[k] = Key(q)[k]
  BY <1>2, NeitherBefore
<1>6. Len(p) = Len(q)
  <2>1. LengthAt \in DOMAIN Key(p) \cap DOMAIN Key(q)
    BY <1>3, <1>4
  <2> QED BY <1>2, <1>5, <2>1
<1>7. ASSUME NEW k \in 1 .. Len(p)
      PROVE  p[k] = q[k]
  <2>1. Width + k \in DOMAIN Key(p) \cap DOMAIN Key(q)
    BY <1>3, <1>6, <1>4
  <2>2. p[k].id = q[k].id
    BY <1>2, <1>5, <1>6, <2>1
  <2>3. p[k] \in among /\ q[k] \in among
    BY <1>6
  <2> QED BY <2>2, <2>3 DEF IdsUnique
<1> QED BY <1>6, <1>7

LEMMA PathOfEligible ==
    ASSUME NEW from, NEW to, NEW p \in Paths(from, to)
    PROVE  p \in Seq(Eligible)
<1>1. p = <<>> \/ \E n \in 1 .. Bound : p \in Walks(from, to)[n]
  BY DEF Paths
<1>2. Bound \in Nat
  BY RegistryAssumption DEF Bound
<1>3. ASSUME NEW n \in 1 .. Bound, p \in Walks(from, to)[n]
      PROVE  p \in Seq(Eligible)
  <2>1. n \in Nat
    BY <1>2
  <2> QED BY <1>3, <2>1, WalksClimb
<1>4. <<>> \in Seq(Eligible)
  OBVIOUS
<1> QED BY <1>1, <1>3, <1>4

\* Of the paths between two versions at most one is best, for every preference, so which
\* is taken does not depend on the order the registry was filled or walked in.
THEOREM OnePathIsBest == RegistrySpec => []PathIsDetermined
<1>1. GraphInv => PathIsDetermined
  <2>1. SUFFICES ASSUME GraphInv, NEW from \in Refs, NEW to \in Refs
                 PROVE  Cardinality(Best(from, to)) <= 1
    BY DEF PathIsDetermined
  <2>2. ASSUME NEW p \in Best(from, to), NEW q \in Best(from, to), p # q
        PROVE  FALSE
    <3>1. p \in Seq(migrations) /\ q \in Seq(migrations)
      <4>1. p \in Seq(Eligible) /\ q \in Seq(Eligible)
        BY PathOfEligible DEF Best
      <4>2. Eligible \subseteq migrations
        BY DEF Eligible, Upgrades
      <4> QED BY <4>1, <4>2
    <3>2. ~Before(Key(p), Key(q)) /\ ~Before(Key(q), Key(p))
      BY <2>2 DEF Best
    <3> QED BY <2>1, <2>2, <3>1, <3>2, KeyDetermines DEF GraphInv
  <2>3. CASE Best(from, to) = {}
    BY <2>3, FS_EmptySet
  <2>4. CASE Best(from, to) # {}
    <3>1. PICK p : Best(from, to) = {p}
      BY <2>2, <2>4
    <3> QED BY <3>1, FS_Singleton
  <2> QED BY <2>3, <2>4
<1> QED BY <1>1, GraphInit, GraphStep, PTL DEF RegistrySpec
=============================================================================

------------------------------- MODULE Registry -------------------------------
(***************************************************************************)
(* The registry: schema versions, recipes and the migrations between       *)
(* schema versions, registered one by one, and the path it resolves from   *)
(* one version to another.  A registration that raises changes nothing and *)
(* is not an action.  Hashes are modelled by what they cover: two drafts   *)
(* have one hash when they are equal in the parts the hash is taken of.    *)
(***************************************************************************)
EXTENDS Naturals, Sequences, FiniteSets, SequencesExt

CONSTANTS
    Fields,      \* logical field identities
    Drafts,      \* schemas that may be registered
    Recipes,     \* extraction recipes that may be registered
    Catalogue,   \* migrations that may be registered
    Saved,       \* the registry the store holds when the project is opened
    Preference   \* PathPreference

\* A field a version does not define.
Undefined == [wording |-> 0, shape |-> 0, recipe |-> 0, computed |-> FALSE]
Kinds == {"transform", "semantic", "manual_review"}
Ranks == 0 .. 2

FieldDefs == [wording : Nat, shape : Nat, recipe : Nat, computed : BOOLEAN]
StepDecls == [id : Nat, kind : Kinds, reads : SUBSET Fields, writes : (SUBSET Fields) \ {{}},
              required : SUBSET Fields, after : SUBSET Nat, recipe : Nat, source : BOOLEAN,
              full : BOOLEAN, rank : Ranks, reusable : BOOLEAN]

StepIds(m) == {s.id : s \in m.steps}
Rank(m) == LET ranks == {s.rank : s \in m.steps} IN
           IF ranks = {} THEN 0 ELSE CHOOSE r \in ranks : \A q \in ranks : q <= r
Writes(m) == UNION {s.writes : s \in m.steps}

\* What the constructors of steps and migrations refuse.
WellFormed(m) ==
    /\ \A s, t \in m.steps : s.id = t.id => s = t
    /\ \A s \in m.steps : s.after \subseteq StepIds(m) /\ (s.kind = "semantic" => s.recipe # 0)

ASSUME RegistryAssumption ==
    /\ \A d \in Drafts : d.ref \in Nat \ {0} /\ d.fields \in [Fields -> FieldDefs]
    /\ Recipes \subseteq Nat \ {0}
    /\ IsFiniteSet(Catalogue)
    /\ \A m \in Catalogue :
        /\ m.id \in Nat /\ m.from \in Nat /\ m.to \in Nat
        /\ m.steps \subseteq StepDecls /\ IsFiniteSet(m.steps) /\ m.acknowledged \subseteq Fields
        /\ {m.approved, m.main, m.downgrade} \subseteq BOOLEAN
        /\ WellFormed(m)
    /\ Saved.schemas \subseteq Drafts /\ Saved.recipes \subseteq Recipes
    /\ Saved.migrations \subseteq Catalogue
    /\ IsFiniteSet(Saved.schemas) /\ IsFiniteSet(Saved.recipes)
    /\ Preference.hops \in Nat /\ Preference.optimise \in {"fidelity", "cost", "hops", "latency"}
    /\ {Preference.approved, Preference.main, Preference.noFull} \subseteq BOOLEAN

VARIABLES schemas, recipes, migrations
registry == <<schemas, recipes, migrations>>

InitRegistry ==
    /\ schemas = Saved.schemas /\ recipes = Saved.recipes /\ migrations = Saved.migrations

-----------------------------------------------------------------------------
(* Schemas and recipes.                                                     *)

HasSchema(ref) == \E d \in schemas : d.ref = ref
Schema(ref) == CHOOSE d \in schemas : d.ref = ref
Defined(ref, f) == Schema(ref).fields[f] # Undefined

\* A version identifier that can change meaning is not a version.
RegisterSchema(d) ==
    /\ ~HasSchema(d.ref)
    /\ schemas' = schemas \cup {d}
    /\ UNCHANGED <<recipes, migrations>>

RegisterRecipe(r) ==
    /\ r \notin recipes
    /\ recipes' = recipes \cup {r}
    /\ UNCHANGED <<schemas, migrations>>

-----------------------------------------------------------------------------
(* Migrations.                                                              *)

Upgrades == {m \in migrations : ~m.downgrade}
After(from, among) == {m.to : m \in {u \in among : u.from = from}}

\* ordered_steps raises when steps wait for each other, by after or by what they
\* read and write.
Waits(m, s) == s.after \cup {t.id : t \in {t \in m.steps \ {s} : t.writes \cap s.reads # {}}}
StepCycle(m) ==
    \E stuck \in (SUBSET m.steps) \ {{}} : \A s \in stuck : Waits(m, s) \cap {t.id : t \in stuck} # {}

\* A change of wording or recipe is left to the planner, a removal needs no step.
NeedsDisposition(m, f) ==
    LET old == Schema(m.from).fields[f] new == Schema(m.to).fields[f] IN
    new # Undefined /\ old.shape # new.shape

\* validate_migration.
Valid(m) ==
    /\ HasSchema(m.from) /\ HasSchema(m.to) /\ m.from # m.to
    /\ ~StepCycle(m)
    /\ \A s \in m.steps :
        /\ \A f \in s.writes : Defined(m.to, f)
        /\ \A f \in s.reads : Defined(m.from, f) \/ Defined(m.to, f)
        /\ s.recipe # 0 => s.recipe \in recipes
    /\ \A f \in Fields : NeedsDisposition(m, f) => f \in Writes(m) \cup m.acknowledged

\* The versions within so many edges of one.
Levels(ref, among) ==
    LET Within[n \in Nat] == IF n = 0 THEN {ref}
            ELSE Within[n - 1] \cup UNION {After(r, among) : r \in Within[n - 1]}
    IN Within
\* The versions that can be reached from one, itself included.
Reachable(ref, among) == Levels(ref, among)[Cardinality(among)]

\* Mutant: only an edge straight back is looked for.
ClosesCycle_Direct(m, among) == m.from = m.to \/ m.from \in After(m.to, among)
ClosesCycle(m, among) == m.from = m.to \/ m.from \in Reachable(m.to, among)

\* Mutant: an edge that is not approved is a rival too.
Rivals_Any(m, among) == {o \in among : o.from = m.from /\ o.to = m.to}
\* FR-MIG-012.
Rivals(m, among) ==
    {o \in among : o.from = m.from /\ o.to = m.to /\ o.approved /\ o.main}

Accepted(m, among) ==
    m.downgrade \/ (~ClosesCycle(m, among) /\ (m.approved /\ m.main => Rivals(m, among) = {}))

\* A store holds what registries before held: ids are its keys, and it is opened by
\* registering all of it again, one id after the other, or not at all.
ASSUME SavedAssumption ==
    \A m \in Saved.migrations :
        /\ \A o \in Saved.migrations : o.id = m.id => o = m
        /\ Accepted(m, {o \in Saved.migrations : ~o.downgrade /\ o.id < m.id})

\* An id is registered once; what the hash leaves out (approval, branch) is never
\* looked at again.  A project registers with validation, a reload without.
RegisterMigration(m, validate) ==
    /\ \A o \in migrations : o.id # m.id
    /\ validate => Valid(m)
    /\ Accepted(m, Upgrades)
    /\ migrations' = migrations \cup {m}
    /\ UNCHANGED <<schemas, recipes>>

RegisterAny ==
    \/ \E d \in Drafts : RegisterSchema(d)
    \/ \E r \in Recipes : RegisterRecipe(r)
    \/ \E m \in Catalogue, validate \in BOOLEAN : RegisterMigration(m, validate)
RegistrySpec == InitRegistry /\ [][RegisterAny]_registry

-----------------------------------------------------------------------------
(* Paths.                                                                   *)

PermitsFull(m) == \E s \in m.steps : s.full
Eligible == {m \in Upgrades : /\ Preference.approved => m.approved
                              /\ Preference.main => m.main
                              /\ Preference.noFull => ~PermitsFull(m)}

\* Mutant: the bound its name says.
Bound_Named == Preference.hops
\* A walk is given up when it is longer than max_hops, so one edge more is allowed.
Bound == Preference.hops + 1
\* walk: simple paths, an edge after the other, none continued through its target.
End(from, p) == IF p = <<>> THEN from ELSE p[Len(p)].to
Visited(from, p) == {from} \cup {p[k].to : k \in DOMAIN p}
Onward(from, p) == {m \in Eligible : m.from = End(from, p) /\ m.to \notin Visited(from, p)}
Walks(from, to) ==
    LET Walk[n \in Nat] == IF n = 0 THEN {<<>>}
            ELSE UNION {{Append(p, m) : m \in Onward(from, p)} : p \in {p \in Walk[n - 1] : End(from, p) # to}}
    IN Walk
Paths(from, to) ==
    IF from = to THEN {<<>>}
    ELSE {p \in UNION {Walks(from, to)[n] : n \in 1 .. Bound} : End(from, p) = to}

Ids(p) == [k \in DOMAIN p |-> p[k].id]
Total(sizes) ==
    LET Sum[n \in 0 .. Len(sizes)] == IF n = 0 THEN 0 ELSE Sum[n - 1] + sizes[n] IN Sum[Len(sizes)]
Semantic(m) == Cardinality({s \in m.steps : s.kind = "semantic"})
Worst(p) == LET ranks == {Rank(m) : m \in ToSet(p)} IN
            IF ranks = {} THEN 0 ELSE CHOOSE r \in ranks : \A q \in ranks : q <= r

\* PathPreference.key, and a mutant of it that leaves ties to the order of the edges.
Measure(p) ==
    LET semantic == Total([k \in DOMAIN p |-> Semantic(p[k])]) IN
    CASE Preference.optimise = "cost"    -> <<semantic, Worst(p), Len(p)>>
      [] Preference.optimise = "hops"    -> <<Len(p), Worst(p), semantic>>
      [] Preference.optimise = "latency" -> <<Total([k \in DOMAIN p |-> Cardinality(p[k].steps)]), Len(p)>>
      [] OTHER                           -> <<Worst(p), semantic, Len(p)>>
Key_Untied(p) == Measure(p)
Key(p) == Measure(p) \o Ids(p)
Before(a, b) == \E k \in DOMAIN a \cap DOMAIN b :
                    a[k] < b[k] /\ \A j \in 1 .. k - 1 : a[j] = b[j]

Best(from, to) ==
    LET paths == Paths(from, to) IN {p \in paths : \A q \in paths \ {p} : ~Before(Key(q), Key(p))}
FindPath(from, to) == CHOOSE p \in Best(from, to) : TRUE
=============================================================================

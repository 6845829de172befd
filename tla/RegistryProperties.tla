-------------------------- MODULE RegistryProperties --------------------------
(* What the registry owes whoever resolves a path in it, whatever is          *)
(* registered, in whatever order, with validation or without.                 *)
EXTENDS Registry

Refs == {d.ref : d \in schemas}

\* FR-MIG-004: no version can be upgraded to itself, by however many migrations.
UpgradesAcyclic == \A m \in Upgrades : m.from \notin Reachable(m.to, Upgrades)

\* What was registered can be registered again when the project is opened: by ids and
\* not in the order it came, one migration after the other.  A registry that refuses
\* its own content takes every command of the project with it.
Reopens == \A m \in migrations : Accepted(m, {o \in Upgrades : o.id < m.id})

\* find_path refuses a pair of versions only when no eligible migrations connect them
\* within the bound, whatever dead ends and diamonds the registry holds.  The reference
\* is reachability, level by level.
BlockedMeansNoPath ==
    \A from, to \in Refs : to \in Levels(from, Eligible)[Preference.hops + 1] <=> Paths(from, to) # {}

\* The path is chosen deterministically: of several that are equally good the same one
\* is taken, whatever the order the registry was filled or the graph was walked in.
PathIsDetermined == \A from, to \in Refs : Cardinality(Best(from, to)) <= 1
=============================================================================

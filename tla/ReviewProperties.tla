--------------------------- MODULE ReviewProperties ---------------------------
(* What the queue owes curators and the store, whoever interleaves.         *)
EXTENDS Review

Desks == [pc : {"idle"}] \cup [pc : {"legacy"}, item : Items]
    \cup [pc : {"judge", "read", "mark", "build"}, item : Items, fill : Fills,
          row : [proposed : Maybe, old : Maybe],
          read : Rows \cup {None}]
    \cup [pc : {"accept"}, item : Items, prior : Artifacts]
    \cup [pc : {"commit", "keep"}, item : Items, made : Artifacts]
Engines == [pc : {"idle"}]
    \cup [pc : {"build", "store", "raise"}, item : Items, old : Maybe, proposed : Maybe,
          made : Artifacts \cup {None}]
Events == [item : Items, by : Curators, of : {"item"}, value : Maybe, decision : Offered]
    \cup [item : Items, by : Curators, of : {"legacy"}, value : {None}, decision : {"accept"}]

\* Every variable keeps to its set.
TypeOK ==
    /\ history \in [Items -> SUBSET Artifacts]
    /\ built \in [Items -> Nat]
    /\ items \in [Items -> Rows \cup {None}]
    /\ events \subseteq Events
    /\ engine \in Engines
    /\ file \in [Curators -> SUBSET Items] /\ todo \in [Curators -> SUBSET Items]
    /\ desk \in [Curators -> Desks]
    /\ said \in [Items -> Maybe]
    /\ replays \in 0 .. MaxReplays /\ imports \in 0 .. MaxImports /\ stops \in 0 .. MaxStops

\* The decision is among those a person took on the item.
JudgedBy(those, i, c, decision) ==
    \E e \in those : e.of = "item" /\ e.item = i /\ e.by = c /\ e.decision = decision

\* FR-VAL-007: a row that says it was decided has the durable event of that
\* decision, by that person, wherever the deciding process or the engine stopped
\* and whatever they wrote over each other.
DecidedHasEvent ==
    \A i \in Items : items[i] # None => \A d \in Decisions :
        items[i].state = NewState[d] => JudgedBy(events, i, items[i].by, d)

\* The artifact of the item's field is what a person decided it should be.
DecidedOn(those, a, i) ==
    \E e \in those :
        /\ e.of = "item" /\ e.item = i /\ e.by = a.by
        /\ e.decision = "accept" \/ (e.decision = "edit" /\ e.value = a.value)

\* FR-PROV-006: a value in a person's name was accepted by that person, or is the one
\* they edited it to, in a decision on that very field; no other decision changes a
\* value, whatever was raised, overwritten or stopped in between.
HumanValueWasDecided ==
    \A i \in Items : \A a \in history[i] : a.via = "decision" => DecidedOn(events, a, i)

\* An open row shows what its step said last: a curator's process that writes back
\* a row it read earlier never leaves a question open with an answer of the past.
OpenRowsAreCurrent ==
    \A i \in Items : items[i] # None /\ items[i].state = "open" => items[i].proposed = said[i]

\* Nothing overwrites history (review.py): events only accumulate, an artifact is never
\* removed, nothing is kept twice, and of two artifacts of a field one is the older, by
\* when it was built and not by when it got to the store.  So a replay of what was said
\* before does not get ahead of what was built since, and what was built first and
\* stored last is found behind.
HistoryOnlyGrows ==
    [][/\ events \subseteq events'
       /\ \A i \in Items :
            /\ history[i] \subseteq history'[i]
            /\ \A a, b \in history'[i] : Alike(a, b) \/ a.born = b.born => a = b]_vars

\* An import that has begun is read to its end, or to the row that stops it.
EveryImportEnds == \A c \in Curators : todo[c] # {} ~> todo[c] = {} /\ desk[c] = Resting

-----------------------------------------------------------------------------
\* A decision that changes a value becomes a new artifact attributed to a person
\* (docs/decisions.md, "Review system"): when it was built after all that is stored,
\* the newest artifact of the field is then the one decided on.
DecisionTakesEffect ==
    [][\A c \in Curators, i \in Items :
        LET made == desk[c].made IN
        CommitValue(c) /\ i = desk[c].item /\ (\A a \in history[i] : a.born < made.born) =>
            Newest(i)'.by = c /\ Newest(i)'.value = made.value]_vars
=============================================================================

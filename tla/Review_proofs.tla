----------------------------- MODULE Review_proofs -----------------------------
(* Proofs about the queue: that decisions leave their events, that what is in  *)
(* a person's name was decided by them, and that history is kept, whatever the *)
(* engine and any number of curators do to each other.                         *)
EXTENDS ReviewProperties, TLAPS

AtCase(c) == desk[c].pc \in {"judge", "read", "mark", "build"}
CaseDesks == [pc : {"judge", "read", "mark", "build"}, item : Items, fill : Fills,
              row : [proposed : Maybe, old : Maybe], read : Rows \cup {None}]

\* A file names items that are there, and so does what is left of an import.
FileNames(c) == \A i \in file[c] \cup todo[c] : items[i] \in Rows

\* A decision under way is about an item that is there, what is written back was read,
\* from its event on an edit has its value and the decision is on record, and what it
\* made is what was decided.
CaseOf(c) ==
    /\ AtCase(c) => items[desk[c].item] \in Rows
    /\ desk[c].pc = "mark" => desk[c].read \in Rows
    /\ desk[c].pc \in {"read", "mark", "build"} =>
          /\ ~Incomplete(desk[c].fill)
          /\ Event(desk[c].item, c, desk[c].fill) \in events
    /\ desk[c].pc = "commit" => DecidedOn(events, desk[c].made, desk[c].item)
    /\ desk[c].pc = "keep" => desk[c].made.via = "legacy"

CuratorsInOrder == \A c \in Curators : FileNames(c) /\ CaseOf(c)

\* What the engine builds of is an answer, and what it stores is an artifact of a step.
EngineInOrder ==
    /\ engine.pc = "build" => engine.proposed \in Values
    /\ engine.pc = "store" => engine.made \in Artifacts /\ engine.made.via = "step"

\* A history that is not empty has a newest artifact.
NewestExists ==
    \A i \in Items : history[i] # {} => \E a \in history[i] : \A b \in history[i] : b.born <= a.born

QueueInv == TypeOK /\ CuratorsInOrder /\ EngineInOrder /\ NewestExists

-----------------------------------------------------------------------------
(* Lemmas about the parts.                                                  *)

LEMMA NewStates ==
    ASSUME NEW d \in Decisions
    PROVE  /\ NewState[d] \in ItemStates /\ NewState[d] # "open"
           /\ \A e \in Decisions : NewState[d] = NewState[e] => d = e
  BY DEF Decisions, NewState, ItemStates

\* Two artifacts alike differ in their ages only.
LEMMA AlikeFields ==
    ASSUME NEW a \in Artifacts, NEW b \in Artifacts
    PROVE  Alike(a, b) <=> /\ a.value = b.value /\ a.by = b.by
                           /\ a.basis = b.basis /\ a.via = b.via
  BY DEF Alike, Artifacts

\* What is put is there with what was there, and one of them is the newest.
LEMMA PutKeeps ==
    ASSUME NEW s \in SUBSET Artifacts, NEW a \in Artifacts,
           s # {} => \E x \in s : \A y \in s : y.born <= x.born
    PROVE  /\ Put(s, a) \in SUBSET Artifacts
           /\ s \subseteq Put(s, a) /\ Put(s, a) \subseteq s \cup {a}
           /\ \E x \in Put(s, a) : \A y \in Put(s, a) : y.born <= x.born
<1>1. CASE \E b \in s : Alike(a, b)
  BY <1>1 DEF Put
<1>2. CASE ~\E b \in s : Alike(a, b)
  <2>1. Put(s, a) = s \cup {a}
    BY <1>2 DEF Put
  <2>2. \A x \in s \cup {a} : x.born \in Nat
    BY DEF Artifacts
  <2>3. CASE s = {}
    BY <2>1, <2>2, <2>3
  <2>4. CASE s # {}
    <3>1. PICK x \in s : \A y \in s : y.born <= x.born
      BY <2>4
    <3>2. CASE a.born <= x.born
      BY <2>1, <3>1, <3>2
    <3>3. CASE x.born <= a.born
      <4>1. \A y \in s \cup {a} : y.born <= a.born
        BY <2>2, <3>1, <3>3
      <4> QED BY <2>1, <4>1
    <3> QED BY <2>2, <3>1, <3>2, <3>3
  <2> QED BY <2>1, <2>3, <2>4
<1> QED BY <1>1, <1>2

LEMMA NewestType ==
    ASSUME QueueInv, NEW i \in Items
    PROVE  /\ NewestValue(i) \in Maybe
           /\ history[i] # {} => Newest(i) \in Artifacts
<1>1. history[i] \in SUBSET Artifacts
  BY DEF QueueInv, TypeOK
<1>2. ASSUME history[i] # {} PROVE Newest(i) \in Artifacts
  <2>1. \E a \in history[i] : \A b \in history[i] : b.born <= a.born
    BY <1>2 DEF QueueInv, NewestExists
  <2>2. Newest(i) \in history[i]
    BY <2>1 DEF Newest
  <2> QED BY <1>1, <2>2
<1>3. \A a \in Artifacts : a.value \in Values
  BY DEF Artifacts
<1> QED BY <1>2, <1>3 DEF NewestValue, Maybe

LEMMA DecidedStays ==
    ASSUME NEW before, NEW after, before \subseteq after, NEW a, NEW i, DecidedOn(before, a, i)
    PROVE  DecidedOn(after, a, i)
  BY DEF DecidedOn

\* An artifact built now.
LEMMA BuiltType ==
    ASSUME TypeOK, NEW i \in Items, NEW value \in Values, NEW by \in Curators \cup {Machine},
           NEW via \in {"step", "decision", "legacy"}, NEW basis \in Maybe \cup {Machine}
    PROVE  /\ Built(i, value, by, via, basis) \in Artifacts
           /\ Built(i, value, by, via, basis).value = value
           /\ Built(i, value, by, via, basis).by = by
           /\ Built(i, value, by, via, basis).via = via
           /\ Built(i, value, by, via, basis).born = built[i] + 1
<1>1. built[i] + 1 \in Nat
  BY DEF TypeOK
<1> QED BY <1>1 DEF Built, Artifacts

LEMMA BuiltGrows ==
    ASSUME TypeOK, NEW i \in Items, Ages(i)
    PROVE  /\ built' \in [Items -> Nat] /\ built'[i] = built[i] + 1
           /\ \A j \in Items \ {i} : built'[j] = built[j]
  BY DEF TypeOK, Ages

\* An artifact put in the history of one field.
LEMMA HistoryPut ==
    ASSUME QueueInv, NEW i \in Items, NEW a \in Artifacts,
           history' = [history EXCEPT ![i] = Put(@, a)]
    PROVE  /\ history' \in [Items -> SUBSET Artifacts] /\ NewestExists'
           /\ history'[i] = Put(history[i], a)
           /\ \A j \in Items \ {i} : history'[j] = history[j]
<1>1. /\ Put(history[i], a) \in SUBSET Artifacts
      /\ \E x \in Put(history[i], a) : \A y \in Put(history[i], a) : y.born <= x.born
  BY PutKeeps DEF QueueInv, TypeOK, NewestExists
<1>2. history'[i] = Put(history[i], a) /\ \A j \in Items \ {i} : history'[j] = history[j]
  BY DEF QueueInv, TypeOK
<1>3. history' \in [Items -> SUBSET Artifacts]
  BY <1>1 DEF QueueInv, TypeOK
<1>4. NewestExists'
  BY <1>1, <1>2 DEF QueueInv, NewestExists
<1> QED BY <1>2, <1>3, <1>4

\* A curator's place is unharmed by what others do to the rows and the events.
LEMMA CuratorKept ==
    ASSUME NEW c \in Curators, FileNames(c), CaseOf(c),
           file'[c] = file[c], todo'[c] = todo[c], desk'[c] = desk[c],
           \A i \in Items : items[i] \in Rows => items'[i] \in Rows,
           file[c] \cup todo[c] \subseteq Items, desk[c] \in Desks,
           events \subseteq events'
    PROVE  FileNames(c)' /\ CaseOf(c)'
<1>1. FileNames(c)'
  BY DEF FileNames
<1>2. AtCase(c) => desk[c].item \in Items
  BY DEF AtCase, Desks
<1>3. desk[c].pc = "commit" => DecidedOn(events', desk[c].made, desk[c].item)
  BY DecidedStays DEF CaseOf
<1>4. desk[c].pc \in {"read", "mark", "build"} => Event(desk[c].item, c, desk[c].fill) \in events'
  BY DEF CaseOf
<1>5. CaseOf(c)'
  BY <1>2, <1>3, <1>4 DEF CaseOf, AtCase, Event
<1> QED BY <1>1, <1>5

-----------------------------------------------------------------------------
(* The engine's steps.                                                      *)

LEMMA EngineStep ==
    ASSUME QueueInv,
           \/ \E i \in Items : Take(i)
           \/ Build \/ Store \/ Raise \/ EngineStops
    PROVE  QueueInv'
<1> USE ReviewAssumption DEF QueueInv, CuratorsInOrder
<1>1. ASSUME NEW i \in Items, Take(i) PROVE QueueInv'
  <2>1. PICK says \in IF i \in Asked THEN Values ELSE {None} :
          engine' = [pc |-> IF i \in Asked THEN "build" ELSE "raise", item |-> i,
                     old |-> NewestValue(i), proposed |-> says, made |-> None]
    BY <1>1 DEF Take
  <2>2. NewestValue(i) \in Maybe /\ says \in Maybe
    BY <2>1, NewestType DEF Maybe
  <2>3. engine' \in Engines /\ EngineInOrder'
    BY <2>1, <2>2 DEF Engines, EngineInOrder
  <2>4. replays' \in 0 .. MaxReplays
    BY <1>1 DEF TypeOK, Take
  <2>5. TypeOK'
    BY <1>1, <2>3, <2>4 DEF TypeOK, Take
  <2>6. CuratorsInOrder'
    BY <1>1, CuratorKept DEF TypeOK, Take
  <2> QED BY <1>1, <2>3, <2>5, <2>6 DEF Take, NewestExists
<1>2. CASE Build
  <2>1. /\ engine.item \in Items /\ engine.proposed \in Values
        /\ engine \in [pc : {"build", "store", "raise"}, item : Items, old : Maybe,
                       proposed : Maybe, made : Artifacts \cup {None}]
    BY <1>2 DEF Build, TypeOK, Engines, EngineInOrder
  <2> DEFINE made == Built(engine.item, engine.proposed, Machine, "step", engine.proposed)
  <2>2. made \in Artifacts /\ made.via = "step"
    BY <2>1, BuiltType DEF Maybe
  <2>3. engine' = [engine EXCEPT !.pc = "store", !.made = made] /\ Ages(engine.item)
    BY <1>2 DEF Build
  <2>4. built' \in [Items -> Nat]
    BY <2>1, <2>3, BuiltGrows
  <2> HIDE DEF made
  <2>5. engine' \in Engines /\ EngineInOrder'
    BY <2>1, <2>2, <2>3 DEF Engines, EngineInOrder
  <2>6. TypeOK'
    BY <1>2, <2>4, <2>5 DEF TypeOK, Build
  <2>7. CuratorsInOrder'
    BY <1>2, CuratorKept DEF TypeOK, Build
  <2> QED BY <1>2, <2>5, <2>6, <2>7 DEF Build, NewestExists
<1>3. CASE Store
  <2>1. engine.item \in Items /\ engine.made \in Artifacts
    BY <1>3 DEF Store, TypeOK, Engines, EngineInOrder
  <2>2. history' \in [Items -> SUBSET Artifacts] /\ NewestExists'
    BY <1>3, <2>1, HistoryPut DEF Store
  <2>3. engine' \in Engines /\ engine'.pc \in {"idle", "raise"}
    BY <1>3, <2>1 DEF Store, TypeOK, Engines, Resting
  <2>4. TypeOK'
    BY <1>3, <2>2, <2>3 DEF TypeOK, Store
  <2>5. CuratorsInOrder'
    BY <1>3, CuratorKept DEF TypeOK, Store
  <2> QED BY <2>2, <2>3, <2>4, <2>5 DEF EngineInOrder
<1>4. CASE Raise
  <2>1. engine.item \in Items /\ engine.proposed \in Maybe /\ engine.old \in Maybe
    BY <1>4 DEF Raise, TypeOK, Engines
  <2>2. Raised(engine.item, engine.proposed, engine.old) \in Rows
    BY <2>1 DEF Raised, Rows, ItemStates
  <2>3. /\ items' \in [Items -> Rows \cup {None}]
        /\ \A i \in Items : items[i] \in Rows => items'[i] \in Rows
    BY <1>4, <2>1, <2>2 DEF Raise, TypeOK
  <2>4. engine' \in Engines /\ engine'.pc = "idle" /\ said' \in [Items -> Maybe]
    BY <1>4, <2>1 DEF Raise, TypeOK, Engines, Resting
  <2>5. TypeOK'
    BY <1>4, <2>3, <2>4 DEF TypeOK, Raise
  <2>6. CuratorsInOrder'
    BY <1>4, <2>3, CuratorKept DEF TypeOK, Raise
  <2> QED BY <1>4, <2>4, <2>5, <2>6 DEF Raise, EngineInOrder, NewestExists
<1>5. CASE EngineStops
  <2>1. engine' \in Engines /\ engine'.pc = "idle"
    BY <1>5 DEF EngineStops, Engines, Resting
  <2>2. stops' \in 0 .. MaxStops
    BY <1>5 DEF TypeOK, EngineStops
  <2>3. TypeOK'
    BY <1>5, <2>1, <2>2 DEF TypeOK, EngineStops
  <2>4. CuratorsInOrder'
    BY <1>5, CuratorKept DEF TypeOK, EngineStops
  <2> QED BY <1>5, <2>1, <2>3, <2>4 DEF EngineStops, EngineInOrder, NewestExists
<1> QED BY <1>1, <1>2, <1>3, <1>4, <1>5

-----------------------------------------------------------------------------
(* A curator's steps.                                                       *)

\* What holds of a decision under way.
LEMMA CaseType ==
    ASSUME QueueInv, NEW c \in Curators, AtCase(c)
    PROVE  /\ desk[c] \in CaseDesks
           /\ desk[c].item \in Items /\ items[desk[c].item] \in Rows
           /\ desk[c].fill \in Fills /\ desk[c].fill.decision \in Offered
           /\ desk[c].fill.value \in Maybe
<1>1. desk[c] \in Desks /\ CaseOf(c)
  BY DEF QueueInv, TypeOK, CuratorsInOrder
<1>2. desk[c] \in CaseDesks /\ items[desk[c].item] \in Rows
  BY <1>1 DEF Desks, CaseDesks, AtCase, CaseOf
<1>3. \A fill \in Fills : fill.decision \in Offered /\ fill.value \in Maybe
  BY ReviewAssumption DEF Fills, Maybe
<1> QED BY <1>2, <1>3 DEF CaseDesks

\* Everyone but c is where they were.
LEMMA OthersKept ==
    ASSUME QueueInv, NEW c \in Curators,
           \A d \in Curators : d # c => file'[d] = file[d] /\ todo'[d] = todo[d] /\ desk'[d] = desk[d],
           \A i \in Items : items[i] \in Rows => items'[i] \in Rows,
           events \subseteq events', FileNames(c)', CaseOf(c)'
    PROVE  CuratorsInOrder'
<1>1. \A d \in Curators : /\ file[d] \cup todo[d] \subseteq Items /\ desk[d] \in Desks
                          /\ FileNames(d) /\ CaseOf(d)
  BY DEF QueueInv, TypeOK, CuratorsInOrder
<1>2. ASSUME NEW d \in Curators, d # c PROVE FileNames(d)' /\ CaseOf(d)'
  BY <1>1, <1>2, CuratorKept
<1> QED BY <1>2 DEF CuratorsInOrder

LEMMA ExportStep ==
    ASSUME QueueInv, NEW c \in Curators, Export(c)
    PROVE  QueueInv'
<1> DEFINE open == {i \in Items : items[i] # None /\ items[i].state = "open"}
<1>1. /\ file' = [file EXCEPT ![c] = open]
      /\ UNCHANGED <<said, history, built, items, events, engine, todo, desk, replays,
                     imports, stops>>
  BY DEF Export
<1>2. open \in SUBSET Items /\ \A i \in open : items[i] \in Rows
  BY DEF QueueInv, TypeOK
<1>3. file'[c] = open /\ \A d \in Curators \ {c} : file'[d] = file[d]
  BY <1>1 DEF QueueInv, TypeOK
<1>4. TypeOK'
  BY <1>1, <1>2 DEF QueueInv, TypeOK
<1>5. FileNames(c) /\ CaseOf(c)
  BY DEF QueueInv, CuratorsInOrder
<1>6. FileNames(c)'
  BY <1>1, <1>2, <1>3, <1>5 DEF FileNames
<1>7. CaseOf(c)'
  BY <1>1, <1>5 DEF CaseOf, AtCase
<1>8. CuratorsInOrder'
  BY <1>1, <1>3, <1>6, <1>7, OthersKept
<1> QED BY <1>1, <1>4, <1>8 DEF QueueInv, EngineInOrder, NewestExists

LEMMA ImportStep ==
    ASSUME QueueInv, NEW c \in Curators, Import(c)
    PROVE  QueueInv'
<1>1. PICK rows \in SUBSET file[c] : todo' = [todo EXCEPT ![c] = rows]
  BY DEF Import
<1>2. UNCHANGED <<said, history, built, items, events, engine, file, desk, replays, stops>>
  BY DEF Import
<1>3. /\ todo' \in [Curators -> SUBSET Items] /\ todo'[c] = rows
      /\ \A d \in Curators \ {c} : todo'[d] = todo[d]
  BY <1>1 DEF QueueInv, TypeOK
<1>4. imports' \in 0 .. MaxImports
  BY ReviewAssumption DEF Import, QueueInv, TypeOK
<1>5. TypeOK'
  BY <1>2, <1>3, <1>4 DEF QueueInv, TypeOK
<1>6. FileNames(c) /\ CaseOf(c)
  BY DEF QueueInv, CuratorsInOrder
<1>7. FileNames(c)'
  BY <1>1, <1>2, <1>3, <1>6 DEF FileNames
<1>8. CaseOf(c)'
  BY <1>2, <1>6 DEF CaseOf, AtCase
<1>9. CuratorsInOrder'
  BY <1>2, <1>3, <1>7, <1>8, OthersKept
<1> QED BY <1>2, <1>5, <1>9 DEF QueueInv, EngineInOrder, NewestExists

\* What is on the desk of c changes, and rows of the import may be left behind.
LEMMA DeskMoves ==
    ASSUME QueueInv, NEW c \in Curators, NEW next \in Desks, NEW rows \in SUBSET todo[c],
           desk' = [desk EXCEPT ![c] = next], todo' = [todo EXCEPT ![c] = rows],
           file' = file, events \subseteq events',
           \A i \in Items : items[i] \in Rows => items'[i] \in Rows,
           CaseOf(c)'
    PROVE  /\ desk' \in [Curators -> Desks] /\ todo' \in [Curators -> SUBSET Items]
           /\ CuratorsInOrder'
<1>1. /\ desk'[c] = next /\ todo'[c] = rows
      /\ \A d \in Curators \ {c} : desk'[d] = desk[d] /\ todo'[d] = todo[d]
  BY DEF QueueInv, TypeOK
<1>2. desk' \in [Curators -> Desks] /\ todo' \in [Curators -> SUBSET Items]
  BY DEF QueueInv, TypeOK
<1>3. FileNames(c) /\ file[c] \cup todo[c] \subseteq Items
  BY DEF QueueInv, CuratorsInOrder, TypeOK
<1>4. FileNames(c)'
  BY <1>1, <1>3 DEF FileNames
<1>5. CuratorsInOrder'
  BY <1>1, <1>4, OthersKept
<1> QED BY <1>2, <1>5

\* The desk is cleared.
LEMMA DeskCleared ==
    ASSUME QueueInv, NEW c \in Curators, NEW next \in Desks, NEW rows \in SUBSET todo[c],
           desk' = [desk EXCEPT ![c] = next], next.pc \in {"idle", "legacy", "accept"},
           todo' = [todo EXCEPT ![c] = rows],
           file' = file, items' = items, events \subseteq events'
    PROVE  /\ desk' \in [Curators -> Desks] /\ todo' \in [Curators -> SUBSET Items]
           /\ CuratorsInOrder'
<1>1. desk'[c] = next
  BY DEF QueueInv, TypeOK
<1>2. CaseOf(c)'
  BY <1>1 DEF CaseOf, AtCase
<1> QED BY <1>2, DeskMoves

LEMMA TodoKept ==
    ASSUME QueueInv, NEW c \in Curators, todo' = todo
    PROVE  todo' = [todo EXCEPT ![c] = todo[c]]
  BY DEF QueueInv, TypeOK

LEMMA RestingType == Resting \in Desks /\ Resting \in Engines /\ Resting.pc = "idle"
  BY DEF Resting, Desks, Engines

LEMMA OpenCaseStep ==
    ASSUME QueueInv, NEW c \in Curators, OpenCase(c)
    PROVE  QueueInv'
<1>1. PICK i \in todo[c], fill \in Fills :
        /\ todo' = [todo EXCEPT ![c] = @ \ {i}]
        /\ desk' = [desk EXCEPT ![c] = [pc |-> "judge", item |-> i, fill |-> fill,
                                        row |-> Shown(items[i]), read |-> None]]
        /\ UNCHANGED <<said, history, built, items, events, engine, file, replays,
                       imports, stops>>
  BY DEF OpenCase
<1>2. i \in Items /\ items[i] \in Rows /\ todo' = [todo EXCEPT ![c] = todo[c] \ {i}]
  BY <1>1 DEF QueueInv, TypeOK, CuratorsInOrder, FileNames
<1>3. Shown(items[i]) \in [proposed : Maybe, old : Maybe]
  BY <1>2 DEF Shown, Rows
<1> DEFINE next == [pc |-> "judge", item |-> i, fill |-> fill,
                    row |-> Shown(items[i]), read |-> None]
<1>4. next \in Desks /\ next.pc = "judge" /\ next.item = i
  BY <1>2, <1>3 DEF Desks
<1>5. desk' = [desk EXCEPT ![c] = next] /\ desk'[c] = next
  BY <1>1 DEF QueueInv, TypeOK
<1> HIDE DEF next
<1>6. CaseOf(c)'
  BY <1>1, <1>2, <1>4, <1>5 DEF CaseOf, AtCase
<1>7. /\ desk' \in [Curators -> Desks] /\ todo' \in [Curators -> SUBSET Items]
      /\ CuratorsInOrder'
  BY <1>1, <1>2, <1>4, <1>5, <1>6, DeskMoves
<1>8. TypeOK'
  BY <1>1, <1>7 DEF QueueInv, TypeOK
<1> QED BY <1>1, <1>7, <1>8 DEF QueueInv, EngineInOrder, NewestExists

LEMMA RefuseRowStep ==
    ASSUME QueueInv, NEW c \in Curators, RefuseRow(c)
    PROVE  QueueInv'
<1>1. /\ desk' = [desk EXCEPT ![c] = Resting] /\ todo' = [todo EXCEPT ![c] = {}]
      /\ UNCHANGED <<said, history, built, items, events, engine, file, replays, imports, stops>>
  BY DEF RefuseRow
<1>2. /\ desk' \in [Curators -> Desks] /\ todo' \in [Curators -> SUBSET Items]
      /\ CuratorsInOrder'
  BY <1>1, RestingType, DeskCleared
<1>3. TypeOK'
  BY <1>1, <1>2 DEF QueueInv, TypeOK
<1> QED BY <1>1, <1>2, <1>3 DEF QueueInv, EngineInOrder, NewestExists

LEMMA CuratorStopsStep ==
    ASSUME QueueInv, NEW c \in Curators, CuratorStops(c)
    PROVE  QueueInv'
<1>1. /\ desk' = [desk EXCEPT ![c] = Resting] /\ todo' = [todo EXCEPT ![c] = {}]
      /\ UNCHANGED <<said, history, built, items, events, engine, file, replays, imports>>
  BY DEF CuratorStops
<1>2. /\ desk' \in [Curators -> Desks] /\ todo' \in [Curators -> SUBSET Items]
      /\ CuratorsInOrder'
  BY <1>1, RestingType, DeskCleared
<1>3. stops' \in 0 .. MaxStops
  BY ReviewAssumption DEF CuratorStops, QueueInv, TypeOK
<1>4. TypeOK'
  BY <1>1, <1>2, <1>3 DEF QueueInv, TypeOK
<1> QED BY <1>1, <1>2, <1>4 DEF QueueInv, EngineInOrder, NewestExists

\* The decision under way goes on at pc, with the rows and events it has by then.
LEMMA CaseGoesOn ==
    ASSUME QueueInv, NEW c \in Curators, AtCase(c),
           NEW read \in Rows \cup {None}, NEW pc \in {"read", "mark", "build"},
           desk' = [desk EXCEPT ![c].pc = pc, ![c].read = read],
           pc = "mark" => read \in Rows,
           file' = file, todo' = todo,
           \A i \in Items : items[i] \in Rows => items'[i] \in Rows,
           events \subseteq events',
           ~Incomplete(desk[c].fill), Event(desk[c].item, c, desk[c].fill) \in events'
    PROVE  desk' \in [Curators -> Desks] /\ CuratorsInOrder'
<1> DEFINE next == [desk[c] EXCEPT !.pc = pc, !.read = read]
<1>1. desk[c] \in CaseDesks /\ desk[c].item \in Items /\ items[desk[c].item] \in Rows
  BY CaseType
<1>2. /\ next \in CaseDesks /\ next.pc = pc /\ next.read = read
      /\ next.item = desk[c].item /\ next.fill = desk[c].fill
  BY <1>1 DEF CaseDesks
<1>3. desk' = [desk EXCEPT ![c] = next] /\ desk'[c] = next
  BY DEF QueueInv, TypeOK
<1>4. next \in Desks
  BY <1>2 DEF CaseDesks, Desks
<1> HIDE DEF next
<1>5. CaseOf(c)'
  BY <1>1, <1>2, <1>3 DEF CaseOf, AtCase, Event
<1> QED BY <1>3, <1>4, <1>5, TodoKept, DeskMoves

LEMMA JudgeStep ==
    ASSUME QueueInv, NEW c \in Curators, Judge(c)
    PROVE  QueueInv'
<1> DEFINE event == Event(desk[c].item, c, desk[c].fill)
<1>1. AtCase(c) /\ ~Incomplete(desk[c].fill)
  BY DEF Judge, AtDesk, AtCase
<1>2. /\ desk[c].item \in Items /\ desk[c].fill.decision \in Offered
      /\ desk[c].fill.value \in Maybe /\ desk[c] \in CaseDesks
  BY <1>1, CaseType
<1>3. /\ events' = events \cup {event} /\ Step(c, "read")
      /\ UNCHANGED <<said, history, built, items, engine, file, todo, replays, imports, stops>>
  BY DEF Judge
<1>4. event \in Events
  BY <1>2 DEF Event, Events
<1> HIDE DEF event
<1>5. desk[c].read \in Rows \cup {None} /\ desk[c] = [desk[c] EXCEPT !.read = desk[c].read]
  BY <1>2 DEF CaseDesks
<1>6. desk' = [desk EXCEPT ![c].pc = "read", ![c].read = desk[c].read]
  BY <1>2, <1>3, <1>5 DEF Step, CaseDesks, QueueInv, TypeOK
<1>7. desk' \in [Curators -> Desks] /\ CuratorsInOrder'
  BY <1>1, <1>3, <1>5, <1>6, CaseGoesOn DEF event
<1>8. TypeOK'
  BY <1>3, <1>4, <1>7 DEF QueueInv, TypeOK
<1> QED BY <1>3, <1>7, <1>8 DEF QueueInv, EngineInOrder, NewestExists

LEMMA ReadRowStep ==
    ASSUME QueueInv, NEW c \in Curators, ReadRow(c)
    PROVE  QueueInv'
<1>1. AtCase(c) /\ desk[c].pc = "read"
  BY DEF ReadRow, AtDesk, AtCase
<1>2. items[desk[c].item] \in Rows
  BY <1>1, CaseType
<1>3. /\ desk' = [desk EXCEPT ![c].pc = "mark", ![c].read = items[desk[c].item]]
      /\ UNCHANGED <<said, history, built, items, events, engine, file, todo, replays, imports,
                     stops>>
  BY DEF ReadRow
<1>4. ~Incomplete(desk[c].fill) /\ Event(desk[c].item, c, desk[c].fill) \in events
  BY <1>1 DEF QueueInv, CuratorsInOrder, CaseOf
<1>5. desk' \in [Curators -> Desks] /\ CuratorsInOrder'
  BY <1>1, <1>2, <1>3, <1>4, CaseGoesOn
<1>6. TypeOK'
  BY <1>3, <1>5 DEF QueueInv, TypeOK
<1> QED BY <1>3, <1>5, <1>6 DEF QueueInv, EngineInOrder, NewestExists

\* The row that is written: decided, by the one who has it on their desk.
LEMMA MarkedRow ==
    ASSUME QueueInv, NEW c \in Curators, Mark(c)
    PROVE  /\ AtCase(c) /\ desk[c].item \in Items /\ desk[c].fill.decision \in Decisions
           /\ items' \in [Items -> Rows \cup {None}]
           /\ items'[desk[c].item] \in Rows
           /\ items'[desk[c].item].state = NewState[desk[c].fill.decision]
           /\ items'[desk[c].item].by = c
           /\ \A i \in Items \ {desk[c].item} : items'[i] = items[i]
           /\ Event(desk[c].item, c, desk[c].fill) \in events
           /\ ~Incomplete(desk[c].fill)
<1>1. AtCase(c) /\ desk[c].pc = "mark"
  BY DEF Mark, AtDesk, AtCase
<1>2. /\ desk[c].item \in Items /\ desk[c].fill.decision \in Decisions
      /\ desk[c].read \in Rows /\ Event(desk[c].item, c, desk[c].fill) \in events
      /\ ~Incomplete(desk[c].fill)
  BY <1>1, CaseType, ReviewAssumption DEF QueueInv, CuratorsInOrder, CaseOf
<1> DEFINE row == [desk[c].read EXCEPT !.state = NewState[desk[c].fill.decision], !.by = c]
<1>3. /\ row \in Rows /\ row.state = NewState[desk[c].fill.decision] /\ row.by = c
  BY <1>2, NewStates DEF Rows
<1>4. items' = [items EXCEPT ![desk[c].item] = row]
  BY DEF Mark
<1>5. items \in [Items -> Rows \cup {None}]
  BY DEF QueueInv, TypeOK
<1> HIDE DEF row
<1> QED BY <1>1, <1>2, <1>3, <1>4, <1>5

LEMMA MarkStep ==
    ASSUME QueueInv, NEW c \in Curators, Mark(c)
    PROVE  QueueInv'
<1>1. /\ AtCase(c) /\ items' \in [Items -> Rows \cup {None}]
      /\ \A i \in Items : items[i] \in Rows => items'[i] \in Rows
      /\ Event(desk[c].item, c, desk[c].fill) \in events /\ ~Incomplete(desk[c].fill)
  BY MarkedRow
<1>2. /\ desk' = [desk EXCEPT ![c].pc = "build", ![c].read = None]
      /\ UNCHANGED <<said, history, built, events, engine, file, todo, replays, imports, stops>>
  BY DEF Mark
<1>3. desk' \in [Curators -> Desks] /\ CuratorsInOrder'
  BY <1>1, <1>2, CaseGoesOn
<1>4. TypeOK'
  BY <1>1, <1>2, <1>3 DEF QueueInv, TypeOK
<1> QED BY <1>2, <1>3, <1>4 DEF QueueInv, EngineInOrder, NewestExists

\* What a decision builds is what was decided.
LEMMA DecidedValue ==
    ASSUME QueueInv, NEW c \in Curators, BuildValue(c), Decided(desk[c]) # None
    PROVE  LET made == Built(desk[c].item, Decided(desk[c]), c, "decision", Evidence(desk[c].row))
           IN /\ made \in Artifacts /\ made.via = "decision"
              /\ made.born = built[desk[c].item] + 1
              /\ desk[c].item \in Items /\ DecidedOn(events, made, desk[c].item)
<1> DEFINE made == Built(desk[c].item, Decided(desk[c]), c, "decision", Evidence(desk[c].row))
<1>1. AtCase(c) /\ desk[c].pc = "build"
  BY DEF BuildValue, AtDesk, AtCase
<1>2. /\ desk[c].item \in Items /\ desk[c].fill \in Fills /\ desk[c].fill.value \in Maybe
      /\ desk[c].row \in [proposed : Maybe, old : Maybe]
      /\ Event(desk[c].item, c, desk[c].fill) \in events
  BY <1>1, CaseType DEF CaseDesks, QueueInv, CuratorsInOrder, CaseOf
<1>3. /\ Decided(desk[c]) \in Values /\ desk[c].fill.decision \in {"accept", "edit"}
      /\ desk[c].fill.decision = "edit" => Decided(desk[c]) = desk[c].fill.value
  BY <1>2 DEF Decided, Maybe
<1>4. Evidence(desk[c].row) \in Maybe
  BY <1>2 DEF Evidence
<1>5. /\ made \in Artifacts /\ made.via = "decision" /\ made.by = c
      /\ made.value = Decided(desk[c]) /\ made.born = built[desk[c].item] + 1
  BY <1>2, <1>3, <1>4, BuiltType DEF QueueInv
<1> HIDE DEF made
<1>6. DecidedOn(events, made, desk[c].item)
  BY <1>2, <1>3, <1>5 DEF DecidedOn, Event
<1> QED BY <1>2, <1>5, <1>6 DEF made

LEMMA BuildValueStep ==
    ASSUME QueueInv, NEW c \in Curators, BuildValue(c)
    PROVE  QueueInv'
<1>1. UNCHANGED <<said, history, items, events, engine, file, todo, replays, imports, stops>>
  BY DEF BuildValue
<1>2. todo' = [todo EXCEPT ![c] = todo[c]]
  BY <1>1, TodoKept
<1>3. /\ desk' \in [Curators -> Desks] /\ CuratorsInOrder'
      /\ built' \in [Items -> Nat]
  <2>1. CASE Decided(desk[c]) = None
    <3>1. desk' = [desk EXCEPT ![c] = Resting] /\ built' = built
      BY <2>1 DEF BuildValue
    <3>2. built' \in [Items -> Nat]
      BY <3>1 DEF QueueInv, TypeOK
    <3>3. desk' \in [Curators -> Desks] /\ CuratorsInOrder'
      BY <1>1, <1>2, <3>1, RestingType, DeskCleared
    <3> QED BY <3>2, <3>3
  <2>2. CASE Decided(desk[c]) # None
    <3> DEFINE made == Built(desk[c].item, Decided(desk[c]), c, "decision",
                             Evidence(desk[c].row))
               next == [pc |-> "commit", item |-> desk[c].item, made |-> made]
    <3>1. desk' = [desk EXCEPT ![c] = next] /\ Ages(desk[c].item)
      BY <2>2 DEF BuildValue
    <3>2. made \in Artifacts /\ desk[c].item \in Items /\ DecidedOn(events, made, desk[c].item)
      BY <2>2, DecidedValue
    <3> HIDE DEF made
    <3>3. next \in Desks /\ desk'[c] = next
      BY <3>1, <3>2 DEF Desks, QueueInv, TypeOK
    <3>4. CaseOf(c)'
      BY <1>1, <3>2, <3>3 DEF CaseOf, AtCase
    <3>5. built' \in [Items -> Nat]
      BY <3>1, <3>2, BuiltGrows DEF QueueInv
    <3>6. desk' \in [Curators -> Desks] /\ CuratorsInOrder'
      BY <1>1, <1>2, <3>1, <3>3, <3>4, DeskMoves
    <3> QED BY <3>5, <3>6
  <2> QED BY <2>1, <2>2
<1>4. TypeOK'
  BY <1>1, <1>3 DEF QueueInv, TypeOK
<1> QED BY <1>1, <1>3, <1>4 DEF QueueInv, EngineInOrder, NewestExists

LEMMA CommitValueStep ==
    ASSUME QueueInv, NEW c \in Curators, CommitValue(c)
    PROVE  QueueInv'
<1>1. /\ desk' = [desk EXCEPT ![c] = Resting]
      /\ UNCHANGED <<said, built, items, events, engine, file, todo, replays, imports, stops>>
  BY DEF CommitValue
<1>2. desk[c].item \in Items /\ desk[c].made \in Artifacts
  BY DEF CommitValue, AtDesk, QueueInv, TypeOK, Desks
<1>3. desk' \in [Curators -> Desks] /\ CuratorsInOrder'
  BY <1>1, TodoKept, RestingType, DeskCleared
<1>4. history' \in [Items -> SUBSET Artifacts] /\ NewestExists'
  BY <1>2, HistoryPut DEF CommitValue
<1>5. TypeOK'
  BY <1>1, <1>3, <1>4 DEF QueueInv, TypeOK
<1> QED BY <1>1, <1>3, <1>4, <1>5 DEF QueueInv, EngineInOrder

LEMMA AcceptLegacyStep ==
    ASSUME QueueInv, NEW c \in Curators, AcceptLegacy(c)
    PROVE  QueueInv'
<1>1. PICK i \in Items :
        /\ history[i] # {}
        /\ desk' = [desk EXCEPT ![c] = [pc |-> "accept", item |-> i, prior |-> Newest(i)]]
  BY DEF AcceptLegacy
<1>2. UNCHANGED <<said, history, built, items, events, engine, file, todo, replays, stops>>
  BY DEF AcceptLegacy
<1>3. imports' \in 0 .. MaxImports
  BY ReviewAssumption DEF AcceptLegacy, QueueInv, TypeOK
<1>4. [pc |-> "accept", item |-> i, prior |-> Newest(i)] \in Desks
  BY <1>1, NewestType DEF Desks
<1>5. desk' \in [Curators -> Desks] /\ CuratorsInOrder'
  BY <1>1, <1>2, <1>4, TodoKept, DeskCleared
<1>6. TypeOK'
  BY <1>2, <1>3, <1>5 DEF QueueInv, TypeOK
<1> QED BY <1>2, <1>5, <1>6 DEF QueueInv, EngineInOrder, NewestExists

\* What an acceptance of a legacy value builds.
LEMMA LegacyValue ==
    ASSUME QueueInv, NEW c \in Curators, BuildLegacy(c)
    PROVE  LET prior == desk[c].prior
               made == Built(desk[c].item, prior.value, c, "legacy",
                             IF prior.via = "step" THEN Machine ELSE prior.basis)
           IN /\ made \in Artifacts /\ made.via = "legacy"
              /\ made.born = built[desk[c].item] + 1 /\ desk[c].item \in Items
<1>1. desk[c].item \in Items /\ desk[c].prior \in Artifacts
  BY DEF BuildLegacy, AtDesk, QueueInv, TypeOK, Desks
<1>2. /\ desk[c].prior.value \in Values
      /\ (IF desk[c].prior.via = "step" THEN Machine ELSE desk[c].prior.basis)
            \in Maybe \cup {Machine}
  BY <1>1 DEF Artifacts
<1> QED BY <1>1, <1>2, BuiltType DEF QueueInv

LEMMA BuildLegacyStep ==
    ASSUME QueueInv, NEW c \in Curators, BuildLegacy(c)
    PROVE  QueueInv'
<1> DEFINE prior == desk[c].prior
           made == Built(desk[c].item, prior.value, c, "legacy",
                         IF prior.via = "step" THEN Machine ELSE prior.basis)
           next == [pc |-> "keep", item |-> desk[c].item, made |-> made]
<1>1. /\ desk' = [desk EXCEPT ![c] = next] /\ Ages(desk[c].item)
      /\ UNCHANGED <<said, history, items, events, engine, file, todo, replays, imports, stops>>
  BY DEF BuildLegacy
<1>2. made \in Artifacts /\ made.via = "legacy" /\ desk[c].item \in Items
  BY LegacyValue
<1> HIDE DEF made
<1>3. next \in Desks /\ desk'[c] = next
  BY <1>1, <1>2 DEF Desks, QueueInv, TypeOK
<1>4. CaseOf(c)'
  BY <1>2, <1>3 DEF CaseOf, AtCase
<1>5. built' \in [Items -> Nat]
  BY <1>1, <1>2, BuiltGrows DEF QueueInv
<1>6. desk' \in [Curators -> Desks] /\ CuratorsInOrder'
  BY <1>1, <1>3, <1>4, TodoKept, DeskMoves
<1>7. TypeOK'
  BY <1>1, <1>5, <1>6 DEF QueueInv, TypeOK
<1> QED BY <1>1, <1>6, <1>7 DEF QueueInv, EngineInOrder, NewestExists

LEMMA KeepLegacyStep ==
    ASSUME QueueInv, NEW c \in Curators, KeepLegacy(c)
    PROVE  QueueInv'
<1> DEFINE next == [pc |-> "legacy", item |-> desk[c].item]
<1>1. /\ desk' = [desk EXCEPT ![c] = next]
      /\ UNCHANGED <<said, built, items, events, engine, file, todo, replays, imports, stops>>
  BY DEF KeepLegacy
<1>2. desk[c].item \in Items /\ desk[c].made \in Artifacts
  BY DEF KeepLegacy, AtDesk, QueueInv, TypeOK, Desks
<1>3. next \in Desks /\ next.pc = "legacy"
  BY <1>2 DEF Desks
<1> HIDE DEF next
<1>4. desk' \in [Curators -> Desks] /\ CuratorsInOrder'
  BY <1>1, <1>3, TodoKept, DeskCleared
<1>5. history' \in [Items -> SUBSET Artifacts] /\ NewestExists'
  BY <1>2, HistoryPut DEF KeepLegacy
<1>6. TypeOK'
  BY <1>1, <1>4, <1>5 DEF QueueInv, TypeOK
<1> QED BY <1>1, <1>4, <1>5, <1>6 DEF QueueInv, EngineInOrder

LEMMA RecordLegacyStep ==
    ASSUME QueueInv, NEW c \in Curators, RecordLegacy(c)
    PROVE  QueueInv'
<1>1. /\ events' = events \cup {LegacyEvent(desk[c].item, c)}
      /\ desk' = [desk EXCEPT ![c] = Resting]
      /\ UNCHANGED <<said, history, built, items, engine, file, todo, replays, imports, stops>>
  BY DEF RecordLegacy
<1>2. desk[c].item \in Items
  BY DEF RecordLegacy, AtDesk, QueueInv, TypeOK, Desks
<1>3. LegacyEvent(desk[c].item, c) \in Events
  BY <1>2 DEF LegacyEvent, Events
<1>4. desk' \in [Curators -> Desks] /\ CuratorsInOrder'
  BY <1>1, TodoKept, RestingType, DeskCleared
<1>5. TypeOK'
  BY <1>1, <1>3, <1>4 DEF QueueInv, TypeOK
<1> QED BY <1>1, <1>4, <1>5 DEF QueueInv, EngineInOrder, NewestExists

-----------------------------------------------------------------------------
(* The invariant.                                                           *)

LEMMA QueueInit == Init => QueueInv
<1> SUFFICES ASSUME Init PROVE QueueInv
  OBVIOUS
<1>1. TypeOK
  BY RestingType, ReviewAssumption DEF Init, TypeOK, Maybe
<1>2. \A c \in Curators : file[c] = {} /\ todo[c] = {} /\ desk[c].pc = "idle"
  BY RestingType DEF Init
<1>3. CuratorsInOrder
  BY <1>2 DEF CuratorsInOrder, FileNames, CaseOf, AtCase
<1>4. EngineInOrder /\ NewestExists
  BY RestingType DEF Init, EngineInOrder, NewestExists
<1> QED BY <1>1, <1>3, <1>4 DEF QueueInv

LEMMA QueueStep == QueueInv /\ [Next]_vars => QueueInv'
<1> SUFFICES ASSUME QueueInv, [Next]_vars PROVE QueueInv'
  OBVIOUS
<1>1. CASE \/ \E i \in Items : Take(i)
           \/ Build \/ Store \/ Raise \/ EngineStops
  BY <1>1, EngineStep
<1>2. ASSUME NEW c \in Curators, Decide(c)
      PROVE  QueueInv'
  BY <1>2, OpenCaseStep, RefuseRowStep, JudgeStep, ReadRowStep, MarkStep, BuildValueStep,
     CommitValueStep, BuildLegacyStep, KeepLegacyStep, RecordLegacyStep DEF Decide
<1>3. ASSUME NEW c \in Curators, Export(c) \/ Import(c) \/ AcceptLegacy(c) \/ CuratorStops(c)
      PROVE  QueueInv'
  BY <1>3, ExportStep, ImportStep, AcceptLegacyStep, CuratorStopsStep
<1>4. CASE UNCHANGED vars
  BY <1>4 DEF vars, QueueInv, TypeOK, CuratorsInOrder, FileNames, CaseOf, AtCase,
              EngineInOrder, NewestExists
<1> QED BY <1>1, <1>2, <1>3, <1>4 DEF Next

\* Every variable keeps to its set, whatever engine and curators do between each
\* other's reads and writes.
THEOREM ReviewTypeCorrect == Spec => []TypeOK
<1>1. QueueInv => TypeOK
  BY DEF QueueInv
<1> QED BY <1>1, QueueInit, QueueStep, PTL DEF Spec

-----------------------------------------------------------------------------
(* What holds of rows and events.                                           *)

\* Events accumulate, and two actions write rows.
LEMMA WhoWrites ==
    ASSUME [Next]_vars
    PROVE  /\ events \subseteq events'
           /\ UNCHANGED <<items, said>> \/ Raise \/ \E c \in Curators : Mark(c)
<1>1. CASE UNCHANGED vars
  BY <1>1 DEF vars
<1>2. CASE \/ \E i \in Items : Take(i)
           \/ Build \/ Store \/ Raise \/ EngineStops
  BY <1>2 DEF Take, Build, Store, Raise, EngineStops
<1>3. ASSUME NEW c \in Curators, Export(c) \/ Import(c) \/ AcceptLegacy(c) \/ CuratorStops(c)
      PROVE  events \subseteq events' /\ UNCHANGED <<items, said>>
  BY <1>3 DEF Export, Import, AcceptLegacy, CuratorStops
<1>4. ASSUME NEW c \in Curators, Decide(c)
      PROVE  events \subseteq events' /\ (UNCHANGED <<items, said>> \/ Mark(c))
  BY <1>4 DEF Decide, OpenCase, RefuseRow, Judge, ReadRow, Mark, BuildValue, CommitValue,
              BuildLegacy, KeepLegacy, RecordLegacy
<1>5. ASSUME NEW c \in Curators,
             Export(c) \/ Import(c) \/ Decide(c) \/ AcceptLegacy(c) \/ CuratorStops(c)
      PROVE  events \subseteq events' /\ (UNCHANGED <<items, said>> \/ Mark(c))
  BY <1>3, <1>4, <1>5
<1> QED BY <1>1, <1>2, <1>5 DEF Next

LEMMA DecidedStep == QueueInv /\ DecidedHasEvent /\ [Next]_vars => DecidedHasEvent'
<1> SUFFICES ASSUME QueueInv, DecidedHasEvent, [Next]_vars,
                    NEW i \in Items, (items[i] # None)', NEW d \in Decisions,
                    items'[i].state = NewState[d]
             PROVE  JudgedBy(events', i, items'[i].by, d)
  BY DEF DecidedHasEvent, JudgedBy
<1>1. events \subseteq events'
  BY WhoWrites
<1>2. CASE items'[i] = items[i]
  <2>1. JudgedBy(events, i, items[i].by, d)
    BY <1>2 DEF DecidedHasEvent
  <2> QED BY <1>1, <1>2, <2>1 DEF JudgedBy
<1>3. CASE Raise
  <2>1. CASE i = engine.item
    <3>1. items'[i].state = "open"
      BY <1>3, <2>1 DEF Raise, Raised, QueueInv, TypeOK
    <3> QED BY <3>1, NewStates
  <2>2. CASE i # engine.item
    <3>1. items'[i] = items[i]
      BY <1>3, <2>2 DEF Raise, QueueInv, TypeOK
    <3> QED BY <3>1, <1>2
  <2> QED BY <2>1, <2>2
<1>4. ASSUME NEW c \in Curators, Mark(c)
      PROVE  JudgedBy(events', i, items'[i].by, d)
  <2>1. CASE i = desk[c].item
    <3>1. /\ desk[c].fill.decision \in Decisions
          /\ items'[i].state = NewState[desk[c].fill.decision] /\ items'[i].by = c
          /\ Event(desk[c].item, c, desk[c].fill) \in events
      BY <1>4, <2>1, MarkedRow
    <3>2. d = desk[c].fill.decision
      BY <3>1, NewStates
    <3> QED BY <1>1, <2>1, <3>1, <3>2 DEF JudgedBy, Event
  <2>2. CASE i # desk[c].item
    <3>1. items'[i] = items[i]
      BY <1>4, <2>2, MarkedRow
    <3> QED BY <3>1, <1>2
  <2> QED BY <2>1, <2>2
<1> QED BY <1>2, <1>3, <1>4, WhoWrites

LEMMA CurrentStep == QueueInv /\ OpenRowsAreCurrent /\ [Next]_vars => OpenRowsAreCurrent'
<1> SUFFICES ASSUME QueueInv, OpenRowsAreCurrent, [Next]_vars,
                    NEW i \in Items, items'[i] # None, items'[i].state = "open"
             PROVE  items'[i].proposed = said'[i]
  BY DEF OpenRowsAreCurrent
<1>1. CASE items'[i] = items[i] /\ said'[i] = said[i]
  BY <1>1 DEF OpenRowsAreCurrent
<1>2. CASE Raise
  <2>1. CASE i = engine.item
    BY <1>2, <2>1 DEF Raise, Raised, QueueInv, TypeOK
  <2>2. CASE i # engine.item
    <3>1. items'[i] = items[i] /\ said'[i] = said[i]
      BY <1>2, <2>2 DEF Raise, QueueInv, TypeOK
    <3> QED BY <3>1, <1>1
  <2> QED BY <2>1, <2>2
<1>3. ASSUME NEW c \in Curators, Mark(c)
      PROVE  items'[i].proposed = said'[i]
  <2>1. i # desk[c].item
    <3>1. /\ desk[c].fill.decision \in Decisions
          /\ items'[desk[c].item].state = NewState[desk[c].fill.decision]
      BY <1>3, MarkedRow
    <3> QED BY <3>1, NewStates
  <2>2. items'[i] = items[i] /\ said' = said
    BY <1>3, <2>1, MarkedRow DEF Mark
  <2> QED BY <2>2, <1>1
<1> QED BY <1>1, <1>2, <1>3, WhoWrites

-----------------------------------------------------------------------------
(* Ages.  An artifact gets its age when it is built, and is then in somebody's *)
(* hands until it is in the store: in between, others are built and stored.    *)

Hands == Curators \cup {Machine}
Holding(h) == IF h = Machine THEN engine.pc = "store" ELSE desk[h].pc \in {"commit", "keep"}
ItemOf(h) == IF h = Machine THEN engine.item ELSE desk[h].item
InHand(h) == IF h = Machine THEN engine.made ELSE desk[h].made

\* What is in hand was built, and nothing that is stored or in other hands then.
HistoryAges(i) ==
    /\ \A a \in history[i] : a.born <= built[i]
    /\ \A a, b \in history[i] : Alike(a, b) \/ a.born = b.born => a = b
HandAges(h) ==
    Holding(h) => /\ InHand(h).born <= built[ItemOf(h)]
                  /\ \A a \in history[ItemOf(h)] : a.born # InHand(h).born
Apart(h, k) ==
    Holding(h) /\ Holding(k) /\ ItemOf(h) = ItemOf(k) => InHand(h).born # InHand(k).born

AgesInOrder ==
    /\ \A i \in Items : HistoryAges(i)
    /\ \A h \in Hands : HandAges(h)
    /\ \A h, k \in Hands : h # k => Apart(h, k)

\* Nothing new gets into the hand.
Kept(h) == Holding(h)' => Holding(h) /\ ItemOf(h)' = ItemOf(h) /\ InHand(h)' = InHand(h)

\* The three things a step may do about ages.
NoneMoves == history' = history /\ built' = built /\ \A h \in Hands : Kept(h)
BuiltBy(h, i) ==
    /\ Ages(i) /\ history' = history
    /\ ItemOf(h)' = i /\ InHand(h)'.born = built[i] + 1
    /\ \A k \in Hands \ {h} : Kept(k)
StoredBy(h) ==
    /\ Holding(h) /\ ~Holding(h)' /\ built' = built
    /\ history' = [history EXCEPT ![ItemOf(h)] = Put(@, InHand(h))]
    /\ \A k \in Hands \ {h} : Kept(k)

LEMMA HandType ==
    ASSUME QueueInv, NEW h \in Hands, Holding(h)
    PROVE  ItemOf(h) \in Items /\ InHand(h) \in Artifacts
<1>1. CASE h = Machine
  BY <1>1 DEF Holding, ItemOf, InHand, QueueInv, TypeOK, Engines, EngineInOrder
<1>2. CASE h # Machine
  <2>1. h \in Curators /\ desk[h] \in Desks /\ desk[h].pc \in {"commit", "keep"}
    BY <1>2 DEF Hands, Holding, QueueInv, TypeOK
  <2>2. desk[h].item \in Items /\ desk[h].made \in Artifacts
    BY <2>1 DEF Desks
  <2> QED BY <1>2, <2>2 DEF ItemOf, InHand
<1> QED BY <1>1, <1>2

\* Whose desk does not change, and the engine at rest, keep what they hold.
LEMMA DeskKept ==
    ASSUME NEW c \in Curators, desk'[c] = desk[c]
    PROVE  Kept(c)
  BY ReviewAssumption DEF Kept, Holding, ItemOf, InHand

LEMMA EngineKept ==
    ASSUME engine' = engine
    PROVE  Kept(Machine)
  BY DEF Kept, Holding, ItemOf, InHand

LEMMA OthersHold ==
    ASSUME QueueInv, NEW c \in Curators, engine' = engine,
           NEW next, desk' = [desk EXCEPT ![c] = next]
    PROVE  \A k \in Hands \ {c} : Kept(k)
<1>1. \A d \in Curators \ {c} : desk'[d] = desk[d]
  OBVIOUS
<1>2. \A d \in Curators \ {c} : Kept(d)
  BY <1>1, DeskKept
<1> QED BY <1>2, EngineKept DEF Hands

LEMMA DeskRests ==
    ASSUME QueueInv, NEW c \in Curators, engine' = engine, history' = history, built' = built,
           NEW next, desk' = [desk EXCEPT ![c] = next], next.pc \notin {"commit", "keep"}
    PROVE  NoneMoves
<1>1. desk'[c] = next
  BY DEF QueueInv, TypeOK
<1>2. Kept(c)
  BY <1>1, ReviewAssumption DEF Kept, Holding
<1> QED BY <1>2, OthersHold DEF NoneMoves

LEMMA EngineMoves ==
    ASSUME QueueInv,
           \/ \E i \in Items : Take(i)
           \/ Build \/ Store \/ Raise \/ EngineStops
    PROVE  \/ NoneMoves
           \/ \E h \in Hands, i \in Items : BuiltBy(h, i)
           \/ \E h \in Hands : StoredBy(h)
<1>1. desk' = desk
  BY DEF Take, Build, Store, Raise, EngineStops
<1>2. \A k \in Hands \ {Machine} : Kept(k)
  BY <1>1, DeskKept DEF Hands
<1>3. CASE (\E i \in Items : Take(i)) \/ Raise \/ EngineStops
  <2>1. engine'.pc # "store" /\ history' = history /\ built' = built
    BY <1>3 DEF Take, Raise, EngineStops, Resting
  <2>2. Kept(Machine)
    BY <2>1 DEF Kept, Holding
  <2> QED BY <1>2, <2>1, <2>2 DEF NoneMoves
<1>4. CASE Build
  <2>1. engine.item \in Items /\ engine.proposed \in Values
    BY <1>4 DEF Build, QueueInv, TypeOK, Engines, EngineInOrder
  <2> DEFINE made == Built(engine.item, engine.proposed, Machine, "step", engine.proposed)
  <2>2. made.born = built[engine.item] + 1
    BY DEF Built
  <2>3. /\ engine' = [engine EXCEPT !.pc = "store", !.made = made] /\ Ages(engine.item)
        /\ history' = history
    BY <1>4 DEF Build
  <2>4. engine \in [pc : {"build", "store", "raise"}, item : Items, old : Maybe,
                    proposed : Maybe, made : Artifacts \cup {None}]
    BY <1>4 DEF Build, QueueInv, TypeOK, Engines
  <2> HIDE DEF made
  <2>5. engine'.item = engine.item /\ engine'.made = made
    BY <2>3, <2>4
  <2>6. PICK i \in Items : i = engine.item
    BY <2>1
  <2>7. BuiltBy(Machine, i)
    BY <1>2, <2>2, <2>3, <2>5, <2>6 DEF BuiltBy, ItemOf, InHand
  <2> QED BY <2>7 DEF Hands
<1>5. CASE Store
  <2>1. engine.pc = "store" /\ engine'.pc # "store" /\ built' = built
    BY <1>5 DEF Store, Resting, QueueInv, TypeOK, Engines
  <2>2. history' = [history EXCEPT ![engine.item] = Put(@, engine.made)]
    BY <1>5 DEF Store
  <2>3. StoredBy(Machine)
    BY <1>2, <2>1, <2>2 DEF StoredBy, Holding, ItemOf, InHand
  <2> QED BY <2>3 DEF Hands
<1> QED BY <1>3, <1>4, <1>5

LEMMA CuratorMoves ==
    ASSUME QueueInv, NEW c \in Curators,
           Export(c) \/ Import(c) \/ Decide(c) \/ AcceptLegacy(c) \/ CuratorStops(c)
    PROVE  \/ NoneMoves
           \/ \E i \in Items : BuiltBy(c, i)
           \/ StoredBy(c)
<1>1. engine' = engine
  BY DEF Export, Import, Decide, AcceptLegacy, CuratorStops, OpenCase, RefuseRow, Judge, ReadRow,
         Mark, BuildValue, CommitValue, BuildLegacy, KeepLegacy, RecordLegacy
<1>2. c # Machine
  BY ReviewAssumption
<1>3. CASE Export(c) \/ Import(c)
  <2>1. desk' = desk /\ history' = history /\ built' = built
    BY <1>3 DEF Export, Import
  <2> QED BY <1>1, <2>1, DeskKept, EngineKept DEF NoneMoves, Hands
<1>4. CASE RefuseRow(c) \/ CuratorStops(c) \/ RecordLegacy(c)
  <2>1. desk' = [desk EXCEPT ![c] = Resting] /\ history' = history /\ built' = built
    BY <1>4 DEF RefuseRow, CuratorStops, RecordLegacy
  <2> QED BY <1>1, <2>1, RestingType, DeskRests
<1>5. CASE OpenCase(c)
  <2>1. PICK i \in todo[c], fill \in Fills :
          desk' = [desk EXCEPT ![c] = [pc |-> "judge", item |-> i, fill |-> fill,
                                       row |-> Shown(items[i]), read |-> None]]
    BY <1>5 DEF OpenCase
  <2>2. history' = history /\ built' = built
    BY <1>5 DEF OpenCase
  <2> QED BY <1>1, <2>1, <2>2, DeskRests
<1>6. CASE Judge(c) \/ ReadRow(c) \/ Mark(c)
  <2>1. history' = history /\ built' = built /\ AtCase(c)
    BY <1>6 DEF Judge, ReadRow, Mark, AtDesk, AtCase
  <2>2. PICK next : desk' = [desk EXCEPT ![c] = next] /\ next.pc \in {"read", "mark", "build"}
    <3>1. desk[c] \in CaseDesks
      BY <2>1, CaseType
    <3>2. /\ [desk[c] EXCEPT !.pc = "read"].pc = "read"
          /\ [desk[c] EXCEPT !.pc = "mark", !.read = items[desk[c].item]].pc = "mark"
          /\ [desk[c] EXCEPT !.pc = "build", !.read = None].pc = "build"
      BY <3>1 DEF CaseDesks
    <3>3. CASE Judge(c)
      BY <3>2, <3>3 DEF Judge, Step
    <3>4. CASE ReadRow(c)
      BY <3>2, <3>4 DEF ReadRow
    <3>5. CASE Mark(c)
      BY <3>2, <3>5 DEF Mark
    <3> QED BY <1>6, <3>3, <3>4, <3>5
  <2> QED BY <1>1, <2>1, <2>2, DeskRests
<1>7. CASE AcceptLegacy(c)
  <2>1. PICK i \in Items :
          desk' = [desk EXCEPT ![c] = [pc |-> "accept", item |-> i, prior |-> Newest(i)]]
    BY <1>7 DEF AcceptLegacy
  <2>2. history' = history /\ built' = built
    BY <1>7 DEF AcceptLegacy
  <2> QED BY <1>1, <2>1, <2>2, DeskRests
<1>8. CASE BuildValue(c)
  <2>1. CASE Decided(desk[c]) = None
    <3>1. desk' = [desk EXCEPT ![c] = Resting] /\ history' = history /\ built' = built
      BY <1>8, <2>1 DEF BuildValue
    <3> QED BY <1>1, <3>1, RestingType, DeskRests
  <2>2. CASE Decided(desk[c]) # None
    <3> DEFINE made == Built(desk[c].item, Decided(desk[c]), c, "decision",
                             Evidence(desk[c].row))
               next == [pc |-> "commit", item |-> desk[c].item, made |-> made]
    <3>1. /\ desk' = [desk EXCEPT ![c] = next] /\ Ages(desk[c].item)
          /\ history' = history
      BY <1>8, <2>2 DEF BuildValue
    <3>2. made.born = built[desk[c].item] + 1 /\ desk[c].item \in Items
      BY <1>8, <2>2, DecidedValue
    <3> HIDE DEF made
    <3>3. desk'[c] = next
      BY <3>1 DEF QueueInv, TypeOK
    <3>4. PICK i \in Items : i = desk[c].item
      BY <3>2
    <3>5. ItemOf(c)' = i /\ InHand(c)'.born = built[i] + 1
      BY <1>2, <3>2, <3>3, <3>4 DEF ItemOf, InHand
    <3>6. \A k \in Hands \ {c} : Kept(k)
      BY <1>1, <3>1, OthersHold
    <3>7. BuiltBy(c, i)
      BY <3>1, <3>4, <3>5, <3>6 DEF BuiltBy
    <3> QED BY <3>7
  <2> QED BY <2>1, <2>2
<1>9. CASE BuildLegacy(c)
  <2> DEFINE made == Built(desk[c].item, desk[c].prior.value, c, "legacy",
                           IF desk[c].prior.via = "step" THEN Machine ELSE desk[c].prior.basis)
             next == [pc |-> "keep", item |-> desk[c].item, made |-> made]
  <2>1. /\ desk' = [desk EXCEPT ![c] = next] /\ Ages(desk[c].item)
        /\ history' = history
    BY <1>9 DEF BuildLegacy
  <2>2. made.born = built[desk[c].item] + 1 /\ desk[c].item \in Items
    BY <1>9, LegacyValue
  <2> HIDE DEF made
  <2>3. desk'[c] = next
    BY <2>1 DEF QueueInv, TypeOK
  <2>4. PICK i \in Items : i = desk[c].item
    BY <2>2
  <2>5. ItemOf(c)' = i /\ InHand(c)'.born = built[i] + 1
    BY <1>2, <2>2, <2>3, <2>4 DEF ItemOf, InHand
  <2>6. \A k \in Hands \ {c} : Kept(k)
    BY <1>1, <2>1, OthersHold
  <2>7. BuiltBy(c, i)
    BY <2>1, <2>4, <2>5, <2>6 DEF BuiltBy
  <2> QED BY <2>7
<1>10. CASE CommitValue(c) \/ KeepLegacy(c)
  <2>1. /\ desk[c].pc \in {"commit", "keep"} /\ built' = built
        /\ history' = [history EXCEPT ![desk[c].item] = Put(@, desk[c].made)]
    BY <1>10 DEF CommitValue, KeepLegacy, AtDesk
  <2>2. PICK next : desk' = [desk EXCEPT ![c] = next] /\ next.pc \in {"idle", "legacy"}
    BY <1>10, RestingType DEF CommitValue, KeepLegacy
  <2>3. desk'[c] = next
    BY <2>2 DEF QueueInv, TypeOK
  <2>4. StoredBy(c)
    BY <1>1, <1>2, <2>1, <2>2, <2>3, OthersHold DEF StoredBy, Holding, ItemOf, InHand
  <2> QED BY <2>4
<1> QED BY <1>3, <1>4, <1>5, <1>6, <1>7, <1>8, <1>9, <1>10 DEF Decide

LEMMA Moves ==
    ASSUME QueueInv, [Next]_vars
    PROVE  \/ NoneMoves
           \/ \E h \in Hands, i \in Items : BuiltBy(h, i)
           \/ \E h \in Hands : StoredBy(h)
<1>1. CASE UNCHANGED vars
  BY <1>1, DeskKept, EngineKept DEF vars, NoneMoves, Hands
<1>2. CASE \/ \E i \in Items : Take(i)
           \/ Build \/ Store \/ Raise \/ EngineStops
  BY <1>2, EngineMoves
<1>3. ASSUME NEW c \in Curators,
             Export(c) \/ Import(c) \/ Decide(c) \/ AcceptLegacy(c) \/ CuratorStops(c)
      PROVE  \/ NoneMoves
             \/ \E h \in Hands, i \in Items : BuiltBy(h, i)
             \/ \E h \in Hands : StoredBy(h)
  BY <1>3, CuratorMoves DEF Hands
<1> QED BY <1>1, <1>2, <1>3 DEF Next

\* What is put adds what was in hand, or nothing.
LEMMA PutAges ==
    ASSUME NEW s \in SUBSET Artifacts, NEW a \in Artifacts,
           \A x, y \in s : Alike(x, y) \/ x.born = y.born => x = y,
           \A x \in s : x.born # a.born
    PROVE  \A x, y \in Put(s, a) : Alike(x, y) \/ x.born = y.born => x = y
<1>1. CASE \E b \in s : Alike(a, b)
  BY <1>1 DEF Put
<1>2. CASE ~\E b \in s : Alike(a, b)
  <2>1. Put(s, a) = s \cup {a}
    BY <1>2 DEF Put
  <2>2. \A x \in s : ~Alike(a, x) /\ ~Alike(x, a)
    BY <1>2, AlikeFields
  <2> QED BY <2>1, <2>2
<1> QED BY <1>1, <1>2

LEMMA AgesKept ==
    ASSUME QueueInv, AgesInOrder, NoneMoves
    PROVE  AgesInOrder'
<1> USE DEF NoneMoves
<1>1. ASSUME NEW i \in Items PROVE HistoryAges(i)'
  BY DEF AgesInOrder, HistoryAges
<1>2. ASSUME NEW h \in Hands PROVE HandAges(h)'
  BY DEF AgesInOrder, HandAges, Kept
<1>3. ASSUME NEW h \in Hands, NEW k \in Hands, h # k PROVE Apart(h, k)'
  BY <1>3 DEF AgesInOrder, Apart, Kept
<1> QED BY <1>1, <1>2, <1>3 DEF AgesInOrder

LEMMA AgesBuilt ==
    ASSUME QueueInv, AgesInOrder, NEW h \in Hands, NEW i \in Items, BuiltBy(h, i)
    PROVE  AgesInOrder'
<1>1. /\ built'[i] = built[i] + 1 /\ built \in [Items -> Nat]
      /\ \A j \in Items : built[j] <= built'[j]
  <2>1. built'[i] = built[i] + 1 /\ \A j \in Items \ {i} : built'[j] = built[j]
    BY BuiltGrows DEF BuiltBy, QueueInv
  <2>2. built \in [Items -> Nat]
    BY DEF QueueInv, TypeOK
  <2> QED BY <2>1, <2>2
<1>2. /\ history' = history /\ ItemOf(h)' = i /\ InHand(h)'.born = built[i] + 1
      /\ \A k \in Hands \ {h} : Kept(k)
  BY DEF BuiltBy
<1>3. \A j \in Items : \A a \in history[j] : a.born \in Nat
  BY DEF QueueInv, TypeOK, Artifacts
<1>4. \A k \in Hands : Holding(k) => ItemOf(k) \in Items /\ InHand(k).born \in Nat
  BY HandType DEF Artifacts
<1>5. built' \in [Items -> Nat]
  BY BuiltGrows DEF BuiltBy, QueueInv
<1>6. ASSUME NEW j \in Items PROVE HistoryAges(j)'
  <2>1. HistoryAges(j)
    BY DEF AgesInOrder
  <2>2. \A a \in history[j] : a.born <= built'[j]
    BY <1>1, <1>3, <1>5, <2>1 DEF HistoryAges
  <2> QED BY <1>2, <2>1, <2>2 DEF HistoryAges
<1>7. \A a \in history[i] : a.born < built[i] + 1
  BY <1>1, <1>3 DEF AgesInOrder, HistoryAges
<1>8. ASSUME NEW k \in Hands PROVE HandAges(k)'
  <2>1. CASE k = h
    <3>1. InHand(h)'.born <= built'[i] /\ \A a \in history'[i] : a.born # InHand(h)'.born
      BY <1>1, <1>2, <1>3, <1>5, <1>7
    <3> QED BY <1>2, <2>1, <3>1 DEF HandAges
  <2>2. CASE k # h
    <3>1. Kept(k) /\ HandAges(k)
      BY <1>2, <2>2 DEF AgesInOrder
    <3> SUFFICES ASSUME Holding(k)'
                 PROVE  /\ InHand(k)'.born <= built'[ItemOf(k)']
                        /\ \A a \in history'[ItemOf(k)'] : a.born # InHand(k)'.born
      BY DEF HandAges
    <3>2. Holding(k) /\ ItemOf(k)' = ItemOf(k) /\ InHand(k)' = InHand(k)
      BY <3>1 DEF Kept
    <3>3. InHand(k).born <= built[ItemOf(k)] /\ \A a \in history[ItemOf(k)] : a.born # InHand(k).born
      BY <3>1, <3>2 DEF HandAges
    <3>4. ItemOf(k) \in Items /\ InHand(k).born \in Nat
      BY <1>4, <3>2
    <3>5. InHand(k).born <= built'[ItemOf(k)]
      BY <1>1, <1>5, <3>3, <3>4
    <3> QED BY <1>2, <3>2, <3>3, <3>5
  <2> QED BY <2>1, <2>2
<1>9. ASSUME NEW k \in Hands, k # h, Holding(k)', ItemOf(k)' = i
      PROVE  InHand(k)'.born # InHand(h)'.born
  <2>1. Holding(k) /\ ItemOf(k) = i /\ InHand(k)' = InHand(k)
    BY <1>2, <1>9 DEF Kept
  <2>2. InHand(k).born <= built[i] /\ InHand(k).born \in Nat
    BY <1>4, <2>1 DEF AgesInOrder, HandAges
  <2> QED BY <1>1, <1>2, <2>1, <2>2
<1>10. ASSUME NEW k \in Hands, NEW l \in Hands, k # l PROVE Apart(k, l)'
  <2>1. CASE k # h /\ l # h
    BY <1>2, <1>10, <2>1 DEF AgesInOrder, Apart, Kept
  <2>2. CASE k = h \/ l = h
    BY <1>2, <1>9, <1>10, <2>2 DEF Apart
  <2> QED BY <2>1, <2>2
<1> QED BY <1>6, <1>8, <1>10 DEF AgesInOrder

LEMMA AgesStored ==
    ASSUME QueueInv, AgesInOrder, NEW h \in Hands, StoredBy(h)
    PROVE  AgesInOrder'
<1>1. PICK i \in Items : i = ItemOf(h)
  BY HandType DEF StoredBy
<1>2. PICK a \in Artifacts : a = InHand(h)
  BY HandType DEF StoredBy
<1>3. /\ Holding(h) /\ ~Holding(h)' /\ built' = built
      /\ \A k \in Hands \ {h} : Kept(k)
  BY DEF StoredBy
<1>4. /\ history'[i] = Put(history[i], a) /\ \A j \in Items \ {i} : history'[j] = history[j]
      /\ history[i] \in SUBSET Artifacts
      /\ history'[i] \subseteq history[i] \cup {a}
  <2>1. history' = [history EXCEPT ![i] = Put(@, a)]
    BY <1>1, <1>2 DEF StoredBy
  <2>2. history[i] \in SUBSET Artifacts
    BY DEF QueueInv, TypeOK
  <2>3. Put(history[i], a) \subseteq history[i] \cup {a}
    BY DEF Put
  <2> QED BY <2>1, <2>2, <2>3, HistoryPut
<1>5. a.born <= built[i] /\ \A b \in history[i] : b.born # a.born
  BY <1>1, <1>2, <1>3 DEF AgesInOrder, HandAges
<1>6. ASSUME NEW j \in Items PROVE HistoryAges(j)'
  <2>1. HistoryAges(j)
    BY DEF AgesInOrder
  <2>2. CASE j = i
    <3>1. \A x, y \in history'[i] : Alike(x, y) \/ x.born = y.born => x = y
      BY <1>4, <1>5, <2>1, <2>2, PutAges DEF HistoryAges
    <3>2. \A x \in history'[i] : x.born <= built[i]
      BY <1>4, <1>5, <2>1, <2>2 DEF HistoryAges
    <3> QED BY <1>3, <2>2, <3>1, <3>2 DEF HistoryAges
  <2>3. CASE j # i
    BY <1>3, <1>4, <2>1, <2>3 DEF HistoryAges
  <2> QED BY <2>2, <2>3
<1>7. ASSUME NEW k \in Hands, k # h, Holding(k)'
      PROVE  /\ Holding(k) /\ ItemOf(k)' = ItemOf(k) /\ InHand(k)' = InHand(k)
             /\ ItemOf(k) \in Items
             /\ ItemOf(k) = i => InHand(k).born # a.born
  <2>1. Holding(k) /\ ItemOf(k)' = ItemOf(k) /\ InHand(k)' = InHand(k)
    BY <1>3, <1>7 DEF Kept
  <2>2. ItemOf(k) \in Items
    BY <2>1, HandType
  <2>3. ItemOf(k) = i => InHand(k).born # a.born
    BY <1>1, <1>2, <1>3, <1>7, <2>1 DEF AgesInOrder, Apart
  <2> QED BY <2>1, <2>2, <2>3
<1>8. ASSUME NEW k \in Hands PROVE HandAges(k)'
  <2> SUFFICES ASSUME Holding(k)'
               PROVE  /\ InHand(k)'.born <= built'[ItemOf(k)']
                      /\ \A b \in history'[ItemOf(k)'] : b.born # InHand(k)'.born
    BY DEF HandAges
  <2>1. k # h
    BY <1>3
  <2>2. /\ Holding(k) /\ ItemOf(k)' = ItemOf(k) /\ InHand(k)' = InHand(k)
        /\ ItemOf(k) \in Items /\ (ItemOf(k) = i => InHand(k).born # a.born)
    BY <1>7, <2>1
  <2>3. /\ InHand(k).born <= built[ItemOf(k)]
        /\ \A b \in history[ItemOf(k)] : b.born # InHand(k).born
    BY <2>2 DEF AgesInOrder, HandAges
  <2>4. \A b \in history'[ItemOf(k)] : b.born # InHand(k).born
    BY <1>4, <2>2, <2>3
  <2> QED BY <1>3, <2>2, <2>3, <2>4
<1>9. ASSUME NEW k \in Hands, NEW l \in Hands, k # l PROVE Apart(k, l)'
  <2> SUFFICES ASSUME Holding(k)', Holding(l)', ItemOf(k)' = ItemOf(l)'
               PROVE  InHand(k)'.born # InHand(l)'.born
    BY DEF Apart
  <2>1. k # h /\ l # h
    BY <1>3
  <2> QED BY <1>7, <1>9, <2>1 DEF AgesInOrder, Apart
<1> QED BY <1>6, <1>8, <1>9 DEF AgesInOrder

LEMMA AgesInit == Init => AgesInOrder
<1> SUFFICES ASSUME Init PROVE AgesInOrder
  OBVIOUS
<1>1. \A h \in Hands : ~Holding(h)
  BY RestingType, ReviewAssumption DEF Init, Hands, Holding
<1>2. \A i \in Items : HistoryAges(i)
  BY DEF Init, HistoryAges
<1> QED BY <1>1, <1>2 DEF AgesInOrder, HandAges, Apart

LEMMA AgesStep == QueueInv /\ AgesInOrder /\ [Next]_vars => AgesInOrder'
  BY Moves, AgesKept, AgesBuilt, AgesStored

-----------------------------------------------------------------------------
(* What holds of histories.                                                 *)

LEMMA HistoryGrows ==
    ASSUME QueueInv, [Next]_vars, NEW i \in Items
    PROVE  history[i] \subseteq history'[i]
<1>1. CASE history' = history
  BY <1>1
<1>2. ASSUME NEW h \in Hands, StoredBy(h) PROVE history[i] \subseteq history'[i]
  <2>1. PICK j \in Items : j = ItemOf(h)
    BY <1>2, HandType DEF StoredBy
  <2>2. history'[j] = Put(history[j], InHand(h)) /\ \A k \in Items \ {j} : history'[k] = history[k]
    BY <1>2, <2>1 DEF StoredBy, QueueInv, TypeOK
  <2> QED BY <2>2 DEF Put
<1> QED BY <1>1, <1>2, Moves DEF NoneMoves, BuiltBy

\* What gets into a history was in the hand that stored it.
LEMMA HumanStep == QueueInv /\ HumanValueWasDecided /\ [Next]_vars => HumanValueWasDecided'
<1> SUFFICES ASSUME QueueInv, HumanValueWasDecided, [Next]_vars,
                    NEW i \in Items, NEW a \in history'[i], a.via = "decision"
             PROVE  DecidedOn(events', a, i)
  BY DEF HumanValueWasDecided, DecidedOn
<1>1. events \subseteq events'
  BY WhoWrites
<1>2. CASE a \in history[i]
  BY <1>1, <1>2, DecidedStays DEF HumanValueWasDecided
<1>3. ASSUME NEW h \in Hands, StoredBy(h), a \notin history[i] PROVE DecidedOn(events, a, i)
  <2>1. PICK j \in Items : j = ItemOf(h)
    BY <1>3, HandType DEF StoredBy
  <2>2. history'[j] = Put(history[j], InHand(h)) /\ \A k \in Items \ {j} : history'[k] = history[k]
    BY <1>3, <2>1 DEF StoredBy, QueueInv, TypeOK
  <2>3. i = ItemOf(h) /\ a = InHand(h)
    BY <1>3, <2>1, <2>2 DEF Put
  <2>4. h # Machine
    <3>1. ASSUME h = Machine PROVE FALSE
      <4>1. engine.pc = "store" /\ engine.made = a
        BY <1>3, <2>3, <3>1 DEF StoredBy, Holding, InHand
      <4> QED BY <4>1 DEF QueueInv, EngineInOrder
    <3> QED BY <3>1
  <2>5. h \in Curators /\ desk[h].pc \in {"commit", "keep"} /\ desk[h].made = a /\ desk[h].item = i
    BY <1>3, <2>3, <2>4 DEF StoredBy, Hands, Holding, InHand, ItemOf
  <2> QED BY <2>5 DEF QueueInv, CuratorsInOrder, CaseOf
<1>4. CASE history' = history
  BY <1>2, <1>4
<1> QED BY <1>1, <1>2, <1>3, <1>4, Moves, DecidedStays DEF NoneMoves, BuiltBy

LEMMA RestInit == Init => DecidedHasEvent /\ HumanValueWasDecided /\ OpenRowsAreCurrent
  BY DEF Init, DecidedHasEvent, HumanValueWasDecided, OpenRowsAreCurrent

-----------------------------------------------------------------------------
(* Theorems.                                                                *)

\* FR-VAL-007: a row that says it was decided has the event of that decision, for any
\* number of curators, replays and stops.
THEOREM DecisionsAreOnRecord == Spec => []DecidedHasEvent
<1> QED BY QueueInit, QueueStep, RestInit, DecidedStep, PTL DEF Spec

\* FR-PROV-006: nothing is in a person's name that they did not decide.
THEOREM HumanValuesWereDecided == Spec => []HumanValueWasDecided
<1> QED BY QueueInit, QueueStep, RestInit, HumanStep, PTL DEF Spec

\* An open row shows what its step said last.
THEOREM OpenRowsShowTheLast == Spec => []OpenRowsAreCurrent
<1> QED BY QueueInit, QueueStep, RestInit, CurrentStep, PTL DEF Spec

\* Nothing overwrites history: artifacts stay with their ages, none is kept twice and no
\* two have one age, however long each was in somebody's hands between being built and
\* being stored.
THEOREM HistoryIsKept == Spec => HistoryOnlyGrows
<1>1. QueueInv /\ AgesInOrder /\ QueueInv' /\ AgesInOrder' /\ [Next]_vars =>
        [/\ events \subseteq events'
         /\ \A i \in Items :
              /\ history[i] \subseteq history'[i]
              /\ \A a, b \in history'[i] : Alike(a, b) \/ a.born = b.born => a = b]_vars
  BY HistoryGrows, WhoWrites DEF AgesInOrder, HistoryAges, Alike
<1> QED BY <1>1, QueueInit, QueueStep, AgesInit, AgesStep, PTL DEF Spec, HistoryOnlyGrows
=============================================================================

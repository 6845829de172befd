-------------------------------- MODULE Review --------------------------------
(***************************************************************************)
(* The curator's queue (ReviewQueue) beside the engine that fills it.      *)
(*                                                                         *)
(* A step raises an item when its answer is flagged or only a person can   *)
(* give it.  Curators export the open items to a file, fill it in, and     *)
(* import it from a process of their own: every row is a decision of four  *)
(* commits, while the engine replays steps and raises items again.  One    *)
(* record and its root entity; an item is a field and the step that writes *)
(* it.  Reads and writes of the store are separate wherever the code makes *)
(* them separate statements.                                               *)
(***************************************************************************)
EXTENDS Naturals, Sequences, FiniteSets

CONSTANTS
    Items,      \* fields of the record, each with the step that asks
    Asked,      \* those of them that a program or a model answers, not only a person
    Curators,   \* people, each with a process of their own
    Values,     \* what a field may hold
    Flagged,    \* those of them a validator sends to review
    Offered,    \* the decisions curators take
    Edits,      \* the values they edit a field to
    Machine,    \* the actor that is not a person
    None,
    MaxReplays, \* bound: runs of a step
    MaxImports, \* bound: imports and legacy acceptances
    MaxStops    \* bound: processes that stop halfway

Decisions == {"accept", "edit", "reject", "defer", "request_expanded_context"}
NewState == [accept |-> "accepted", edit |-> "edited", reject |-> "rejected",
             defer |-> "deferred", request_expanded_context |-> "context_requested"]
ItemStates == {"open"} \cup {NewState[d] : d \in Decisions}
Maybe == Values \cup {None}

ASSUME ReviewAssumption ==
    /\ Asked \subseteq Items /\ Flagged \subseteq Values /\ Offered \subseteq Decisions
    /\ Edits \subseteq Values
    /\ None \notin Values \cup Curators /\ Machine \notin Curators
    /\ MaxReplays \in Nat /\ MaxImports \in Nat /\ MaxStops \in Nat

\* An artifact by what its content address sees, and its created_at: execution and
\* rationale are left out of both.  basis is what the evidence it carries belongs to.
Artifacts == [value : Values, by : Curators \cup {Machine},
              basis : Maybe \cup {Machine},
              via : {"step", "decision", "legacy"}, born : Nat]
Rows == [state : ItemStates, by : Curators \cup {None}, proposed : Maybe, old : Maybe]
\* What a row of the file that is not blank says: a decision, an edit with its value if
\* it has one.
Fills == [decision : Offered, value : {None}] \cup [decision : Offered \cap {"edit"}, value : Edits]

VARIABLES
    history,  \* artifacts of each field
    built,    \* how many artifacts of it were built: the clock their ages are read from
    items,    \* review_item
    events,   \* review_event; those alike in all but their time are one here
    engine,   \* the step the engine is in
    file,     \* items in the file of a curator, none before the export
    todo,     \* rows of it the import under way has still to read
    desk,     \* the decision a curator's process is in
    said,     \* history: what the item was last raised with
    replays, imports, stops

vars == <<history, built, items, events, engine, file, todo, desk, said,
          replays, imports, stops>>

\* The two have one content address: only what it leaves out, the age, may differ.
Alike(a, b) == [a EXCEPT !.born = b.born] = b

\* Mutant: the row is replaced, and has the new age.
Put_Replace(arts, a) == {b \in arts : ~Alike(a, b)} \cup {a}
\* INSERT OR IGNORE: an artifact that is there keeps its age.
Put(arts, a) == IF \E b \in arts : Alike(a, b) THEN arts ELSE arts \cup {a}

\* get_artifacts orders by created_at, which an artifact is given when it is built.
Newest(i) == CHOOSE a \in history[i] : \A b \in history[i] : b.born <= a.born
NewestValue(i) == IF history[i] = {} THEN None ELSE Newest(i).value

Built(i, value, by, via, basis) ==
    [value |-> value, by |-> by, via |-> via, basis |-> basis, born |-> built[i] + 1]
Ages(i) == built' = [built EXCEPT ![i] = @ + 1]

Resting == [pc |-> "idle"]
AtDesk(c, pc) == desk[c].pc = pc
Step(c, pc) == desk' = [desk EXCEPT ![c].pc = pc]

Init ==
    /\ history = [i \in Items |-> {}]
    /\ built = [i \in Items |-> 0]
    /\ items = [i \in Items |-> None]
    /\ events = {}
    /\ engine = Resting
    /\ file = [c \in Curators |-> {}]
    /\ todo = [c \in Curators |-> {}]
    /\ desk = [c \in Curators |-> Resting]
    /\ said = [i \in Items |-> None]
    /\ replays = 0 /\ imports = 0 /\ stops = 0

-----------------------------------------------------------------------------
(* The engine.                                                              *)

\* A run of the step: the prior value is read, and the answer is there, which may be
\* another than before when what the step reads has changed.
Take(i) ==
    /\ engine = Resting
    /\ replays < MaxReplays
    /\ replays' = replays + 1
    /\ \E says \in IF i \in Asked THEN Values ELSE {None} :
        engine' = [pc |-> IF i \in Asked THEN "build" ELSE "raise", item |-> i,
                   old |-> NewestValue(i), proposed |-> says, made |-> None]
    /\ UNCHANGED <<said, history, built, items, events, file, todo, desk, imports, stops>>

\* The answer becomes an artifact, which is as old as this moment ...
Build ==
    /\ engine.pc = "build"
    /\ engine' = [engine EXCEPT !.pc = "store",
            !.made = Built(engine.item, engine.proposed, Machine, "step", engine.proposed)]
    /\ Ages(engine.item)
    /\ UNCHANGED <<said, history, items, events, file, todo, desk, replays, imports, stops>>

\* ... and is stored in a commit of its own, before it is judged.
Store ==
    /\ engine.pc = "store"
    /\ history' = [history EXCEPT ![engine.item] = Put(@, engine.made)]
    /\ engine' = IF engine.proposed \in Flagged
                 THEN [engine EXCEPT !.pc = "raise", !.made = None] ELSE Resting
    /\ UNCHANGED <<said, built, items, events, file, todo, desk, replays, imports, stops>>

\* Mutant: the row names the engine as the one who decided it last.
Raised_ByEngine(i, proposed, old) ==
    [state |-> "open", by |-> Machine, proposed |-> proposed, old |-> old]
\* Mutant: an item that is there keeps what it showed.
Raised_Keeps(i, proposed, old) ==
    IF items[i] = None THEN [state |-> "open", by |-> None, proposed |-> proposed, old |-> old]
                       ELSE [items[i] EXCEPT !.state = "open"]
\* put_review_item is an upsert: the row is open again, with what is proposed now.
Raised(i, proposed, old) == [state |-> "open", by |-> None, proposed |-> proposed, old |-> old]

Raise ==
    /\ engine.pc = "raise"
    /\ items' = [items EXCEPT ![engine.item] = Raised(engine.item, engine.proposed, engine.old)]
    /\ said' = [said EXCEPT ![engine.item] = engine.proposed]
    /\ engine' = Resting
    /\ UNCHANGED <<history, built, events, file, todo, desk, replays, imports, stops>>

EngineStops ==
    /\ engine # Resting
    /\ stops < MaxStops
    /\ stops' = stops + 1
    /\ engine' = Resting
    /\ UNCHANGED <<said, history, built, items, events, file, todo, desk, replays, imports>>

-----------------------------------------------------------------------------
(* A curator.                                                               *)

\* export_jsonl writes the open items.
Export(c) ==
    LET open == {i \in Items : items[i] # None /\ items[i].state = "open"} IN
    /\ AtDesk(c, "idle") /\ todo[c] = {}
    /\ imports < MaxImports
    /\ file[c] = {} /\ open # {}
    /\ file' = [file EXCEPT ![c] = open]
    /\ UNCHANGED <<said, history, built, items, events, engine, todo, desk, replays,
                   imports, stops>>

\* import_jsonl: rows without a decision are skipped.  The curator fills in the file
\* between imports, as much of it as they like.
Import(c) ==
    /\ AtDesk(c, "idle") /\ todo[c] = {}
    /\ imports < MaxImports
    /\ imports' = imports + 1
    /\ \E rows \in (SUBSET file[c]) \ {{}} : todo' = [todo EXCEPT ![c] = rows]
    /\ UNCHANGED <<said, history, built, items, events, engine, file, desk, replays, stops>>

\* decide reads the row of the item as it is now, and keeps of it what it shows.
Shown(row) == [proposed |-> row.proposed, old |-> row.old]
OpenCase(c) ==
    \E i \in todo[c], fill \in Fills :
        /\ AtDesk(c, "idle")
        /\ todo' = [todo EXCEPT ![c] = @ \ {i}]
        /\ desk' = [desk EXCEPT ![c] = [pc |-> "judge", item |-> i, fill |-> fill,
                                        row |-> Shown(items[i]), read |-> None]]
        /\ UNCHANGED <<said, history, built, items, events, engine, file, replays,
                       imports, stops>>

Incomplete(fill) == fill.decision = "edit" /\ fill.value = None

\* Mutant: the row is kept for another try.
RefuseRow_Keeps(c) ==
    /\ AtDesk(c, "judge") /\ Incomplete(desk[c].fill)
    /\ UNCHANGED vars
\* An edit without a value raises: the rows before it are decided, those behind it are
\* not read.
RefuseRow(c) ==
    /\ AtDesk(c, "judge") /\ Incomplete(desk[c].fill)
    /\ desk' = [desk EXCEPT ![c] = Resting]
    /\ todo' = [todo EXCEPT ![c] = {}]
    /\ UNCHANGED <<said, history, built, items, events, engine, file, replays, imports, stops>>

\* What the event of a decision says, of an item or of a legacy value.
Event(i, c, fill) ==
    [item |-> i, by |-> c, of |-> "item", decision |-> fill.decision, value |-> fill.value]
LegacyEvent(i, c) ==
    [item |-> i, by |-> c, of |-> "legacy", decision |-> "accept", value |-> None]

\* Mutant: an event is recorded when it changes a value.
Judge_Changes(c) ==
    /\ AtDesk(c, "judge") /\ ~Incomplete(desk[c].fill)
    /\ events' = IF desk[c].fill.decision \in {"accept", "edit"}
                 THEN events \cup {Event(desk[c].item, c, desk[c].fill)} ELSE events
    /\ Step(c, "read")
    /\ UNCHANGED <<said, history, built, items, engine, file, todo, replays, imports, stops>>
\* put_review_event.
Judge(c) ==
    /\ AtDesk(c, "judge") /\ ~Incomplete(desk[c].fill)
    /\ events' = events \cup {Event(desk[c].item, c, desk[c].fill)}
    /\ Step(c, "read")
    /\ UNCHANGED <<said, history, built, items, engine, file, todo, replays, imports, stops>>

\* update_review_item, a read ...
ReadRow(c) ==
    /\ AtDesk(c, "read")
    /\ desk' = [desk EXCEPT ![c].pc = "mark", ![c].read = items[desk[c].item]]
    /\ UNCHANGED <<said, history, built, items, events, engine, file, todo, replays, imports, stops>>

\* ... and a write, with nothing between them.
Mark(c) ==
    /\ AtDesk(c, "mark")
    /\ items' = [items EXCEPT ![desk[c].item] =
            [desk[c].read EXCEPT !.state = NewState[desk[c].fill.decision], !.by = c]]
    /\ desk' = [desk EXCEPT ![c].pc = "build", ![c].read = None]
    /\ UNCHANGED <<said, history, built, events, engine, file, todo, replays, imports, stops>>

\* Mutant: a rejected proposal is kept too.
Decided_Any(case) ==
    IF case.fill.decision = "edit" THEN case.fill.value ELSE case.row.proposed
\* _artifact_for: the edited value, or what was proposed, or what was there.
Decided(case) ==
    CASE case.fill.decision = "edit" -> case.fill.value
      [] case.fill.decision = "accept" /\ case.row.proposed # None -> case.row.proposed
      [] case.fill.decision = "accept" /\ case.row.proposed = None -> case.row.old
      [] OTHER -> None
Evidence(row) == IF row.proposed # None THEN row.proposed ELSE row.old

\* The decision that changes a value becomes an artifact ...
BuildValue(c) ==
    LET i == desk[c].item value == Decided(desk[c]) IN
    /\ AtDesk(c, "build")
    /\ IF value = None
       THEN /\ desk' = [desk EXCEPT ![c] = Resting]
            /\ UNCHANGED built
       ELSE /\ desk' = [desk EXCEPT ![c] = [pc |-> "commit", item |-> i,
                   made |-> Built(i, value, c, "decision", Evidence(desk[c].row))]]
            /\ Ages(i)
    /\ UNCHANGED <<said, history, items, events, engine, file, todo, replays, imports, stops>>

\* ... stored in a commit of its own.
CommitValue(c) ==
    /\ AtDesk(c, "commit")
    /\ history' = [history EXCEPT ![desk[c].item] = Put(@, desk[c].made)]
    /\ desk' = [desk EXCEPT ![c] = Resting]
    /\ UNCHANGED <<said, built, items, events, engine, file, todo, replays, imports, stops>>

\* accept_legacy_value: the newest artifact is read, ...
AcceptLegacy(c) ==
    \E i \in Items :
        /\ AtDesk(c, "idle") /\ todo[c] = {}
        /\ imports < MaxImports
        /\ history[i] # {}
        /\ imports' = imports + 1
        /\ desk' = [desk EXCEPT ![c] = [pc |-> "accept", item |-> i, prior |-> Newest(i)]]
        /\ UNCHANGED <<said, history, built, items, events, engine, file, todo, replays, stops>>

\* ... its value is in an artifact under a new recipe, ...
BuildLegacy(c) ==
    LET i == desk[c].item prior == desk[c].prior IN
    /\ AtDesk(c, "accept")
    /\ desk' = [desk EXCEPT ![c] = [pc |-> "keep", item |-> i,
            made |-> Built(i, prior.value, c, "legacy",
                           IF prior.via = "step" THEN Machine ELSE prior.basis)]]
    /\ Ages(i)
    /\ UNCHANGED <<said, history, items, events, engine, file, todo, replays, imports, stops>>

\* ... which is stored, ...
KeepLegacy(c) ==
    /\ AtDesk(c, "keep")
    /\ history' = [history EXCEPT ![desk[c].item] = Put(@, desk[c].made)]
    /\ desk' = [desk EXCEPT ![c] = [pc |-> "legacy", item |-> desk[c].item]]
    /\ UNCHANGED <<said, built, items, events, engine, file, todo, replays, imports, stops>>

\* ... and then there is an event.
RecordLegacy(c) ==
    /\ AtDesk(c, "legacy")
    /\ events' = events \cup {LegacyEvent(desk[c].item, c)}
    /\ desk' = [desk EXCEPT ![c] = Resting]
    /\ UNCHANGED <<said, history, built, items, engine, file, todo, replays, imports, stops>>

CuratorStops(c) ==
    /\ desk[c] # Resting \/ todo[c] # {}
    /\ stops < MaxStops
    /\ stops' = stops + 1
    /\ desk' = [desk EXCEPT ![c] = Resting]
    /\ todo' = [todo EXCEPT ![c] = {}]
    /\ UNCHANGED <<said, history, built, items, events, engine, file, replays, imports>>

-----------------------------------------------------------------------------
Decide(c) ==
    \/ OpenCase(c) \/ RefuseRow(c) \/ Judge(c) \/ ReadRow(c) \/ Mark(c)
    \/ BuildValue(c) \/ CommitValue(c)
    \/ BuildLegacy(c) \/ KeepLegacy(c) \/ RecordLegacy(c)

Next ==
    \/ \E i \in Items : Take(i)
    \/ Build \/ Store \/ Raise \/ EngineStops
    \/ \E c \in Curators :
        Export(c) \/ Import(c) \/ Decide(c) \/ AcceptLegacy(c) \/ CuratorStops(c)

\* A process that has begun goes on: an import reads on to its last row.
Fairness == WF_vars(Build) /\ WF_vars(Store) /\ WF_vars(Raise) /\ \A c \in Curators : WF_vars(Decide(c))

Spec == Init /\ [][Next]_vars /\ Fairness
=============================================================================

------------------------------- MODULE Evidence -------------------------------
(***************************************************************************)
(* Sources and their parses, the spans that support a value, and moving    *)
(* them when the source is parsed anew.  A parse is a sequence of units, a *)
(* text a sequence of letters; offsets count from 0, as in the code.       *)
(***************************************************************************)
EXTENDS Naturals, FiniteSets, SequencesExt

CONSTANTS
    Parses,   \* the parses of the source, oldest first
    Quotes,   \* texts an extraction names as support of the imported value
    None

UnitIds == UNION {{Parses[p][k].id : k \in DOMAIN Parses[p]} : p \in DOMAIN Parses}
Versions == DOMAIN Parses
\* The imported field, and the one a question is about.
Fields == {"read", "written"}

\* A text is letters, a unit a part of the document with an id that no other has.
Texts == Seq(STRING)
Units == [id : Texts, section : STRING, labels : SUBSET STRING, text : Texts]

ASSUME EvidenceAssumption ==
    /\ Parses \in Seq(Seq(Units)) /\ None \notin Units
    /\ Quotes \in Seq(Texts)
    /\ \A p \in Versions : \A k, j \in DOMAIN Parses[p] : Parses[p][k].id = Parses[p][j].id => k = j
    /\ \A p \in Versions : \A k \in DOMAIN Parses[p] : Parses[p][k].text # <<>>

VARIABLES
    parses,     \* versions put in the store
    index,      \* the parse the record's index row names, 0 before the import
    artifacts   \* of each field, in the order they are read: by created_at, then by address

evidence == <<parses, index, artifacts>>

-----------------------------------------------------------------------------
(* Texts.                                                                   *)

\* The elements of s at some of its positions, in their order.
Picked(s, keep) ==
    LET Upto[n \in 0 .. Len(s)] ==
          IF n = 0 THEN <<>> ELSE Upto[n - 1] \o (IF n \in keep THEN <<s[n]>> ELSE <<>>)
    IN Upto[Len(s)]

UnitOf(p, id) ==
    IF \E k \in DOMAIN Parses[p] : Parses[p][k].id = id
    THEN Parses[p][CHOOSE k \in DOMAIN Parses[p] : Parses[p][k].id = id] ELSE None
Slice(text, from, to) == SubSeq(text, from + 1, IF to < Len(text) THEN to ELSE Len(text))
Occurrences(text, part) ==
    {n \in 0 .. Len(text) : n + Len(part) <= Len(text) /\ Slice(text, n, n + Len(part)) = part}
First(places) == CHOOSE n \in places : \A m \in places : n <= m

Span(id, start, text) == [unit |-> id, start |-> start, text |-> text]
Reference(p, spans, unlocated) == [parse |-> p, spans |-> spans, unlocated |-> unlocated]

\* Where a text occurs in a parse.
Hits(p, text) ==
    UNION {{Span(Parses[p][k].id, n, text) : n \in Occurrences(Parses[p][k].text, text)} :
               k \in DOMAIN Parses[p]}

\* resolve, for one span.
Resolves(span, p) ==
    LET unit == UnitOf(p, span.unit) IN
    unit # None /\ Slice(unit.text, span.start, span.start + Len(span.text)) = span.text

\* find_span places a quote only when it occurs once.
Located(p, quotes) ==
    LET found == Picked(quotes, {k \in DOMAIN quotes : Cardinality(Hits(p, quotes[k])) = 1})
    IN Reference(p, [k \in DOMAIN found |-> CHOOSE s \in Hits(p, found[k]) : TRUE],
                 Len(quotes) - Len(found))

-----------------------------------------------------------------------------
(* Moving spans to another parse.                                           *)

\* Mutant: a unit that is still there is taken to hold the text still.
Moved_Trusting(span, p) ==
    IF UnitOf(p, span.unit) # None THEN {span}
    ELSE IF Cardinality(Hits(p, span.text)) = 1 THEN Hits(p, span.text) ELSE {}
\* reanchor_span: a span that still resolves stays, one whose text occurs once goes
\* there; without a text, not found or found twice it has no new place.
Moved(span, p) ==
    CASE span.text = <<>> -> {}
      [] span.text # <<>> /\ Resolves(span, p) -> {span}
      [] OTHER -> IF Cardinality(Hits(p, span.text)) = 1 THEN Hits(p, span.text) ELSE {}

\* Mutant: the spans that were dropped are not counted.
Reanchored_Uncounted(ref, p) ==
    LET kept == Picked(ref.spans, {k \in DOMAIN ref.spans : Moved(ref.spans[k], p) # {}})
    IN Reference(p, [k \in DOMAIN kept |-> CHOOSE s \in Moved(kept[k], p) : TRUE], ref.unlocated)
\* reanchor_evidence.
Reanchored(ref, p) ==
    LET kept == Picked(ref.spans, {k \in DOMAIN ref.spans : Moved(ref.spans[k], p) # {}})
    IN Reference(p, [k \in DOMAIN kept |-> CHOOSE s \in Moved(kept[k], p) : TRUE],
                 ref.unlocated + Len(ref.spans) - Len(kept))

-----------------------------------------------------------------------------
(* The store.                                                               *)

\* What the address is taken of; born, the created_at, is not.
Content(a) == [ref |-> a.ref, parse |-> a.parse, inputs |-> a.inputs, context |-> a.context]
Stored(f, a) == \E k \in DOMAIN artifacts[f] : Content(artifacts[f][k]) = Content(a)
Newest(f) == IF artifacts[f] = <<>> THEN None ELSE Last(artifacts[f])
Later(f) == IF artifacts[f] = <<>> THEN 1 ELSE Last(artifacts[f]).born + 1

\* inputs: the parse the dependency hashes name, 0 for those of an import, which name none.
Fresh(f, ref, parse, inputs, context) ==
    [ref |-> ref, parse |-> parse, inputs |-> inputs, context |-> context, born |-> Later(f)]
PutFresh(f, a) == IF Stored(f, a) THEN artifacts[f] ELSE Append(artifacts[f], a)

\* A copy keeps the created_at of its original: among those of one time the address,
\* a hash, says which is read last.
Orders(f, a) ==
    IF Stored(f, a) THEN {artifacts[f]}
    ELSE {InsertAt(artifacts[f], k, a) : k \in {k \in 1 .. Len(artifacts[f]) + 1 :
             /\ \A j \in 1 .. k - 1 : artifacts[f][j].born <= a.born
             /\ \A j \in k .. Len(artifacts[f]) : artifacts[f][j].born >= a.born}}

InitEvidence == parses = {} /\ index = 0 /\ artifacts = [f \in Fields |-> <<>>]

\* ingest with a parse: the record comes with its evidence in that parse.
Import(p) ==
    /\ parses' = parses \cup {p}
    /\ index' = p
    /\ artifacts' = [artifacts EXCEPT !["read"] =
                        PutFresh("read", Fresh("read", Located(p, Quotes), p, 0, <<>>))]

\* add_source: the parse is stored, the index row keeps naming the one before.
AddParse(p) ==
    /\ p \notin parses
    /\ parses' = parses \cup {p}
    /\ UNCHANGED <<index, artifacts>>

\* reanchor --apply, of every field whose newest artifact has evidence and changes.
Moves(f, p) ==
    /\ Newest(f) # None
    /\ Newest(f).ref # None
    /\ Reanchored(Newest(f).ref, p) # Newest(f).ref
Copy(f, p) == [Newest(f) EXCEPT !.ref = Reanchored(@, p), !.parse = p]
After(f, p) == IF Moves(f, p) THEN Orders(f, Copy(f, p)) ELSE {artifacts[f]}
Reanchor(p) ==
    /\ p \in parses
    /\ \E f \in Fields : Moves(f, p)
    /\ \E read \in After("read", p), written \in After("written", p) :
          artifacts' = [read |-> read, written |-> written]
    /\ UNCHANGED <<parses, index>>
=============================================================================

------------------------------ MODULE MCContext ------------------------------
(* Three parses of a short text, the last with a sentence that repeats, and   *)
(* policies that reach each kind of source and each way out of the chain.     *)
EXTENDS ContextProperties

MCUnit(id, section, labels, text) == [id |-> <<id>>, section |-> section, labels |-> labels, text |-> text]
MCParses == <<
    <<MCUnit("u1", "m", {}, <<"a", "b">>), MCUnit("u2", "r", {"p"}, <<"c">>)>>,
    <<MCUnit("u1", "m", {}, <<"c">>), MCUnit("u2", "r", {"p"}, <<"a", "b">>)>>,
    <<MCUnit("u1", "m", {}, <<"c", "a", "b">>), MCUnit("u2", "r", {"p"}, <<"a", "b">>)>> >>
MCQuotes == << <<"b">>, <<"c">> >>
MCRendered == <<"#">>
MCAnswers == {<< <<"b">> >>}

Source(kind) == [kind |-> kind, min |-> 1]
Evidence0 == [kind |-> "evidence", min |-> 1, expand |-> 0]
Window == [kind |-> "evidence", min |-> 2, expand |-> 1]
Sections(names) == [kind |-> "sections", min |-> 1, names |-> names]
Ranked(billable) == [kind |-> "retrieve", min |-> 1, billable |-> billable,
                     ranked |-> << <<2>>, <<2, 1>>, <<1>> >>]
Chained(sequence, fallback) ==
    [sequence |-> sequence, fallback |-> fallback, onMissing |-> "review", onBudget |-> "truncate",
     maxUnits |-> 2, maxChars |-> 3, accumulate |-> FALSE, forbidden |-> {}]
MCPolicies == {
    Chained(<<Evidence0, Sections({"m"})>>, "allowed"),
    [Chained(<<Window, Sections({"r"}), Source("structured")>>, "forbidden")
        EXCEPT !.accumulate = TRUE, !.onMissing = "proceed"],
    [Chained(<<[kind |-> "none", min |-> 0], Ranked(FALSE), Source("raw")>>, "forbidden")
        EXCEPT !.onBudget = "fail", !.maxChars = 2],
    [Chained(<<Ranked(TRUE), Sections({"r"}), Sections({"m"})>>, "allowed")
        EXCEPT !.onBudget = "skip", !.maxChars = 2, !.forbidden = {"p"}],
    [Chained(<<Sections({"r"})>>, "required") EXCEPT !.onBudget = "fail", !.onMissing = "fail"]}
=============================================================================

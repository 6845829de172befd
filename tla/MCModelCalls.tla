---------------------------- MODULE MCModelCalls ----------------------------
(* A primary model, a fallback no one configured, and one that is dearer to   *)
(* privacy: only some questions may go there.                                 *)
EXTENDS ModelCallsProperties

Primary == <<"m1", "absent", "m2">>
\* One question may go to m2, the context of the others must not leave for it.
SomePermitted == [q \in Questions |->
    IF q = CHOOSE p \in Questions : TRUE THEN {"m1", "m2"} ELSE {"m1"}]
\* m1 gives answers of the wrong shape, m2 breaks.
SomeErrors == [a \in Adapters |-> IF a = "m1" THEN {"schema"} ELSE {"bug"}]
=============================================================================

---------------------------- MODULE Publication ----------------------------
(***************************************************************************)
(* What publication promises, without the engine (FR-EXE-007/008): the     *)
(* version consumers see of a record changes in one step, to the next in   *)
(* its chain, only when the record is settled, and only to a version that  *)
(* validates.  Nothing else ever moves it, and a settled record stays so.  *)
(***************************************************************************)
EXTENDS Naturals

CONSTANTS Records, Required, Invalid

VARIABLES
    visible,  \* per record, the version consumers see: its artifacts, its depth
    settled   \* records whose every step has succeeded

Validates(version) ==
    /\ \A a \in version.arts : a.val \notin Invalid
    /\ \A f \in Required : \E a \in version.arts : a.field = f

Settle(r) ==
    /\ r \notin settled
    /\ settled' = settled \cup {r}
    /\ UNCHANGED visible

Publish(r) ==
    /\ r \in settled
    /\ visible'[r].depth = visible[r].depth + 1
    /\ Validates(visible'[r])
    /\ \A other \in Records \ {r} : visible'[other] = visible[other]
    /\ UNCHANGED settled

Init == settled = {} /\ \A r \in Records : visible[r].depth = 0
Next == \E r \in Records : Settle(r) \/ Publish(r)
Spec == Init /\ [][Next]_<<visible, settled>>
=============================================================================

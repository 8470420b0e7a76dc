----------------------------- MODULE MCSbeMbox ------------------------------
(***************************************************************************)
(* Small instances of SbeMbox.                                             *)
(***************************************************************************)
EXTENDS SbeMbox

AnyTrouble == SUBSET {"xscom", "timeout", "reset"}
\* Fewer messages where the timeout makes for many more behaviours.
Queued(t) == IF "timeout" \in t THEN 2 ELSE 3
=============================================================================

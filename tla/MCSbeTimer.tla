----------------------------- MODULE MCSbeTimer -----------------------------
(***************************************************************************)
(* Small instances of SbeTimer: with every set of troubles.                *)
(***************************************************************************)
EXTENDS SbeTimer, TLC

AnyTrouble == SUBSET {"fail", "overtake"}
=============================================================================

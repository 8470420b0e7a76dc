----------------------------- MODULE MCOpalMsg ------------------------------
(***************************************************************************)
(* Small instances of OpalMsg.                                             *)
(***************************************************************************)
EXTENDS OpalMsg
=============================================================================

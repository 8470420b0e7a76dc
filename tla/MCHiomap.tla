------------------------------ MODULE MCHiomap ------------------------------
(***************************************************************************)
(* Small instances of Hiomap.                                              *)
(***************************************************************************)
EXTENDS Hiomap

\* Bytes across both blocks, and the whole flash.
MCSpans == {<<1, 2>>, <<0, 4>>}
=============================================================================

----------------------------- MODULE MCQuiesce ------------------------------
(***************************************************************************)
(* Small instances of Quiesce: interchangeable CPUs, but for PIR 0.  A     *)
(* behaviour is followed up to the first call that passes with a stale     *)
(* owner: the properties promise nothing beyond it.                        *)
(***************************************************************************)
EXTENDS Quiesce, TLC

Symmetry == Permutations(CPUs \ {Pir0})

UntilStale == QuiesceInit /\ [][~stale /\ QuiesceNext]_QuiesceVars
=============================================================================

----------------------------- MODULE MCCpuJobs ------------------------------
(***************************************************************************)
(* Small instances of CpuJobs: interchangeable CPUs of each kind.          *)
(***************************************************************************)
EXTENDS CpuJobs

Symmetry == Permutations(Callers) \cup Permutations(CPUs \ Callers)
=============================================================================

-------------------------------- MODULE Cpus --------------------------------
(***************************************************************************)
(* The CPUs, for the modules about parts that share a file or an interface *)
(* and can be put together, as their proofs are.                           *)
(***************************************************************************)
CONSTANTS
  CPUs,
  NoCpu    \* no CPU: of a lock that is free, of a target that is not set
=============================================================================

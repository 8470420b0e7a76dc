------------------------------- MODULE MCLock -------------------------------
\* Small instances of Lock for TLC.
EXTENDS Lock, TLC

\* CPUs are interchangeable but for PIR 0, and so are the locks outside the console path.
CpuLockSymmetry ==
  Permutations(ActiveCPUs \ {Pir0}) \cup Permutations(Locks \ ConLocks)
=============================================================================

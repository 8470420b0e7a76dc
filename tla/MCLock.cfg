\* Three CPUs, two ordinary locks and one lock of the console path; sparse
\* PIRs, one of them 0 (cpu_max_pir is not less than the number of CPUs).
CONSTANTS
  CPUs = {c1, c2, c3}
  Locks = {l1, l2, k1}
  ConLocks = {k1}
  ActiveCPUs = {c1, c2, c3}
  cpu_max_pir = 3
  Pir0 = c1
  NoCpu = NoCpu
  NoLock = NoLock
SPECIFICATION Spec
SYMMETRY CpuLockSymmetry
INVARIANTS
  MutualExclusion
  OwnerMayUnlock
  ConSuspendCount
  NoFalseDeadlock
  DeadlockFound
PROPERTY WalkProgress
\* A CPU that reports a locking error aborts and takes no further step.
CHECK_DEADLOCK FALSE

SPECIFICATION FairSpec
CONSTANTS
  CPUs = {b, s1, s2}
  NoCpu = NoCpu
  Callers = {b}
  Booting = TRUE
  Jobs = {j1, j2}
  NoJob = NoJob
  NoReturns = {}
  P8 = FALSE
  MaxReconf = 2
INVARIANTS
  NoLostWakeup
  KickedOut
  FreedUnused
PROPERTIES
  JobsComplete
CHECK_DEADLOCK FALSE

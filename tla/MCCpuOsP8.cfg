SPECIFICATION Spec
CONSTANTS
  CPUs = {b1, b2, s1}
  NoCpu = NoCpu
  Callers = {b1, b2}
  Booting = FALSE
  Jobs = {j1, n1}
  NoJob = NoJob
  NoReturns = {n1}
  P8 = TRUE
  MaxReconf = 2
SYMMETRY Symmetry
INVARIANTS
  JobCount
  ReconfigureAlone
  AssertsHold
CHECK_DEADLOCK FALSE

SPECIFICATION UntilStale
CONSTANTS
  CPUs = {c0, c1}
  All = All
  NoCpu = NoCpu
  Pir0 = c0
  Disciplined = TRUE
SYMMETRY Symmetry
INVARIANTS
  FastRebootAlone
CHECK_DEADLOCK FALSE

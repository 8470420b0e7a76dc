SPECIFICATION UntilStale
CONSTANTS
  CPUs = {c0, c1, c2}
  All = All
  NoCpu = NoCpu
  Pir0 = c0
  Disciplined = TRUE
SYMMETRY Symmetry
INVARIANTS
  Quiesced
  Resumed
  KeeperIsFree
CHECK_DEADLOCK FALSE

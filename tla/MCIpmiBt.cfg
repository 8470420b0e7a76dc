SPECIFICATION FairSpec
CONSTANTS
  CPUs = {c1, c2}
  NoCpu = NoCpu
  Addresses = 3
  Seqs = 3
  Counts = 3
  Settings <- MCSettings
INVARIANTS
  OnePlace
  OwnResponse
  SyncDone
PROPERTIES
  AllAnswered
CHECK_DEADLOCK FALSE

SPECIFICATION FairSpec
CONSTANTS
  CPUs = {c1, c2}
  NoCpu = NoCpu
  Entries = 2
  Pool = 1
  MaxMsgs = 2
  MaxResps = 2
INVARIANTS
  QueuesSound
  GivenOnce
PROPERTIES
  AllFetched
CHECK_DEADLOCK FALSE

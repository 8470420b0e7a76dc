SPECIFICATION FairSpec
CONSTANTS
  CPUs = {c1, c2}
  Timers = {t1, t2}
  NoCpu = NoCpu
  NoTimer = NoTimer
  TIMER_POLL = 99
  Horizon = 2
  MaxDepth = 2
  MaxCalls = 3
INVARIANTS
  ListsSound
  NoLostExpiry
PROPERTIES
  AllExpire
  ImplementsService
CHECK_DEADLOCK FALSE

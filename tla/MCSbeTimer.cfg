SPECIFICATION SbeTimerFairSpec
CONSTANTS
  CPUs = {c1, c2}
  NoCpu = NoCpu
  SBE_TIMER_UPDATE_MAX = 2
  MinTick = 1
  MaxTick = 3
  Horizon = 4
  MaxSchedules = 3
  TimerTroubles <- AnyTrouble
INVARIANTS
  QueuedOnce
  NoSelfDeadlock
PROPERTIES
  AllRun
CHECK_DEADLOCK FALSE

SPECIFICATION FairSpec
CONSTANTS
  CPUs = {c1, c2}
  Msgs = {m1, m2, m3}
  RespMsgs = {m2, m3}
  CompMsgs = {m1, m2}
  NoCpu = NoCpu
  NoMsg = NoMsg
  RetryMax = 1
  Troubles <- AnyTrouble
  MaxResets = 1
  MaxQueued <- Queued
INVARIANTS
  GivenBackMeansGone
  HeadInFlight
PROPERTIES
  AllComplete
  OneCommandCalm
CHECK_DEADLOCK FALSE

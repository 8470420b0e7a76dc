SPECIFICATION FairSpec
CONSTANTS
  CPUs = {c1, c2}
  NoCpu = NoCpu
  OutLen = 4
  MaxChars = 6
INVARIANTS
  OutInOrder
  NothingLeft
PROPERTIES
  AllOut
CHECK_DEADLOCK FALSE

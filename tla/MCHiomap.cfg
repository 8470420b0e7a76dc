SPECIFICATION FairSpec
CONSTANTS
  BlockSize = 2
  FlashBlocks = 2
  Spans <- MCSpans
  MaxFaults = 3
INVARIANTS
  ReadTrusted
  WriteReached
PROPERTIES
  Recovers
CHECK_DEADLOCK FALSE

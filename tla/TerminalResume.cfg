SPECIFICATION FairSpec
CONSTANTS
  Capacity = 3
  OutputQueue = 1
  ResetLen = 2
  MaxBytes = 5
  MaxChunk = 2
  WireCap = 2
  WriteCap = 2
CHECK_DEADLOCK FALSE
INVARIANTS TypeOK ScrollbackHoldsTail LinkIsExact
PROPERTIES CatchesUp

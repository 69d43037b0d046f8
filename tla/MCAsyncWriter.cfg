SPECIFICATION FairSpec
CONSTANTS
  Count = 4
  Threshold = 2
  MaxStarts = 2
  MaxFlushes = 1
CHECK_DEADLOCK FALSE
INVARIANTS InOrder
PROPERTIES StopWrites StopReturns FullQueueWritten

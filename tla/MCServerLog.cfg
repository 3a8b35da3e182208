SPECIFICATION FairLogSpec
CONSTANTS
  Levels <- AllLevels
  Verbosities = {0, 1, 3, 4, 256}
  MaxCalls = 3
INVARIANTS
  DeliveredExactly
  FileClosed
PROPERTY
  OutOfMemoryEnds
CHECK_DEADLOCK FALSE

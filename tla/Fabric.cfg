SPECIFICATION FairSpec
CONSTANTS
  StickyLimit = 3
  QuietCycles = 3
  MaxStale = 2
  MaxGap = 2
  MaxBurst = 3
  StallsInStream = TRUE
  FlushesInStream = TRUE
INVARIANTS InStep OldCommandsDrained
PROPERTIES RealTimeServed OldCommandsAnswered

SPECIFICATION FairSpec
CONSTANTS
  StickyLimit = 2
  QuietCycles = 3
  MaxStale = 2
  MaxGap = 2
  MaxBurst = 2
  StallsInStream = FALSE
  FlushesInStream = TRUE
PROPERTY OldCommandsFinish

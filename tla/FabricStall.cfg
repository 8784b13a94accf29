SPECIFICATION Spec
CONSTANTS
  StickyLimit = 2
  QuietCycles = 3
  MaxStale = 2
  MaxGap = 2
  MaxBurst = 2
  StallsInStream = TRUE
  FlushesInStream = FALSE
INVARIANT NoProtocolError

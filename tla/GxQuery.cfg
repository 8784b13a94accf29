CONSTANTS
  MaxRequest = 2
  StepTime = 2
  MaxDeferredCost = 1
  SwapTime = 1
  MaxCommands = 3
  MaxVBlanks = 1
  MaxSessions = 2
SPECIFICATION FairSpec
CHECK_DEADLOCK FALSE
INVARIANTS ReadsInOrder PrefixAgrees
PROPERTY ReadsAnswered

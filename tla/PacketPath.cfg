CONSTANTS
  SlotCount = 2
  MaxRecords = 2
  BurstRecords = 2
  MaxSequence = 3
  MaxSent = 4
  MaxSessions = 2
SPECIFICATION FairSpec
INVARIANT NoFaults
PROPERTIES SlotInUseUntouched ImplementsRecordStream AwaitedApplied
CHECK_DEADLOCK FALSE

\* Three writes, two faults and two crashes on a file system that syncs
\* directories: a commit can be overtaken, fail, be retried and be killed.
\* The threads are fair.
CONSTANTS
  MaxWrites = 3
  MaxFaults = 2
  MaxCrashes = 2
  DirSync = TRUE
SPECIFICATION FairSpec
INVARIANTS NeverTorn PromiseKept CleanMeansSaved ShutdownFailureHasCause
PROPERTIES ImplementsDurableSave CallsReturn EventuallySaved

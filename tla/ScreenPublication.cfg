CONSTANTS
  BankCount = 3
  MaxPictures = 4
  MaxSessions = 2
  MaxDeaths = 1
  None = None
SPECIFICATION FairSpec
INVARIANTS ScannedBankWhole FaultsOnlyAtEnd
PROPERTIES ImplementsPictureShow PictureReachesScreen
CHECK_DEADLOCK FALSE

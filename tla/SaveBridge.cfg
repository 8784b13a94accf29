CONSTANTS
  Flashy = Flashy
  Eeprom = Eeprom
  NoGame = NoGame
  Games = {Flashy, Eeprom}
  Size <- MCSize
  Lengths <- MCLengths
  Flash = {Flashy}
  Migrated = {Eeprom}
  MaxGameWrites = 2
  MaxSize = 2
  MaxLoads = 2
SPECIFICATION FairBridgeSpec
INVARIANT SaveKept
PROPERTIES WrongSizeUntouched LoadRuns
CHECK_DEADLOCK FALSE

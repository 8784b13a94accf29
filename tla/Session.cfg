SPECIFICATION FairSpec
CONSTANTS
  MaxToken = 7
  MaxTriggers = 2
  MaxMishaps = 1
INVARIANTS HpsQuietWhileReinit ScanoutQuietWhileReinit OneServicePerSession MenuChoiceApplied
PROPERTIES ReleasedOnce AllAnswered DeadServiceStopsConsole

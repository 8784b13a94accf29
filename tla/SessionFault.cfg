SPECIFICATION Spec
CONSTANTS
  MaxToken = 5
  MaxTriggers = 1
  MaxMishaps = 1
INVARIANT FaultPublished

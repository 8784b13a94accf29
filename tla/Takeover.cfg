CONSTANTS
  MaxLaunches = 2
  MaxMishaps = 3
SPECIFICATION FairSpec
CHECK_DEADLOCK FALSE
INVARIANTS NeverTwoOwners HostGuarded
PROPERTIES RendererKept BusOwned

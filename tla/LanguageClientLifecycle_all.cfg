SPECIFICATION FairSpec
CONSTANTS
  k1 = k1
  k2 = k2
  Callers <- TwoCallers
  NoClient = NoClient
  MaxStarts = 3
  MaxCrashes = 1
INVARIANTS NoOrphan DeactivationStopsAll CurrentIsFresh
PROPERTIES NotRevived RequestsServed
CHECK_DEADLOCK FALSE

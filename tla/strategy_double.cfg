SPECIFICATION Spec
CONSTANTS
  s1 = s1
  s2 = s2
  s3 = s3
  Symbol = {s1}
  Rank = {1, 2}
  LiveModes = {TRUE}
  MaxOpen = 2
  ExecutorMaxOpen = 2
  SuppressFor = 1
  Prompt = TRUE
  MaxOffers = 3
  MaxQueue = 3
  MaxFaults = 0
  MaxCrashes = 0
  MaxStops = 0
INVARIANTS
  OneOpenPerSymbol
CHECK_DEADLOCK FALSE

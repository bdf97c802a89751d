SPECIFICATION Spec
CONSTANTS
  s1 = s1
  s2 = s2
  s3 = s3
  Symbol = {s1, s2, s3}
  Rank = {1, 2}
  LiveModes = {TRUE, FALSE}
  MaxOpen = 2
  ExecutorMaxOpen = 2
  SuppressFor = 2
  Prompt = TRUE
  MaxOffers = 4
  MaxQueue = 3
  MaxFaults = 0
  MaxCrashes = 1
  MaxStops = 1
INVARIANTS
  TypeOK
  NoDuplicateExit
  BookWithinLimit
PROPERTIES
  CloseHitsItsTrade
SYMMETRY Symbols
CHECK_DEADLOCK FALSE

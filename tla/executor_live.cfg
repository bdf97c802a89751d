SPECIFICATION Spec
CONSTANTS
  k1 = k1
  k2 = k2
  k3 = k3
  s1 = s1
  s2 = s2
  s3 = s3
  Key = {k1, k2, k3}
  Symbol = {s1, s2, s3}
  Decisions <- LiveDecisions
  Live = TRUE
  LivePool = {TRUE}
  LiveAllowlist = {s1}
  PaperMaxOpen = 2
  DefaultEnabled = TRUE
  MaxDecisions = 3
  MaxFaults = 1
  MaxCrashes = 1
  MaxFlips = 0
  MayHang = {}
INVARIANTS
  NoPhantomTrade
  RowTellsTheTruth
PROPERTIES
  ImplementsIdempotentExecution
CHECK_DEADLOCK FALSE

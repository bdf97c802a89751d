SPECIFICATION FairSpec
CONSTANTS
  k1 = k1
  k2 = k2
  k3 = k3
  s1 = s1
  s2 = s2
  s3 = s3
  Key = {k1, k2, k3}
  Symbol = {s1, s2, s3}
  Decisions <- FewDecisions
  Live = TRUE
  LivePool = {TRUE, FALSE}
  LiveAllowlist = {s1}
  PaperMaxOpen = 2
  DefaultEnabled = TRUE
  MaxDecisions = 3
  MaxFaults = 0
  MaxCrashes = 0
  MaxFlips = 1
  MayHang = {"reader", "handler"}
PROPERTIES
  EveryDecisionConcludes
CHECK_DEADLOCK FALSE

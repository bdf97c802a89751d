SPECIFICATION Spec
CONSTANTS
  k1 = k1
  k2 = k2
  k3 = k3
  s1 = s1
  s2 = s2
  s3 = s3
  Key = {k1, k2, k3}
  Symbol = {s1, s2, s3}
  Decisions <- PaperDecisions
  Live = FALSE
  LivePool = {TRUE}
  LiveAllowlist = {s1}
  PaperMaxOpen = 2
  DefaultEnabled = TRUE
  MaxDecisions = 3
  MaxFaults = 1
  MaxCrashes = 1
  MaxFlips = 1
  MayHang = {}
INVARIANTS
  TypeOK
  PaperBookIsGuarded
  AtMostOneEffectPerKey
  AuditNeverAhead
  AtMostOneEntrySlips
  ControlsNeverHoldBackAClose
PROPERTIES
  VerdictIsFinal
CHECK_DEADLOCK FALSE

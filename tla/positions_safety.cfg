SPECIFICATION Spec
CONSTANTS
  Symbols = {"s1"}
  Sizes = {1, 2}
  MaxOrders = 2
  MaxCloses = 1
  MaxFaults = 1
  MaxCorrectionPct = 50
  Threshold = 1
  Cooldown = 2
INVARIANTS
  OneAlertPerCooldown
  AlertIsTrue
PROPERTIES
  ReductionIsConservative
  DriftIsRepaired
  DriftIsReported
  DriftIsAlerted
CHECK_DEADLOCK FALSE

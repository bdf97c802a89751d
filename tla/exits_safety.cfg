SPECIFICATION ReplaySpec
CONSTANTS
  Scale = 1000
  Moves <- SomeMoves
  Configs <- Profiles
  Side = {"Long", "Short"}
  MaxOpens = 2
  MaxFaults = 1
  MaxRestarts = 1
INVARIANTS
  HeldWithinStops
  ExcursionIsTruthful
  ThesisExitIsConfirmed
PROPERTIES
  ReplayMirrorsLive
CHECK_DEADLOCK FALSE

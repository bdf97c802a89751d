SPECIFICATION Spec
CONSTANTS
  Parts = {"control", "limiter", "bridge"}
  Operators = {"web", "script"}
  WebOperators = {"web"}
  Urls = 2
  MaxCommands = 2
  MaxFaults = 1
  GeneralMax = 3
  ControlMax = 2
  Window = 2
  MaxTime = 4
  MaxErrors = 1
  Clients = {"b1"}
  Capacity = 2
  DlqCapacity = 2
  RecoverCap = 2
  BatchSize = 2
  MaxMessages = 6
  MaxLosses = 1
INVARIANTS
  AckedSwitchWasRead
  LastWordWins
  TierRespected
  BrowserSeesTheStream
PROPERTIES
  EveryCommandConcludes
CHECK_DEADLOCK FALSE

SPECIFICATION Spec
CONSTANTS
  MaxRevision = 2
  MaxConfig = 1
  Canaries <- PlainLinear
  EditPoints <- BetweenTicks
  EditPhases <- AfterInit
  Reverts = FALSE
  ReadsFail = FALSE
  ServiceEdits = FALSE
  MaxEdits = 2
  MaxFaults = 1
  MaxFailed = 3
INVARIANTS
  NoTrafficToStoppedCanary

SPECIFICATION FairSpec
CONSTANTS
  MaxRevision = 2
  MaxConfig = 1
  Canaries <- PlainLinear
  EditPoints <- BetweenTicks
  EditPhases <- Phases
  Reverts = FALSE
  ReadsFail = FALSE
  ServiceEdits = FALSE
  MaxEdits = 2
  MaxFaults = 0
  MaxFailed = 3
PROPERTIES
  Converges

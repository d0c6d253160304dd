SPECIFICATION FairSpec
CONSTANTS
  MaxRevision = 3
  MaxConfig = 2
  Canaries <- EveryEnding
  EditPoints <- BetweenTicks
  EditPhases <- AfterInit
  Reverts = FALSE
  ReadsFail = TRUE
  ServiceEdits = TRUE
  MaxEdits = 2
  MaxFaults = 2
  MaxFailed = 3
PROPERTIES
  RolloutEnds
  Converges

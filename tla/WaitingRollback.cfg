SPECIFICATION FairSpec
CONSTANTS
  MaxRevision = 2
  MaxConfig = 1
  Canaries <- WaitWithRollback
  EditPoints <- BetweenTicks
  EditPhases <- AfterInit
  Reverts = FALSE
  ReadsFail = FALSE
  ServiceEdits = FALSE
  MaxEdits = 2
  MaxFaults = 0
  MaxFailed = 3
PROPERTIES
  WaitingEnds

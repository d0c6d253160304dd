SPECIFICATION FairSpec
CONSTANTS
  MaxRevision = 2
  MaxConfig = 1
  Canaries <- PlainBackInSteps
  EditPoints <- BetweenTicks
  EditPhases <- AfterInit
  Reverts = FALSE
  ReadsFail = FALSE
  ServiceEdits = TRUE
  MaxEdits = 2
  MaxFaults = 0
  MaxFailed = 3
PROPERTIES
  PromotionEnds

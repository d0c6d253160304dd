SPECIFICATION Spec
CONSTANTS
  MaxRevision = 3
  MaxConfig = 1
  Canaries <- PlainLinear
  EditPoints <- BetweenTicks
  EditPhases <- AfterInit
  Reverts = FALSE
  ReadsFail = TRUE
  ServiceEdits = FALSE
  MaxEdits = 2
  MaxFaults = 1
  MaxFailed = 3
INVARIANTS
  PromotedWasAnalysed

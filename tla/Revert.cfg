SPECIFICATION Spec
CONSTANTS
  MaxRevision = 2
  MaxConfig = 1
  Canaries <- PlainLinear
  EditPoints <- BetweenTicks
  EditPhases <- AfterInit
  Reverts = TRUE
  ReadsFail = FALSE
  ServiceEdits = FALSE
  MaxEdits = 3
  MaxFaults = 0
  MaxFailed = 3
INVARIANTS
  LastPromotedIsPrimary

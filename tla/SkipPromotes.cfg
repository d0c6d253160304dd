SPECIFICATION Spec
CONSTANTS
  MaxRevision = 3
  MaxConfig = 1
  Canaries <- SkippedLinear
  EditPoints <- BetweenTicks
  EditPhases <- AfterInit
  Reverts = FALSE
  ReadsFail = FALSE
  ServiceEdits = FALSE
  MaxEdits = 2
  MaxFaults = 3
  MaxFailed = 3
INVARIANTS
  LastPromotedIsPrimary

SPECIFICATION Spec
CONSTANTS
  MaxRevision = 2
  MaxConfig = 1
  Canaries <- HeldPromotion
  EditPoints <- BetweenTicks
  EditPhases <- AfterInit
  Reverts = FALSE
  ReadsFail = FALSE
  ServiceEdits = FALSE
  MaxEdits = 2
  MaxFaults = 0
  MaxFailed = 3
INVARIANTS
  NoPromotionPastThreshold

SPECIFICATION Spec
CONSTANTS
  MaxRevision = 3
  MaxConfig = 2
  Canaries <- EveryStrategy
  EditPoints <- BetweenTicks
  EditPhases <- AfterInit
  Reverts = FALSE
  ReadsFail = FALSE
  ServiceEdits = TRUE
  MaxEdits = 2
  MaxFaults = 1
  MaxFailed = 3
INVARIANTS
  TypeOK
  AtRestAllToPrimary
  StoppedByFaultsOnly
  PromotedWasAnalysed
  ThresholdUnlessHeld
  LastPromotedIsPrimary
PROPERTIES
  PrimaryReadyBeforeTraffic
  RollbackKeepsApplied
  ImplementsRollout

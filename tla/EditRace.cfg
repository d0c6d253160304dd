SPECIFICATION Spec
CONSTANTS
  MaxRevision = 3
  MaxConfig = 1
  Canaries <- PlainLinear
  EditPoints <- Labels
  EditPhases <- AfterInit
  Reverts = FALSE
  ReadsFail = FALSE
  ServiceEdits = FALSE
  MaxEdits = 2
  MaxFaults = 0
  MaxFailed = 3
INVARIANTS
  PromotedWasAnalysed

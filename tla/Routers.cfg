SPECIFICATION Spec
CONSTANTS
  Absent = Absent
  Original = Original
  Canaries <- EveryRouter
  CanaryWeights = {0, 10, 100}
  MaxEdits = 2
  MaxFaults = 1
INVARIANTS
  TypeOK
  ReadBack
  OthersStayOnPrimary
  RouteHasItsParts
  FinalizeRestores
PROPERTIES
  ImplementsTrafficSplit
  TicksGetToRoute
CHECK_DEADLOCK FALSE

SPECIFICATION Spec
CONSTANT Analyses <- MCAnalyses
INVARIANTS
  TypeOK
  SplitCoversTraffic
  DocumentedDuration
PROPERTIES
  FollowsTheList
  WalkReturns
CHECK_DEADLOCK FALSE

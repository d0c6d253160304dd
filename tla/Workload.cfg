SPECIFICATION Spec
CONSTANTS
  Absent = Absent
  a = a
  b = b
  Configs <- Names
  Workloads <- EveryKind
  MaxEdits = 3
  MaxFaults = 1
INVARIANTS
  TypeOK
  PrimaryHasPods
  CopiesExist
  NoEditIsLost
PROPERTIES
  ScalingIsNoRevision
  HalfPromotionIsMended
CHECK_DEADLOCK FALSE

SPECIFICATION Spec
CONSTANTS
  Absent = Absent
  a = a
  b = b
  Configs <- Names
  Workloads <- OneConfig
  MaxEdits = 2
  MaxFaults = 1
INVARIANT
  FailedLeavesNothing
CHECK_DEADLOCK FALSE

SPECIFICATION Spec
CONSTANTS
  Absent = Absent
  a = a
  b = b
  Configs <- Names
  Workloads <- Recreated
  MaxEdits = 2
  MaxFaults = 1
INVARIANTS
  PrimaryHasPods
CHECK_DEADLOCK FALSE

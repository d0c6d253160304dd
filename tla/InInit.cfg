SPECIFICATION Spec
CONSTANTS
  Absent = Absent
  a = a
  b = b
  Configs <- Names
  Workloads <- InInit
  MaxEdits = 2
  MaxFaults = 0
PROPERTIES
  PrimaryIsIsolated
CHECK_DEADLOCK FALSE

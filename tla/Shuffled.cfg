SPECIFICATION Spec
CONSTANTS
  Absent = Absent
  Original = Original
  Canaries <- Shuffled
  CanaryWeights = {0, 10, 100}
  MaxEdits = 2
  MaxFaults = 1
PROPERTY
  OnlyEditsReset
CHECK_DEADLOCK FALSE

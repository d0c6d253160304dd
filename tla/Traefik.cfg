SPECIFICATION Spec
CONSTANTS
  Absent = Absent
  Original = Original
  Canaries <- EditedTraefik
  CanaryWeights = {0, 1, 2, 5, 10, 20, 30, 50, 100}
  MaxEdits = 3
  MaxFaults = 1
PROPERTIES
  ReconcileAddsNoTraffic
CHECK_DEADLOCK FALSE

SPECIFICATION Spec
CONSTANTS
  Absent = Absent
  Starts <- Undisturbed
  Edits = {}
  MaxEdits = 1
PROPERTIES
  RevertHolds
CHECK_DEADLOCK FALSE

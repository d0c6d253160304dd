SPECIFICATION Spec
CONSTANTS
  Absent = Absent
  Starts <- OptingOut
  Edits = {"optOut"}
  MaxEdits = 1
PROPERTIES
  OptOutRemovesFinalizer
CHECK_DEADLOCK FALSE

SPECIFICATION Spec
CONSTANTS
  Absent = Absent
  Starts <- OptingOut
  Edits = {"optOut"}
  MaxEdits = 1
PROPERTIES
  PhaseNotSetBack
CHECK_DEADLOCK FALSE

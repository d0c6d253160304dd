SPECIFICATION Spec
CONSTANTS
  Absent = Absent
  Starts <- OneOfEach
  Edits = {"interval", "optIn", "optOut"}
  MaxEdits = 1
INVARIANTS
  TypeOK
  TicksDoNotOverlap
PROPERTIES
  PhaseNotSetBack
  RevertHoldsWithoutTicks
  DeletedEventuallyGone
  EveryCanaryScheduled
CHECK_DEADLOCK FALSE

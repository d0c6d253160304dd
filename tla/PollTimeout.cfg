SPECIFICATION Spec
CONSTANTS
  Labels <- Words
  Tasks = {t1}
  Canaries <- GatedCanaries
  Concords <- Documented
  Timeout = 6
  CallTimeout = 1
  MaxThreads = 1
  MaxRestarts = 0
INVARIANTS
  PollTimeoutHolds

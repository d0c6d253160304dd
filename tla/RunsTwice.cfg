SPECIFICATION Spec
CONSTANTS
  Labels <- Words
  Tasks = {t1}
  Canaries <- GatedCanaries
  Concords <- Documented
  Timeout = 6
  CallTimeout = 1
  MaxThreads = 2
  MaxRestarts = 0
INVARIANTS
  RunsOnceAtATime

SPECIFICATION FairSpec
CONSTANTS
  Labels <- Words
  Tasks = {t1}
  Canaries <- GatedCanaries
  Concords <- ConcordTasks
  Timeout = 4
  CallTimeout = 2
  MaxThreads = 2
  MaxRestarts = 1
INVARIANTS
  TypeOK
  RunningIsOwned
  ChecksAnswerTheCommand
PROPERTIES
  AcceptedIsRun
  ConcordIsAnswered

SPECIFICATION FairSpec
CONSTANTS
  Threads = {t1, t2}
  SqEntries = 3
  CqEntries = 3
  MaxChunks = 1
  MaxCommands = 9
  None = none
INVARIANTS TypeOK NoGhost
PROPERTIES ImplementsQueue OwnCompletion WaitReturns
CHECK_DEADLOCK FALSE

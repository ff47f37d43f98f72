SPECIFICATION Spec
CONSTANTS
  Threads = {t1, t2}
  SqEntries = 3
  CqEntries = 3
  MaxChunks = 2
  MaxCommands = 9
  None = none
INVARIANT NoGhost
CHECK_DEADLOCK FALSE

SPECIFICATION Spec
CONSTANTS
  t1 = t1
  t2 = t2
  t3 = t3
  FirstThread = t1
  NoLock = "none"
  Threads <- TwoThreads
  NextThread <- TwoRing
  Locks <- FileLocks
  IsrLocks <- FileIsr
  Callees <- FileCallees
  TopLocks <- FileTop
INVARIANT NeverStuck

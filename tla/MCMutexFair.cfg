SPECIFICATION FairSpec
CONSTANTS
  t1 = t1
  t2 = t2
  t3 = t3
  FirstThread = t1
  NoLock = "none"
  Threads <- TwoThreads
  NextThread <- TwoRing
  Locks <- TableLocks
  IsrLocks <- RegistryIsr
  Callees <- TableCallees
  TopLocks <- TableLocks
PROPERTY NoStarvation

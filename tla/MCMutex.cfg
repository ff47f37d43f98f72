SPECIFICATION Spec
CONSTANTS
  t1 = t1
  t2 = t2
  t3 = t3
  FirstThread = t1
  NoLock = "none"
  Threads <- ThreeThreads
  NextThread <- ThreeRing
  Locks <- RegistryLocks
  IsrLocks <- RegistryIsr
  Callees <- RegistryCallees
  TopLocks <- RegistryLocks
INVARIANTS TypeOK MutualExclusion OthersHoldNothing SchedulerResumed FlagsRestored

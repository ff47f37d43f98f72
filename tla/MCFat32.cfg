SPECIFICATION FairSpec
CONSTANTS
  f1 = f1
  f2 = f2
  None = "none"
  Files <- TwoFiles
  Size = 10
  PerSector = 5
  LastCluster = 8
  MaxClusters = 3
  MaxCalls = 4
  MaxFaults = 1
INVARIANTS TypeOK CopyFollows CacheFollows FilesReadBack
PROPERTY CallEnds
CHECK_DEADLOCK FALSE

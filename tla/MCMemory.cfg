SPECIFICATION StackSpec
CONSTANTS
  LastFrame = 5
  BootFrames = 1
  MaxPage = 9
  TableSpan = 7
  MaxRegion = 2
  MaxOwned = 2
  Guard = 2
  Reserve = 1
  Commit = 2
INVARIANTS TypeOK FramesCounted RegionsSound FramesIsolated StackGuarded
CHECK_DEADLOCK FALSE

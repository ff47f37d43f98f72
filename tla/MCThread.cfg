SPECIFICATION FairSpec
CONSTANTS
  b1 = b1
  b2 = b2
  b3 = b3
  Boot = "boot"
  Null = "null"
  MaxCreates = 4
  Blocks <- ThreeBlocks
INVARIANTS TypeOK ListSound ExitKeepsProcessor
PROPERTIES SwitchedToReady RunsAgain
CHECK_DEADLOCK FALSE

SPECIFICATION Spec
CONSTANTS
  Threads = {t1, t2}
  Classes = {c16, c1024}
  BlocksPerNode = 3
  DataPages = 1
  Pages = 4
  RegionSizes = {1, 2}
  None = none
INVARIANTS TypeOK BlocksConserved NodeKept

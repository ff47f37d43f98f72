SPECIFICATION Spec
CONSTANTS
  Reserve = 8
  PageEntries = 2
  InitCommit = 2
  GrowCommit = 4
  Objs = {o1, o2}
  Null = Null
INVARIANTS TypeOK FreeStackDistinct FreeXorNamed
PROPERTY ImplementsIdPool

SPECIFICATION FairSpec
CONSTANTS
  Entries = 5
  EventEntries = 4
  Shapes <- CommandsAndTransfers
  PortAcks = {1}
  MaxPosts = 9
  MaxPorts = 3
INVARIANTS TypeOK ToldOfItsOwn InterruptHasEvent
PROPERTIES ImplementsQueue WaitReturns
CHECK_DEADLOCK FALSE

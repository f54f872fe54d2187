CONSTANTS
  NumPC = 1
  NumRank = 1
  NumBG = 1
  NumBank = 2
  Rows = {0, 1}
  T <- SmallTimings
  Idle = 8
  Menu <- MemMenu
  MaxRequests = 4
  BufSize = 1
  ActiveSize = 1
  PrioritySize = 1
  Refreshing = FALSE
SPECIFICATION Spec
INVARIANTS
  TypeOK
  ExactlyOnce
  RowHeld
  NothingLost
  DataBus
PROPERTIES
  RowCycle

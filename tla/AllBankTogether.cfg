CONSTANTS
  NumPC = 2
  NumRank = 1
  NumBG = 1
  NumBank = 1
  Rows = {0, 1}
  T <- SmallTimings
  Idle = 8
  Menu <- ABMenu
  MaxRequests = 3
  BufSize = 1
  ActiveSize = 3
  PrioritySize = 1
  Refreshing = TRUE
SPECIFICATION LiveSpec
INVARIANTS
  LockStep
  FirstReadyWins
PROPERTIES
  RowCycle
  AllServed
  ServiceSpec

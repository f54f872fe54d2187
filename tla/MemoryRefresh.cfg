CONSTANTS
  NumPC = 1
  NumRank = 1
  NumBG = 1
  NumBank = 2
  Rows = {0, 1}
  T <- SmallTimings
  Idle = 8
  Menu <- RefreshMenu
  MaxRequests = 3
  BufSize = 2
  ActiveSize = 3
  PrioritySize = 0
  Refreshing = TRUE
SPECIFICATION LiveSpec
INVARIANTS
  MemoryActive
  RefreshUndisturbed
  RefreshQueued
PROPERTIES
  ServiceSpec
  AllServed

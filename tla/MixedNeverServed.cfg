CONSTANTS
  NumPC = 1
  NumRank = 1
  NumBG = 1
  NumBank = 2
  Rows = {0, 1}
  T <- SmallTimings
  Idle = 8
  Menu <- MixedMenu
  MaxRequests = 2
  BufSize = 1
  ActiveSize = 3
  PrioritySize = 1
  Refreshing = FALSE
SPECIFICATION LiveSpec
PROPERTIES
  AllServed

SPECIFICATION FairControllerSpec
CONSTANTS
  Organizations <- Systems
  Refreshed = {"DDR4", "HBM3"}
  Rows = {1, 2}
  V <- SmallV
  Idle = 3
  Dual = {"HBM3"}
  Menu <- SmallMenu
  MaxRequests = 3
  MaxRefreshes = 1
  BufSize = 2
  ReadLatency = 3
INVARIANTS OnePlace
PROPERTIES RowKept EveryoneServed
CHECK_DEADLOCK FALSE

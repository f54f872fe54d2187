SPECIFICATION FairSpec
CONSTANTS
  Traces <- ShortTraces
  Channels = {1, 2}
  BufSize = 1
  frontend_tick = 2
  mem_tick = 3
  nREFI = 2
INVARIANTS LinesInOrder BarriersKept EndsDone
PROPERTIES RatioKept Terminates
CHECK_DEADLOCK FALSE

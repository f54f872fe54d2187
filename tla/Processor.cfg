SPECIFICATION FairSpec
CONSTANTS
  Cores <- TwoCores
  Lines = {0, 1, 2, 3}
  NumSets = 1
  Associativity = 2
  NumMSHRs = 2
  Latency = 1
  ReadSlots = 1
  WriteSlots = 1
  Traces <- ShortTraces
  IPC = 2
  Depth = 3
  Expected = 5
  Translation = {"None", "Random"}
  Reserved = {3}
INVARIANTS InFlightTracked HitsSettled FetchedOnce LoadAwaited
PROPERTIES Finishes
CHECK_DEADLOCK FALSE

SPECIFICATION Spec
CONSTANTS
  Plugins = {"Graphene", "OracleRH", "PARA", "TWiCe", "TRR", "Hydra", "RRS"}
  NumRows = 4
  Threshold = 3
  PriorityRoom = 4
  Spares <- SmallSpares
  MaxSpill = 4
  PruneRate = 1
  MaxRefs = 2
  TRRSize = 2
  GroupSize = 2
  GroupThreshold = 1
  RCTRows = 1
  GroupLines = 1
  Sets = 1
  Ways = 1
  HotEntries = 2
  RITEntries = 4
  SwapRequests = 1
  MaxCount = 3
INVARIANTS Protected CacheCoherent SwappedFound
CHECK_DEADLOCK FALSE

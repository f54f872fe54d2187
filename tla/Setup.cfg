SPECIFICATION Spec
CONSTANTS
  Standards = {"DDR3", "DDR4", "DDR4_VRR", "DDR5", "LPDDR5", "GDDR6", "HBM", "HBM2", "HBM3", "HBM3_PIM"}
  Resized = {0, 2}
  GivenRFC <- SomeRFC
  StackJunk = {0, 700}
INVARIANTS BurstsDisjoint RowCycleKept RefreshKeepsUp PlacesDistinct
CHECK_DEADLOCK FALSE

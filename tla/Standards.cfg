CONSTANTS
  Organizations <- TwoBanks
  Refreshed = {"DDR3", "DDR4", "DDR4_VRR", "DDR5", "LPDDR5"}
  r1 = r1
  r2 = r2
  Rows = {r1, r2}
  V <- SmallV
  Idle = 3
SYMMETRY RowSymmetry
SPECIFICATION Spec
INVARIANTS
  OneBurst
  FourActivates
  RefreshQuiet
PROPERTIES
  RowCycle

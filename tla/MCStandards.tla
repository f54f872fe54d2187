---------------------------- MODULE MCStandards ----------------------------
EXTENDS DRAMProperties, TLC

CONSTANTS r1, r2

\* No operation depends on which row is which.
RowSymmetry == Permutations(Rows)

\* Scaled-down timing values with the order the presets have.
SmallV ==
  [nBL |-> 2, nCL |-> 2, nCWL |-> 1, nRCD |-> 1, nRCDRD |-> 1, nRCDWR |-> 1,
   nRP |-> 2, nRPab |-> 3, nRAS |-> 2, nRC |-> 4, nWR |-> 1, nRTP |-> 1,
   nRTPS |-> 1, nRTPL |-> 1, nCCDS |-> 1, nCCDL |-> 2, nRRDS |-> 1, nRRDL |-> 2, nWTRS |-> 1,
   nWTRL |-> 2, nFAW |-> 10, nCS |-> 1, nRFC |-> 3, nVRR |-> 3,
   nCCDSWR |-> 2, nCCDSWTR |-> 4, nCCDLWR |-> 4, nCCDLWTR |-> 5]

\* Two banks of each standard: of one bank group, of two, or of two ranks or
\* pseudo channels.
TwoBanks ==
  { <<"DDR3", <<2, 1>>>>, <<"DDR3", <<1, 2>>>>,
    <<"DDR4", <<2, 1, 1>>>>, <<"DDR4", <<1, 2, 1>>>>, <<"DDR4_VRR", <<1, 1, 2>>>>,
    <<"DDR5", <<2, 1, 1>>>>, <<"DDR5", <<1, 1, 2>>>>, <<"LPDDR5", <<1, 1, 2>>>>,
    <<"GDDR6", <<1, 2>>>>, <<"HBM", <<2, 1>>>>,
    <<"HBM2", <<1, 1, 2>>>>, <<"HBM3", <<1, 1, 2, 1>>>> }

\* Two ranks on one pseudo channel, as in the presets of HBM3 stacks higher
\* than four.
TwoRanks == { <<"HBM3", <<1, 2, 1, 1>>>> }
=============================================================================

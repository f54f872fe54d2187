----------------------------- MODULE MCGeneric -----------------------------
EXTENDS GenericProperties

\* Scaled-down timing values with the order the presets have.
SmallV ==
  [nBL |-> 1, nCL |-> 2, nCWL |-> 1, nRCD |-> 2, nRCDRD |-> 2, nRCDWR |-> 1,
   nRP |-> 1, nRPab |-> 1, nRAS |-> 2, nRC |-> 3, nWR |-> 1, nRTP |-> 1,
   nRTPS |-> 1, nRTPL |-> 1, nCCDS |-> 1, nCCDL |-> 2, nRRDS |-> 1, nRRDL |-> 1, nWTRS |-> 1,
   nWTRL |-> 2, nFAW |-> 2, nCS |-> 1, nRFC |-> 2, nVRR |-> 2,
   nCCDSWR |-> 2, nCCDSWTR |-> 3, nCCDLWR |-> 2, nCCDLWTR |-> 3]

\* Two banks of a DDR4 rank, and of an HBM3 pseudo channel.
Systems == { <<"DDR4", <<1, 1, 2>>>>, <<"HBM3", <<1, 1, 1, 2>>>> }


\* Requests that conflict in one bank, one that meets a write in its buffer, and
\* one of a second bank.
MenuOf(group) ==
  { [type |-> a[1], path |-> Append(group, a[2]), row |-> a[3], col |-> 0] :
    a \in { <<"Read", 0, 1>>, <<"Read", 1, 1>>, <<"Write", 0, 1>>, <<"Write", 0, 2>> } }

SmallMenu == [DDR4 |-> MenuOf(<<0, 0>>), HBM3 |-> MenuOf(<<0, 0, 0>>)]
=============================================================================

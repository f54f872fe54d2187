------------------------------ MODULE MCValues ------------------------------
(***************************************************************************)
(* Values TLC gives the constants: timings and the requests of a menu.     *)
(***************************************************************************)
EXTENDS Integers

\* Scaled-down timing values: the order and the ratios of the HBM3 presets.
SmallTimings ==
  [nBL |-> 2, nCL |-> 2, nRCDRD |-> 3, nRCDWR |-> 3, nRP |-> 3, nRAS |-> 5,
   nRC |-> 8, nWR |-> 2, nRTPS |-> 1, nRTPL |-> 2, nCWL |-> 1, nCCDS |-> 1,
   nCCDL |-> 2, nCCDAB |-> 2, nCCDSB |-> 2, nRRDS |-> 1, nRRDL |-> 2,
   nWTRS |-> 1, nWTRL |-> 2, nFAW |-> 4, nRFC |-> 6, nREFI |-> 24]

Req(type, path, row) == [type |-> type, path |-> path, row |-> row, col |-> 0]

B0 == <<0, 0, 0, 0>>
B1 == <<0, 0, 0, 1>>

\* Reads and writes with a row conflict in one bank, and a second bank.
MemMenu == { Req("Read", B0, 0), Req("Read", B0, 1), Req("Write", B0, 0),
             Req("Read", B1, 0) }

\* A read and a write with a row conflict, and a MAC of the other bank beside.
RefreshMenu == { Req("Read", B0, 0), Req("Write", B0, 1), Req("MAC_SB", B1, 0) }

\* All-bank MACs of two rows, a data movement and a barrier.
ABMenu == { Req("MAC_AB", B0, 0), Req("MAC_AB", B0, 1), Req("WR_GB", B0, 0),
            Req("BARRIER", B0, 0) }

\* Reads and writes next to all-bank MACs.
MixedMenu == { Req("Read", B0, 0), Req("Write", B0, 1), Req("Read", B1, 0),
               Req("MAC_AB", B0, 0), Req("MAC_AB", B0, 1) }
=============================================================================

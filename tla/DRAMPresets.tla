---------------------------- MODULE DRAMPresets ----------------------------
(***************************************************************************)
(* The preset organizations and speeds of the DRAM models, and the tables  *)
(* set_timing_vals completes a speed from: secondary timings by data width *)
(* and rate, refresh timings by density.  Capacities are in megabits, the  *)
(* table entries in nanoseconds or, for secondary timings, in cycles.      *)
(*                                                                         *)
(* Timing values carry one name across the standards: nCCDS and nRRDS also *)
(* stand for nCCD and nRRD, nWTRS for nWTR, nBL for nBL16, nRP for nRPpb,  *)
(* nRFC for nRFC1 and nRFCab, nRCDWR for nRCDWD.                           *)
(***************************************************************************)
EXTENDS Integers, Sequences

Unset == -1

Gigabits(n) == n * 1024

Org(dq, megabits, count) == [dq |-> dq, density |-> megabits, count |-> count]

----------------------------------------------------------------------------
(* Organizations: the number of nodes of each level below its parent, rows *)
(* and columns last.                                                       *)

DDR3Orgs ==
  { Org(w, Gigabits(d), <<1, 1, 8, d * (IF w = 16 THEN 2^13 ELSE 2^14),
                          IF w = 4 THEN 2^11 ELSE 2^10>>)
    : d \in {1, 2, 4, 8}, w \in {4, 8, 16} }

DDR4Orgs ==
  { Org(w, Gigabits(d), <<1, 1, IF w = 16 THEN 2 ELSE 4, 4,
                          d * (IF w = 4 THEN 2^14 ELSE 2^13), 2^10>>)
    : d \in {2, 4, 8, 16}, w \in {4, 8, 16} }

DDR5Orgs ==
  { Org(w, Gigabits(d), <<1, 1, IF w = 16 THEN 4 ELSE 8, IF d = 8 THEN 2 ELSE 4,
                          IF d = 32 THEN 2^17 ELSE 2^16, IF w = 4 THEN 2^11 ELSE 2^10>>)
    : d \in {8, 16, 32}, w \in {4, 8, 16} }

LPDDR5Orgs ==
  { Org(16, Gigabits(d), <<1, 1, 4, 4, d * 2^12, 2^10>>) : d \in {2, 4, 8, 16, 32} }

GDDR6Orgs ==
  { Org(8, Gigabits(d), <<2, 4, 4, d * 2^11, 2^11>>) : d \in {8, 16, 32} }
  \cup { Org(16, Gigabits(8), <<2, 4, 4, 2^14, 2^10>>),
         Org(16, Gigabits(16), <<2, 4, 4, 2^14, 2^11>>),
         Org(16, Gigabits(32), <<2, 4, 4, 2^15, 2^11>>) }

HBMOrgs ==
  { Org(128, Gigabits(1), <<1, 4, 2, 2^13, 2^7>>),
    Org(128, Gigabits(2), <<1, 4, 2, 2^14, 2^7>>),
    Org(128, Gigabits(4), <<1, 4, 4, 2^14, 2^7>>) }

\* The last one is HBM2_8Gb, whose density is written 6<<10.
HBM2Orgs ==
  { Org(128, Gigabits(2), <<1, 2, 4, 2, 2^14, 2^6>>),
    Org(128, Gigabits(4), <<1, 2, 4, 4, 2^14, 2^6>>),
    Org(128, Gigabits(6), <<1, 2, 4, 4, 2^15, 2^6>>) }

\* Stacks of 4, 8, 12 and 16 dies have 1, 2, 3 and 4 ranks.
HBM3Orgs ==
  { Org(32, Gigabits(r * d), <<1, 2, r, 4, 4, d * 2^12, 2^5>>)
    : r \in 1 .. 4, d \in {2, 4, 8} }

PIMOrgs == HBM3Orgs

----------------------------------------------------------------------------
(* Speeds.  The classes of one rate differ in nCL = nRCD = nRP and in nRC. *)

DDR3Class(s, cl) ==
  [rate |-> s.rate, nBL |-> 4, nCL |-> cl, nRCD |-> cl, nRP |-> cl, nRAS |-> s.ras,
   nRC |-> s.ras + cl, nWR |-> 2 * s.rtp - s.odd, nRTP |-> s.rtp, nCWL |-> 9,
   nCCDS |-> 4, nRRDS |-> Unset, nWTRS |-> s.rtp, nFAW |-> Unset, nRFC |-> Unset,
   nREFI |-> Unset, nCS |-> 2]

DDR3Speeds ==
  UNION { { DDR3Class(s, cl) : cl \in s.cl } : s \in
    { [rate |->  800, ras |-> 15, rtp |-> 4, odd |-> 2, cl |-> {5}],
      [rate |-> 1066, ras |-> 20, rtp |-> 4, odd |-> 0, cl |-> 6 .. 8],
      [rate |-> 1333, ras |-> 24, rtp |-> 5, odd |-> 0, cl |-> {8, 9}],
      [rate |-> 1600, ras |-> 28, rtp |-> 6, odd |-> 0, cl |-> 9 .. 11],
      [rate |-> 1866, ras |-> 32, rtp |-> 7, odd |-> 0, cl |-> {11, 12}],
      [rate |-> 2133, ras |-> 36, rtp |-> 8, odd |-> 0, cl |-> {12, 13}] } }

DDR4Class(s, cl) ==
  [rate |-> s.rate, nBL |-> 4, nCL |-> cl, nRCD |-> cl, nRP |-> cl, nRAS |-> s.ras,
   nRC |-> s.ras + cl, nWR |-> 2 * s.rtp, nRTP |-> s.rtp, nCWL |-> s.cwl,
   nCCDS |-> 4, nCCDL |-> s.ccd, nRRDS |-> Unset, nRRDL |-> Unset,
   nWTRS |-> s.wtr, nWTRL |-> s.rtp, nFAW |-> Unset, nRFC |-> Unset,
   nREFI |-> Unset, nCS |-> 2]

DDR4Speeds ==
  UNION { { DDR4Class(s, cl) : cl \in s.cl } : s \in
    { [rate |-> 1600, ras |-> 28, rtp |->  6, cwl |->  9, ccd |-> 5, wtr |-> 2, cl |-> 10 .. 12],
      [rate |-> 1866, ras |-> 32, rtp |->  7, cwl |-> 10, ccd |-> 5, wtr |-> 3, cl |-> 12 .. 14],
      [rate |-> 2133, ras |-> 36, rtp |->  8, cwl |-> 11, ccd |-> 6, wtr |-> 3, cl |-> 14 .. 16],
      [rate |-> 2400, ras |-> 39, rtp |->  9, cwl |-> 12, ccd |-> 6, wtr |-> 3, cl |-> 15 .. 18],
      [rate |-> 2666, ras |-> 43, rtp |-> 10, cwl |-> 14, ccd |-> 7, wtr |-> 4, cl |-> 17 .. 20],
      [rate |-> 2933, ras |-> 47, rtp |-> 11, cwl |-> 16, ccd |-> 8, wtr |-> 4, cl |-> 19 .. 22],
      [rate |-> 3200, ras |-> 52, rtp |-> 12, cwl |-> 16, ccd |-> 8, wtr |-> 4, cl |-> {20, 22, 24}] } }

DDR4VRRSpeeds ==
  { [n \in DOMAIN s \cup {"nVRR"} |-> IF n = "nVRR" THEN Unset ELSE s[n]] : s \in DDR4Speeds }

DDR5Speeds ==
  { [rate |-> 3200, nBL |-> 8, nCL |-> cl, nRCD |-> cl, nRP |-> cl, nRAS |-> 52,
     nRC |-> IF cl = 24 THEN 75 ELSE 51 + cl, nWR |-> 48, nRTP |-> 12, nCWL |-> cl - 2,
     nPPD |-> 2, nCCDS |-> 8, nCCDSWR |-> 8, nCCDSWTR |-> cl - 2 + 8 + 4,
     nCCDL |-> 8, nCCDLWR |-> 16, nCCDLWTR |-> cl - 2 + 8 + 16, nRRDS |-> 8,
     nRRDL |-> Unset, nFAW |-> Unset, nRFC |-> Unset, nRFC2 |-> Unset,
     nRFCsb |-> Unset, nREFI |-> Unset, nREFSBRD |-> 30, nDRFMab |-> Unset,
     nDRFMsb |-> Unset, nCS |-> 2] : cl \in {24, 26, 28} }

LPDDR5Speeds ==
  { [rate |-> 6400, nBL |-> 4, nCL |-> 20, nRCD |-> 15, nRPab |-> 17, nRP |-> 15,
     nRAS |-> 34, nRC |-> 30, nWR |-> 28, nRTP |-> 4, nCWL |-> 11, nCCDS |-> 4,
     nRRDS |-> 4, nWTRS |-> 5, nWTRL |-> 10, nFAW |-> 16, nPPD |-> 2, nRFC |-> Unset,
     nRFCpb |-> Unset, nREFI |-> Unset, nPBR2PBR |-> Unset, nPBR2ACT |-> Unset,
     nCS |-> 2] }

\* Refresh values stand one column off: nRFCpb holds the value of nREFI.
GDDR6Class(bl, v, ras) ==
  [rate |-> 2000, nBL |-> bl, nCL |-> 24, nRCDRD |-> v.rcd, nRCDWR |-> v.rcd - 10 - v.low,
   nRP |-> v.rcd, nRAS |-> ras, nRC |-> v.rc, nWR |-> v.rcd, nRTP |-> 4, nCWL |-> 6,
   nCCDS |-> 4, nCCDL |-> 6, nRRDS |-> v.rrd, nRRDL |-> v.rrd, nWTRS |-> 9,
   nWTRL |-> 11, nFAW |-> v.faw, nRFC |-> 210, nREFI |-> 105, nRREFD |-> v.faw \div 2,
   nRFCpb |-> 3333]

GDDR6Voltages ==
  { [rcd |-> 26, low |-> 0, ras |-> 53, rc |-> 79, rrd |-> 7, faw |-> 28],
    [rcd |-> 30, low |-> 1, ras |-> 60, rc |-> 89, rrd |-> 11, faw |-> 42] }

\* Mutant of GDDR6Speeds: the rows hold nRCD in the column of nRAS.
GDDR6SpeedsShifted == { GDDR6Class(bl, v, v.rcd) : bl \in {4, 8}, v \in GDDR6Voltages }

GDDR6Speeds == { GDDR6Class(bl, v, v.ras) : bl \in {4, 8}, v \in GDDR6Voltages }

HBMSpeeds ==
  { [rate |-> 2000, nBL |-> 2, nCL |-> 7, nRCDRD |-> 7, nRCDWR |-> 7, nRP |-> 7,
     nRAS |-> 17, nRC |-> 19, nWR |-> 8, nRTPS |-> 2, nRTPL |-> 3, nCWL |-> 2,
     nCCDS |-> 1, nCCDL |-> 2, nRRDS |-> 2, nRRDL |-> 3, nWTRS |-> 3, nWTRL |-> 4,
     nRTW |-> 3, nFAW |-> 15, nRFC |-> Unset, nRFCSB |-> 160, nREFI |-> 3900,
     nREFISB |-> Unset, nRREFD |-> 8] }

HBM2Speeds == { [s EXCEPT !.nBL = 4] : s \in HBMSpeeds }

\* nCL = nRCD = nRP; the single-bank refresh and the row timings scale with it.
HBM3Class(s) ==
  [rate |-> s.rate, nBL |-> 2, nCL |-> s.cl, nRCDRD |-> s.cl, nRCDWR |-> s.cl,
   nRP |-> s.cl, nRAS |-> s.ras, nRC |-> s.rc, nWR |-> s.wr, nRTPS |-> s.rtp,
   nRTPL |-> s.rtpl, nCWL |-> s.rtp, nCCDS |-> 2, nCCDL |-> 4, nRRDS |-> 2, nRRDL |-> 4,
   nWTRS |-> s.wtr, nWTRL |-> s.rrefd, nRTW |-> 3, nFAW |-> s.faw, nRFC |-> Unset,
   nRFCSB |-> s.rate \div 20, nREFI |-> s.refi, nREFISB |-> Unset, nRREFD |-> s.rrefd]

HBM3Speeds ==
  { HBM3Class(s) : s \in
    { [rate |-> 4800, cl |-> 17, ras |-> 41, rc |-> 58, wr |-> 20, rtp |-> 5, rtpl |->  8, wtr |->  8, faw |-> 36, rrefd |-> 10, refi |-> 4680],
      [rate |-> 5200, cl |-> 19, ras |-> 45, rc |-> 63, wr |-> 21, rtp |-> 6, rtpl |->  8, wtr |->  8, faw |-> 39, rrefd |-> 11, refi |-> 5070],
      [rate |-> 5600, cl |-> 20, ras |-> 48, rc |-> 68, wr |-> 23, rtp |-> 6, rtpl |->  9, wtr |->  9, faw |-> 42, rrefd |-> 12, refi |-> 5460],
      [rate |-> 6000, cl |-> 21, ras |-> 51, rc |-> 72, wr |-> 24, rtp |-> 6, rtpl |->  9, wtr |->  9, faw |-> 45, rrefd |-> 12, refi |-> 5850],
      [rate |-> 6400, cl |-> 23, ras |-> 55, rc |-> 77, wr |-> 26, rtp |-> 7, rtpl |-> 10, wtr |-> 10, faw |-> 48, rrefd |-> 13, refi |-> 6240] } }

\* Two more gaps between the all-bank and same-bank MACs of a processing unit.
PIMClass(s, allBank, sameBank) ==
  [n \in DOMAIN s \cup {"nCCDAB", "nCCDSB"} |->
     CASE n = "nCCDAB" -> allBank [] n = "nCCDSB" -> sameBank [] OTHER -> s[n]]

\* They are longer when power is constrained (no _NPC in the name).
PIMSpeeds ==
  { PIMClass(s, 4, 4) : s \in HBM3Speeds }
  \cup { PIMClass(s, IF s.rate = 6400 THEN 7 ELSE 6,
                  CASE s.rate < 5600 -> 6 [] s.rate = 6400 -> 8 [] OTHER -> 7) : s \in HBM3Speeds }
=============================================================================

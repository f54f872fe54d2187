--------------------------- MODULE DRAMStandards ---------------------------
(***************************************************************************)
(* The command and timing tables of the DRAM standards under dram/impl/:   *)
(* DDR3, DDR4, DDR4 with victim-row refresh, DDR5, LPDDR5, GDDR6, HBM,     *)
(* HBM2 and HBM3.                                                          *)
(*                                                                         *)
(* Levels are numbered from the channel (0) down to the bank.  A timing    *)
(* constraint says that `next' may not follow `prev' within `lat' cycles   *)
(* at a node of its level (or, with `sibling', at the siblings of that     *)
(* node); with window 4 it counts from the fourth last `prev'.             *)
(*                                                                         *)
(* Only commands that a request of the repository can lead to are here:    *)
(* reads, writes, all-bank refreshes and victim-row refreshes.  V is the   *)
(* record of the timing values (m_timing_vals), by name.                   *)
(***************************************************************************)
EXTENDS Integers, Sequences

----------------------------------------------------------------------------
(* Timing constraints, and the families of them the standards share.       *)

Entry(level, preceding, following, latency, window, sibling) ==
  { [level |-> level, prev |-> p, next |-> n, lat |-> latency,
     window |-> window, sibling |-> sibling] : p \in preceding, n \in following }

\* Mutant of Rule: every timing is one cycle short.
RuleEarly(level, preceding, following, latency) ==
  Entry(level, preceding, following, latency - 1, 1, FALSE)

Rule(level, preceding, following, latency) ==
  Entry(level, preceding, following, latency, 1, FALSE)

SiblingRule(level, preceding, following, latency) ==
  Entry(level, preceding, following, latency, 1, TRUE)

Reads  == {"RD", "RDA"}
Writes == {"WR", "WRA"}

\* The data bus carries one burst at a time in each direction.
Bus(level, gap) == Rule(level, Reads, Reads, gap)
                     \cup Rule(level, Writes, Writes, gap)

\* The end of a write burst, and of the recovery that follows it.
WriteEnd(V)  == V.nCWL + V.nBL
Recovered(V) == WriteEnd(V) + V.nWR

\* Mutant of Turnaround: a write does not wait for the read's burst.
TurnaroundNoBurst(level, V, bubble, wtr) ==
  Rule(level, Reads, Writes, V.nCL + bubble - V.nCWL)
  \cup Rule(level, Writes, Reads, WriteEnd(V) + wtr)

\* From a read to a write and back, within one rank.
Turnaround(level, V, bubble, wtr) ==
  Rule(level, Reads, Writes, V.nCL + V.nBL + bubble - V.nCWL)
  \cup Rule(level, Writes, Reads, WriteEnd(V) + wtr)

WriteToRead(level, V, wtr) == Rule(level, Writes, Reads, WriteEnd(V) + wtr)

\* Between sibling ranks, for the new DQS.
RankSwitch(level, V) ==
  SiblingRule(level, Reads, Reads \cup Writes, V.nBL + V.nCS)
  \cup SiblingRule(level, Writes, Reads, V.nCL + V.nBL + V.nCS - V.nCWL)

PrechargeAll(level, V, rtp) ==
  Rule(level, {"RD"}, {"PREA"}, rtp)
  \cup Rule(level, {"WR"}, {"PREA"}, Recovered(V))
  \cup Rule(level, {"ACT"}, {"PREA"}, V.nRAS)
  \cup Rule(level, {"PREA"}, {"ACT"}, V.nRP)

\* Mutant of Window: one activation more than the window admits.
Window5(level, acts, V) == Entry(level, acts, {"ACT"}, V.nFAW, 5, FALSE)

Window(level, acts, V) == Entry(level, acts, {"ACT"}, V.nFAW, 4, FALSE)

ActToAct(level, acts, gap) == Rule(level, acts, acts, gap)

\* Mutant of RefreshAll: a refresh need not wait for the precharge before it.
RefreshAllAtOnce(level, V, precharges, rtp, acts) ==
  Rule(level, {"ACT"}, {"REFab"}, V.nRC) \cup Rule(level, {"REFab"}, acts, V.nRFC)

\* What an all-bank refresh waits for, and what waits for it.
RefreshAll(level, V, precharges, rtp, acts) ==
  Rule(level, {"ACT"}, {"REFab"}, V.nRC)
  \cup Rule(level, precharges, {"REFab"}, V.nRP)
  \cup Rule(level, {"RDA"}, {"REFab"}, V.nRP + rtp)
  \cup Rule(level, {"WRA"}, {"REFab"}, Recovered(V) + V.nRP)
  \cup Rule(level, {"REFab"}, acts, V.nRFC)

\* The row cycle of one bank.
BankCycle(level, V, rtp, acts) ==
  Rule(level, {"ACT"}, {"PRE"}, V.nRAS)
  \cup Rule(level, {"PRE"}, acts, V.nRP)
  \cup Rule(level, {"RD"}, {"PRE"}, rtp)
  \cup Rule(level, {"WR"}, {"PRE"}, Recovered(V))
  \cup Rule(level, {"RDA"}, acts, rtp + V.nRP)
  \cup Rule(level, {"WRA"}, acts, Recovered(V) + V.nRP)

RowToColumn(level, V, rcdrd, rcdwr) ==
  Rule(level, {"ACT"}, Reads, rcdrd) \cup Rule(level, {"ACT"}, Writes, rcdwr)

BothPrecharges == {"PRE", "PREA"}

----------------------------------------------------------------------------
(* DDR3 and the DDR4 family: channel, rank, (bank group,) bank.            *)

DDR3Timings(V) ==
  Bus(0, V.nBL)
  \cup Bus(1, V.nCCDS) \cup Turnaround(1, V, 2, V.nWTRS) \cup RankSwitch(1, V)
  \cup PrechargeAll(1, V, V.nRTP)
  \cup ActToAct(1, {"ACT"}, V.nRRDS) \cup Window(1, {"ACT"}, V)
  \cup RefreshAll(1, V, BothPrecharges, V.nRTP, {"ACT"})
  \cup Rule(2, {"ACT"}, {"ACT"}, V.nRC) \cup RowToColumn(2, V, V.nRCD, V.nRCD)
  \cup BankCycle(2, V, V.nRTP, {"ACT"})

DDR4Timings(V) ==
  Bus(0, V.nBL)
  \cup Bus(1, V.nCCDS) \cup Turnaround(1, V, 2, V.nWTRS) \cup RankSwitch(1, V)
  \cup PrechargeAll(1, V, V.nRTP)
  \cup ActToAct(1, {"ACT"}, V.nRRDS) \cup Window(1, {"ACT"}, V)
  \cup RefreshAll(1, V, BothPrecharges, V.nRTP, {"ACT"})
  \cup Bus(2, V.nCCDL) \cup WriteToRead(2, V, V.nWTRL)
  \cup ActToAct(2, {"ACT"}, V.nRRDL)
  \cup Rule(3, {"ACT"}, {"ACT"}, V.nRC) \cup RowToColumn(3, V, V.nRCD, V.nRCD)
  \cup BankCycle(3, V, V.nRTP, {"ACT"})

DDR4VRRTimings(V) ==
  LET acts == {"ACT", "VRR"}
  IN  Bus(0, V.nBL)
      \cup Bus(1, V.nCCDS) \cup Turnaround(1, V, 2, V.nWTRS) \cup RankSwitch(1, V)
      \cup PrechargeAll(1, V, V.nRTP)
      \cup ActToAct(1, acts, V.nRRDS) \cup Window(1, {"ACT"}, V)
      \cup RefreshAll(1, V, BothPrecharges, V.nRTP, acts)
      \cup Rule(1, {"VRR"}, {"REFab"}, V.nVRR)
      \cup Bus(2, V.nCCDL) \cup WriteToRead(2, V, V.nWTRL)
      \cup ActToAct(2, acts, V.nRRDL)
      \cup Rule(3, {"ACT"}, acts, V.nRC) \cup ActToAct(3, acts, V.nVRR)
      \cup RowToColumn(3, V, V.nRCD, V.nRCD) \cup BankCycle(3, V, V.nRTP, acts)

\* Two-cycle commands occupy the command bus; writes are further apart.
DDR5Timings(V) ==
  Rule(0, {"ACT"} \cup Reads \cup Writes,
       {"ACT", "PRE", "PREA", "REFab"} \cup Reads \cup Writes, 2)
  \cup Bus(0, V.nBL)
  \cup Rule(1, Reads, Reads, V.nCCDS) \cup Rule(1, Writes, Writes, V.nCCDSWR)
  \cup Rule(1, Reads, Writes, V.nCL + V.nBL + 2 - V.nCWL + 2)
  \cup Rule(1, Writes, Reads, V.nCCDSWTR) \cup RankSwitch(1, V)
  \cup PrechargeAll(1, V, V.nRTP)
  \cup ActToAct(1, {"ACT"}, V.nRRDS) \cup Window(1, {"ACT"}, V)
  \cup RefreshAll(1, V, BothPrecharges, V.nRTP, {"ACT"})
  \cup Rule(2, Reads, Reads, V.nCCDL) \cup Rule(2, Writes, Writes, V.nCCDLWR)
  \cup Rule(2, Writes, Reads, V.nCCDLWTR) \cup ActToAct(2, {"ACT"}, V.nRRDL)
  \cup Rule(3, {"ACT"}, {"ACT"}, V.nRC) \cup RowToColumn(3, V, V.nRCD, V.nRCD)
  \cup BankCycle(3, V, V.nRTP, {"ACT"})
  \cup Rule(3, {"WR"}, {"RDA"}, Recovered(V) - V.nRTP)

\* RD, WR, nBL and ACT stand for RD16, WR16, nBL16 and ACT-1.  ACT-2 and the
\* WCK synchronisation commands CASRD and CASWR have no constraint at all.
LPDDR5Timings(V) ==
  Bus(0, V.nBL)
  \cup Bus(1, V.nCCDS) \cup Turnaround(1, V, 2, V.nWTRS) \cup RankSwitch(1, V)
  \cup PrechargeAll(1, [V EXCEPT !.nRP = V.nRPab], V.nRTP)
  \cup ActToAct(1, {"ACT"}, V.nRRDS) \cup Window(1, {"ACT"}, V)
  \cup RefreshAll(1, V, {"PRE"}, V.nRTP, {"ACT", "REFab"})
  \cup Rule(1, {"PREA"}, {"REFab"}, V.nRPab)
  \cup Bus(2, V.nCCDS) \cup WriteToRead(2, V, V.nWTRL)
  \cup ActToAct(2, {"ACT"}, V.nRRDS)
  \cup Rule(3, {"ACT"}, {"ACT"}, V.nRC) \cup RowToColumn(3, V, V.nRCD, V.nRCD)
  \cup BankCycle(3, V, V.nRTP, {"ACT"})

----------------------------------------------------------------------------
(* GDDR6 and the HBM family: channel, (pseudo channel, rank,) bank group,  *)
(* bank.                                                                   *)

\* A precharge delays the activations of the whole channel; nothing at all
\* is said of PREA, and a bank has no nRC of its own.
GDDR6Timings(V) ==
  Bus(0, V.nBL) \cup Bus(0, V.nCCDS) \cup Turnaround(0, V, 4, V.nWTRS)
  \cup Rule(0, {"RD"}, {"PREA"}, V.nRTP) \cup Rule(0, {"WR"}, {"PREA"}, Recovered(V))
  \cup ActToAct(0, {"ACT"}, V.nRRDS) \cup Window(0, {"ACT"}, V)
  \cup Rule(0, {"ACT"}, {"PRE"}, V.nRAS) \cup Rule(0, {"PRE"}, {"ACT"}, V.nRP)
  \cup RefreshAll(0, V, {"PRE"}, V.nRTP, {"ACT"})
  \cup Bus(1, V.nCCDL) \cup WriteToRead(1, V, V.nWTRL)
  \cup ActToAct(1, {"ACT"}, V.nRRDL)
  \cup RowToColumn(2, V, V.nRCDRD, V.nRCDWR) \cup BankCycle(2, V, V.nRTP, {"ACT"})

\* A row command takes two cycles of the row command bus.
TwoCycleActivate == Rule(0, {"ACT"}, {"ACT", "PRE", "PREA", "REFab"}, 2)

HBMBank(group, V) ==
  Bus(group, V.nCCDL) \cup WriteToRead(group, V, V.nWTRL)
  \cup ActToAct(group, {"ACT"}, V.nRRDL)
  \cup Rule(group + 1, {"RD"}, {"PRE"}, V.nRTPS)
  \cup Rule(group + 1, {"ACT"}, {"ACT"}, V.nRC)
  \cup RowToColumn(group + 1, V, V.nRCDRD, V.nRCDWR)
  \cup BankCycle(group + 1, V, V.nRTPL, {"ACT"})

HBMTimings(V) ==
  TwoCycleActivate
  \cup Bus(0, V.nBL) \cup Bus(0, V.nCCDS) \cup Turnaround(0, V, 2, V.nWTRS)
  \cup PrechargeAll(0, V, V.nRTPS)
  \cup ActToAct(0, {"ACT"}, V.nRRDS) \cup Window(0, {"ACT"}, V)
  \cup RefreshAll(0, V, BothPrecharges, V.nRTPS, {"ACT"})
  \cup HBMBank(1, V)

HBM2Timings(V) ==
  TwoCycleActivate
  \cup Bus(1, V.nBL) \cup Bus(1, V.nCCDS) \cup Turnaround(1, V, 2, V.nWTRS)
  \cup PrechargeAll(1, V, V.nRTPS)
  \cup ActToAct(1, {"ACT"}, V.nRRDS) \cup Window(1, {"ACT"}, V)
  \cup RefreshAll(1, V, BothPrecharges, V.nRTPS, {"ACT"})
  \cup HBMBank(2, V)

HBM3Timings(V) ==
  TwoCycleActivate
  \cup Bus(1, V.nBL)
  \cup PrechargeAll(1, V, V.nRTPS)
  \cup RefreshAll(1, V, BothPrecharges, V.nRTPS, {"ACT"})
  \cup ActToAct(2, {"ACT"}, V.nRRDS) \cup Window(2, {"ACT"}, V)
  \cup Bus(2, V.nCCDS) \cup Turnaround(2, V, 2, V.nWTRS)
  \cup Rule(2, {"ACT"}, {"PREA"}, V.nRAS) \cup Rule(2, {"PREA"}, {"ACT"}, V.nRP)
  \cup HBMBank(3, V)

----------------------------------------------------------------------------
(* Commands, with the level their readiness is looked up to (scope), and   *)
(* the requests that end in them.  A walk never goes below the bank.       *)

MemoryRequests == [Read |-> "RD", Write |-> "WR", Refresh |-> "REFab"]

\* Of a standard whose banks are at level leaf, and whose PREA and REFab are
\* commands of level all.
CommandTable(levels, leaf, all) ==
  [levels |-> levels, requests |-> MemoryRequests,
   scope |-> [ACT |-> leaf, PRE |-> leaf, RD |-> leaf, WR |-> leaf,
              RDA |-> leaf, WRA |-> leaf, PREA |-> all, REFab |-> all]]

DDR3Commands == CommandTable(<<"channel", "rank", "bank">>, 2, 1)

DDR4Commands == CommandTable(<<"channel", "rank", "bankgroup", "bank">>, 3, 1)

DDR4VRRCommands ==
  [levels |-> <<"channel", "rank", "bankgroup", "bank">>,
   requests |-> [Read |-> "RD", Write |-> "WR", Refresh |-> "REFab",
                 VictimRefresh |-> "VRR"],
   scope |-> [ACT |-> 3, PRE |-> 3, RD |-> 3, WR |-> 3, RDA |-> 3, WRA |-> 3,
              PREA |-> 1, REFab |-> 1, VRR |-> 3]]

DDR5Commands == CommandTable(<<"channel", "rank", "bankgroup", "bank">>, 3, 1)

LPDDR5Commands ==
  [levels |-> <<"channel", "rank", "bankgroup", "bank">>,
   requests |-> MemoryRequests,
   scope |-> [ACT |-> 3, ACT2 |-> 3, PRE |-> 3, RD |-> 3, WR |-> 3, RDA |-> 3,
              WRA |-> 3, PREA |-> 1, REFab |-> 1, CASRD |-> 1, CASWR |-> 1]]

GDDR6Commands ==
  [levels |-> <<"channel", "bankgroup", "bank">>, requests |-> MemoryRequests,
   scope |-> [ACT |-> 2, PRE |-> 2, RD |-> 2, WR |-> 2, RDA |-> 2, WRA |-> 2,
              PREA |-> 2, REFab |-> 0]]

HBMCommands == CommandTable(<<"channel", "bankgroup", "bank">>, 2, 0)

HBM2Commands ==
  CommandTable(<<"channel", "pseudochannel", "bankgroup", "bank">>, 3, 0)

HBM3Commands ==
  CommandTable(<<"channel", "pseudochannel", "rank", "bankgroup", "bank">>, 4, 0)

----------------------------------------------------------------------------
(* What the commands do to the banks and what they require of them: PREA   *)
(* acts, and REFab looks, below a node of level all.                       *)

BankRules(all) ==
  [opens |-> {"ACT"}, closes |-> {"PRE", "RDA", "WRA"}, needRow |-> {"RD", "WR"},
   needClosed |-> {}, all |-> all, twoStep |-> FALSE, sync |-> {}]

DDR3Rules == BankRules(1)
DDR4Rules == BankRules(1)
DDR4VRRRules == [BankRules(1) EXCEPT !.needClosed = {"VRR"}]
DDR5Rules == BankRules(1)

\* A row opens in two steps, and reads and writes need the data clock in step
\* with the command clock: the commands that prolong that.
LPDDR5Rules == [BankRules(1) EXCEPT !.opens = {"ACT2"}, !.twoStep = TRUE,
                                    !.sync = {"CASRD", "CASWR", "RD", "WR"}]

GDDR6Rules == BankRules(0)
HBMRules  == BankRules(0)
HBM2Rules == BankRules(0)
HBM3Rules == BankRules(0)

\* How long a command keeps the clocks in step.  The code adds the POSITIONS
\* of nCL (2), nCWL (10) and nBL16 (1) in m_timings, not their values.
SyncFor == [CASRD |-> 2 + 1 + 1, CASWR |-> 10 + 1 + 1, RD |-> 2 + 1, WR |-> 10 + 1]

Commands ==
  [DDR3 |-> DDR3Commands, DDR4 |-> DDR4Commands, DDR4_VRR |-> DDR4VRRCommands,
   DDR5 |-> DDR5Commands, LPDDR5 |-> LPDDR5Commands, GDDR6 |-> GDDR6Commands,
   HBM |-> HBMCommands, HBM2 |-> HBM2Commands, HBM3 |-> HBM3Commands]

Timings(standard, V) ==
  CASE standard = "DDR3"     -> DDR3Timings(V)
    [] standard = "DDR4"     -> DDR4Timings(V)
    [] standard = "DDR4_VRR" -> DDR4VRRTimings(V)
    [] standard = "DDR5"     -> DDR5Timings(V)
    [] standard = "LPDDR5"   -> LPDDR5Timings(V)
    [] standard = "GDDR6"    -> GDDR6Timings(V)
    [] standard = "HBM"      -> HBMTimings(V)
    [] standard = "HBM2"     -> HBM2Timings(V)
    [] standard = "HBM3"     -> HBM3Timings(V)

Rules ==
  [DDR3 |-> DDR3Rules, DDR4 |-> DDR4Rules, DDR4_VRR |-> DDR4VRRRules,
   DDR5 |-> DDR5Rules, LPDDR5 |-> LPDDR5Rules, GDDR6 |-> GDDR6Rules,
   HBM |-> HBMRules, HBM2 |-> HBM2Rules, HBM3 |-> HBM3Rules]
=============================================================================

--------------------------- MODULE HBM3PIMDevice ---------------------------
(***************************************************************************)
(* The HBM3-PIM device of one channel (dram/impl/HBM3-PIM.cpp on the node  *)
(* tree of dram/node.h).                                                   *)
(*                                                                         *)
(* A node of the tree is the path that leads to it: <<>> is the channel,   *)
(* <<p>> a pseudo channel, <<p, r>> a rank, <<p, r, g>> a bank group and   *)
(* <<p, r, g, b>> a bank.  An address is a path and a row; the -1 entries  *)
(* of an address vector (a refresh names only its pseudo channel) are the  *)
(* end of a shorter path, because every walk of the tree stops at them;    *)
(* the nodes of such a walk are the Prefixes of the path.                  *)
(*                                                                         *)
(* m_cmd_ready_clk holds, per node and command, the largest "issue clock   *)
(* plus latency" over the constraints that end in that command.  The model *)
(* keeps the other side of that sum: the cycles SINCE a command was last   *)
(* issued at the node, forgotten (Idle) once no constraint can refuse      *)
(* anything any more.                                                      *)
(***************************************************************************)
EXTENDS Integers, Sequences, FiniteSets, SequencesExt

CONSTANTS
  NumPC, NumRank, NumBG, NumBank,  \* m_organization.count of each level
  Rows,                            \* the row numbers requests use
  T,                               \* the timing values, by name
  Idle                             \* "long ago": no smaller than any latency

Banks == (0 .. NumPC - 1) \X (0 .. NumRank - 1)
           \X (0 .. NumBG - 1) \X (0 .. NumBank - 1)

Nodes == UNION { Prefixes(b) : b \in Banks }

Ranks == { SubSeq(b, 1, 2) : b \in Banks }

Opening == {"ACT", "ACTAB", "ACTSB", "ACTPB"}        \* meta.is_opening
Closing == {"PRE", "PREA", "PRESB", "PREPB"}         \* meta.is_closing
Access  == {"RD", "WR", "MACAB", "MACSB", "MACPB"}   \* the row-hit commands
Moves   == {"WRGB", "MVSB", "MVGB", "SFM"}           \* the data-movement commands

Commands == Opening \cup Closing \cup Access \cup Moves
              \cup {"REFab", "SETM", "SETH", "BARRIER"}

\* m_command_scopes: the commands whose readiness is looked up at the channel
\* only.  BARRIER has no entry in the table, whose default is level 0.
ChannelScope == {"PREA", "REFab", "SFM", "SETH", "BARRIER"}

----------------------------------------------------------------------------
(* The timing table.  REFsb is left out: nothing ever issues it.           *)

\* Mutant of Rule: every timing is one cycle short.
RuleEarly(level, preceding, following, latency) ==
  { [level |-> level, prev |-> p, next |-> n, lat |-> latency - 1] :
      p \in preceding, n \in following }

Rule(level, preceding, following, latency) ==
  { [level |-> level, prev |-> p, next |-> n, lat |-> latency] :
      p \in preceding, n \in following }

Path == Moves \cup {"RD", "WR"}      \* the commands on the DQ data path

PIMConstraints ==
  Rule(0, {"ACTAB"}, {"ACTAB", "ACT", "PRE", "PREA", "REFab"}, 2)
  \cup Rule(0, {"MACAB"}, {"MACAB"}, T.nCCDAB)
  \cup Rule(0, {"ACTAB"}, {"ACTAB"}, T.nRC)
  \cup Rule(0, {"ACTAB"}, {"MACAB"}, T.nRCDRD)
  \cup Rule(0, {"ACTAB"}, {"PREA"}, T.nRAS)
  \cup Rule(0, {"MACAB"}, {"PREA"}, T.nRTPL)
  \cup Rule(0, {"PREA"}, {"ACTAB"}, T.nRP)
  \cup Rule(0, {"ACTSB"}, {"ACTSB", "ACT", "PRE", "PREA", "PRESB", "REFab"}, 2)
  \cup Rule(0, {"MACSB"}, {"MACSB"}, T.nCCDSB)
  \cup Rule(4, {"ACTSB"}, {"ACTSB"}, T.nRC)
  \cup Rule(4, {"ACTSB"}, {"MACSB"}, T.nRCDRD)
  \cup Rule(4, {"ACTSB"}, {"PRESB"}, T.nRAS)
  \cup Rule(4, {"MACSB"}, {"PRESB"}, T.nRTPL)
  \cup Rule(4, {"PRESB"}, {"ACTSB"}, T.nRP)
  \cup Rule(0, {"ACTPB"}, {"ACTPB", "ACT", "PRE", "PREA", "PREPB", "REFab"}, 2)
  \cup Rule(0, {"MACPB"}, {"MACPB"}, T.nBL)
  \cup Rule(2, {"MACPB"}, {"MACPB"}, T.nCCDS)
  \cup Rule(3, {"MACPB"}, {"MACPB"}, T.nCCDL)
  \cup Rule(4, {"ACTPB"}, {"ACTPB"}, T.nRC)
  \cup Rule(4, {"ACTPB"}, {"MACPB"}, T.nRCDRD)
  \cup Rule(4, {"ACTPB"}, {"PREPB"}, T.nRAS)
  \cup Rule(4, {"MACPB"}, {"PREPB"}, T.nRTPL)
  \cup Rule(4, {"PREPB"}, {"ACTPB"}, T.nRP)
  \cup Rule(1, {"ACTAB", "ACTSB", "ACTPB"}, {"REFab"}, T.nRC)
  \cup Rule(1, {"PREA", "PRESB", "PREPB"}, {"REFab"}, T.nRP)
  \cup Rule(1, {"REFab"}, {"ACTAB", "ACTSB", "ACTPB"}, T.nRFC)
  \cup Rule(1, Path, Path, T.nBL)
  \cup Rule(2, Path, Path, T.nCCDS)
  \cup Rule(3, Path, Path, T.nCCDL)

DRAMConstraints ==
  Rule(0, {"ACT"}, {"ACT", "PRE", "PREA", "PRESB", "REFab"}, 2)
  \cup Rule(1, {"RD"}, {"PREA"}, T.nRTPS)
  \cup Rule(1, {"WR"}, {"PREA"}, T.nCWL + T.nBL + T.nWR)
  \cup Rule(1, {"ACT"}, {"PREA"}, T.nRAS)
  \cup Rule(1, {"PREA"}, {"ACT"}, T.nRP)
  \cup Rule(1, {"ACT"}, {"REFab"}, T.nRC)
  \cup Rule(1, {"PRE"}, {"REFab"}, T.nRP)
  \cup Rule(1, {"REFab"}, {"ACT"}, T.nRFC)
  \cup Rule(2, {"ACT"}, {"ACT"}, T.nRRDS)
  \cup Rule(2, {"RD"}, {"WR"}, T.nCL + T.nBL + 2 - T.nCWL)
  \cup Rule(2, {"WR"}, {"RD"}, T.nCWL + T.nBL + T.nWTRS)
  \cup Rule(2, {"ACT"}, {"PREA"}, T.nRAS)
  \cup Rule(2, {"PREA"}, {"ACT"}, T.nRP)
  \cup Rule(3, {"WR"}, {"RD"}, T.nCWL + T.nBL + T.nWTRL)
  \cup Rule(3, {"ACT"}, {"ACT"}, T.nRRDL)
  \cup Rule(4, {"ACT"}, {"ACT"}, T.nRC)
  \cup Rule(4, {"ACT"}, {"RD"}, T.nRCDRD)
  \cup Rule(4, {"ACT"}, {"WR"}, T.nRCDWR)
  \cup Rule(4, {"ACT"}, {"PRE"}, T.nRAS)
  \cup Rule(4, {"PRE"}, {"ACT"}, T.nRP)
  \cup Rule(4, {"RD"}, {"PRE"}, T.nRTPL)
  \cup Rule(4, {"WR"}, {"PRE"}, T.nCWL + T.nBL + T.nWR)

Constraints == PIMConstraints \cup DRAMConstraints

\* The constraints of a level of the tree and a command.
Levels == 0 .. 4

After  == [l \in Levels |-> [c \in Commands |->
  { k \in Constraints : k.level = l /\ k.prev = c }]]

\* Mutant of Before: nothing has to wait for a refresh.
BeforeButRefresh == [l \in Levels |-> [c \in Commands |->
  { k \in Constraints : k.level = l /\ k.next = c /\ k.prev # "REFab" }]]

Before == [l \in Levels |-> [c \in Commands |->
  { k \in Constraints : k.level = l /\ k.next = c }]]

\* The (node, command) pairs whose last issue some constraint looks at.
Clocks == { nc \in Nodes \X Commands : After[Len(nc[1])][nc[2]] # {} }

ASSUME DeviceAssumption ==
  /\ NumPC \in Nat \ {0} /\ NumRank \in Nat \ {0}
  /\ NumBG \in Nat \ {0} /\ NumBank \in Nat \ {0}
  /\ Idle \in Nat
  /\ T.nFAW \in Nat
  /\ \A k \in Constraints : k.lat \in Int /\ k.lat <= Idle

----------------------------------------------------------------------------
(* The state of the device: the open rows of each bank (m_row_state, which *)
(* is empty exactly when m_state is Closed), the ages of the last commands *)
(* (m_cmd_ready_clk) and the ACTs of each rank inside the four-activation  *)
(* window (m_cmd_history; a rank gets one ACT a cycle at most).  age is a  *)
(* history of the cycles since a bank last opened or closed: no action     *)
(* reads it, the bank protocol is stated on it.                            *)

Devices == [open  : [Banks -> SUBSET Rows],
            since : [Clocks -> Nat],
            acts  : [Ranks -> SUBSET Nat],
            age   : [Banks -> Nat]]

InitDevice == [open  |-> [b \in Banks |-> {}],
               since |-> [c \in Clocks |-> Idle],
               acts  |-> [r \in Ranks |-> {}],
               age   |-> [b \in Banks |-> Idle]]

AgeBank(a) == IF a + 1 < Idle THEN a + 1 ELSE Idle

\* HBM3PIM::tick: m_clk advances.
TickDevice(d) ==
  [d EXCEPT
     !.since = [c \in Clocks |->
                  IF \E k \in After[Len(c[1])][c[2]] : d.since[c] + 1 < k.lat
                    THEN d.since[c] + 1 ELSE Idle],
     !.acts  = [r \in Ranks |-> { a \in 1 .. T.nFAW - 1 : a - 1 \in d.acts[r] }],
     !.age   = [b \in Banks |-> AgeBank(d.age[b])]]

----------------------------------------------------------------------------
(* Which banks a command acts on.                                          *)

SameBank(path) == { b \in Banks : b[4] = path[4] }

OtherPCs(path) == { b \in Banks : /\ b[2] = path[2]
                                  /\ b[3] = path[3]
                                  /\ b[4] = path[4] }

\* Mutant of ActsOn: PREA closes the banks of the pseudo channel it names.
ActsOnOnePC(cmd, path) ==
  CASE cmd \in {"ACT", "PRE"}              -> {path}
    [] cmd = "ACTAB"                       -> Banks
    [] cmd = "PREA"                        -> { b \in Banks : b[1] = path[1] }
    [] cmd = "ACTSB"                       -> SameBank(path)
    [] cmd \in {"ACTPB", "PRESB", "PREPB"} -> OtherPCs(path)
    [] OTHER                               -> {}

\* Mutant of ActsOn: ACTAB opens the addressed bank only.
ActsOnOneBank(cmd, path) ==
  CASE cmd \in {"ACT", "PRE", "ACTAB"}     -> {path}
    [] cmd = "PREA"                        -> Banks
    [] cmd = "ACTSB"                       -> SameBank(path)
    [] cmd \in {"ACTPB", "PRESB", "PREPB"} -> OtherPCs(path)
    [] OTHER                               -> {}

\* lambdas/action.h, as set_actions assigns them: PRESB closes the banks that
\* PREPB closes, not those ACTSB opened.
ActsOn(cmd, path) ==
  CASE cmd \in {"ACT", "PRE"}              -> {path}
    [] cmd \in {"ACTAB", "PREA"}           -> Banks
    [] cmd = "ACTSB"                       -> SameBank(path)
    [] cmd \in {"ACTPB", "PRESB", "PREPB"} -> OtherPCs(path)
    [] OTHER                               -> {}

\* The banks whose timing PIMSameBankActions and PIMPerBankActions update as
\* well.  PIMPerBankActions runs at the bank group but climbs the tree as far
\* as its bank-level siblings do: it compares rank ids with the pseudo channel
\* and bank-group ids with the rank.
Broadcast(cmd, path) ==
  CASE cmd = "MACSB" -> SameBank(path)
    [] cmd = "MACPB" -> { b \in Banks : /\ b[2] = path[1]
                                        /\ b[3] = path[2]
                                        /\ b[4] = path[4] }
    [] OTHER         -> {}

\* Mutant of Touched: the walk stops above the bank.
TouchedAboveBank(cmd, path) == (Prefixes(path) \cup Broadcast(cmd, path)) \ {path}

\* update_timing walks every prefix of the address, whatever the scope.
Touched(cmd, path) == Prefixes(path) \cup Broadcast(cmd, path)

UpdateStates(open, cmd, path, row) ==
  [b \in Banks |-> IF b \notin ActsOn(cmd, path) THEN open[b]
                   ELSE IF cmd \in Opening THEN open[b] \cup {row} ELSE {}]

IssueCommand(d, cmd, path, row) ==
  LET open == UpdateStates(d.open, cmd, path, row)
  IN  [open  |-> open,
       since |-> [c \in Clocks |->
                    IF c[2] = cmd /\ c[1] \in Touched(cmd, path)
                      THEN 0 ELSE d.since[c]],
       acts  |-> [r \in Ranks |->
                    IF cmd = "ACT" /\ r \in Prefixes(path)
                      THEN d.acts[r] \cup {0} ELSE d.acts[r]],
       age   |-> [b \in Banks |->
                    IF (open[b] = {}) # (d.open[b] = {}) THEN 0 ELSE d.age[b]]]

----------------------------------------------------------------------------
(* What the controller asks the device.                                    *)

\* Mutant of Checked: only the addressed node is asked.
CheckedLeaf(cmd, path) == IF cmd \in ChannelScope THEN {<<>>} ELSE {path}

\* Nodes check_ready looks at: down to the scope of the command or to the end
\* of the address.
Checked(cmd, path) == IF cmd \in ChannelScope THEN {<<>>} ELSE Prefixes(path)

CheckReady(d, cmd, path) ==
  /\ \A n \in Checked(cmd, path) : \A k \in Before[Len(n)][cmd] :
       d.since[<<n, k.prev>>] >= k.lat
  /\ cmd = "ACT" => \A r \in Ranks \cap Prefixes(path) :
                      Cardinality(d.acts[r]) < 4

\* The order in which lambdas/preq.h visits the banks of a channel.
BankIndex(b) == ((b[1] * NumRank + b[2]) * NumBG + b[3]) * NumBank + b[4]

\* RequireRowOpen and its all-bank, same-bank and per-bank forms: the first
\* bank that lacks the row decides between opening and closing.
RequireRowOpen(d, cmd, banks, row, act, pre) ==
  LET missing == { b \in banks : row \notin d.open[b] }
      first   == CHOOSE b \in missing :
                   \A o \in missing : BankIndex(b) <= BankIndex(o)
  IN  IF missing = {} THEN cmd
      ELSE IF d.open[first] = {} THEN act ELSE pre

GetPreqCommand(d, cmd, path, row) ==
  CASE cmd \in {"RD", "WR"} -> RequireRowOpen(d, cmd, {path}, row, "ACT", "PRE")
    [] cmd = "MACAB" -> RequireRowOpen(d, cmd, Banks, row, "ACTAB", "PREA")
    [] cmd = "MACSB" -> RequireRowOpen(d, cmd, SameBank(path), row, "ACTSB", "PRESB")
    [] cmd = "MACPB" -> RequireRowOpen(d, cmd, OtherPCs(path), row, "ACTPB", "PREPB")
    [] cmd = "REFab" -> IF \A b \in Banks : d.open[b] = {} THEN cmd ELSE "PREA"
    [] OTHER         -> cmd

CheckRowbufferHit(d, cmd, path, row) == cmd \in Access /\ row \in d.open[path]

ReadLatency == T.nCL + T.nBL
=============================================================================

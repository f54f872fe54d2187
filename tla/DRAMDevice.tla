----------------------------- MODULE DRAMDevice -----------------------------
(***************************************************************************)
(* A DRAM device of any of the standards of DRAMStandards on the node tree *)
(* of dram/node.h, driven by whoever holds requests for it: in a cycle the *)
(* next command of any request may be issued once it is ready.             *)
(*                                                                         *)
(* A node is the path that leads to it, <<>> the channel.  The address of  *)
(* a refresh is a shorter path (the rest of its address vector is -1).     *)
(***************************************************************************)
EXTENDS DRAMStandards, FiniteSets, SequencesExt

CONSTANTS
  Organizations,   \* pairs of a standard and the sizes of its levels below the channel
  Refreshed,   \* the standards whose refresh manager sends refreshes
  Rows,
  V,           \* the timing values, by name
  Idle         \* ages stop here

VARIABLES
  std,         \* the standard of the device
  shape,       \* its m_organization.count, from the level below the channel
  wait,        \* node -> command -> cycles until m_cmd_ready_clk
  activates,        \* node -> ages of the activations the window counts
  bank,        \* bank -> m_state and m_row_state
  sync,        \* rank -> cycles until m_final_synced_cycle (LPDDR5)
  age,         \* bank -> cycles since it last opened or closed
  refreshed,   \* bank -> cycles since it was last refreshed
  bursts       \* the data bursts under way or to come

vars == <<std, shape, wait, activates, bank, sync, age, refreshed, bursts>>

----------------------------------------------------------------------------
(* The tables of the chosen standard, worked out once.                     *)

TimingNames ==
  {"nBL", "nCL", "nCWL", "nRCD", "nRCDRD", "nRCDWR", "nRP", "nRPab", "nRAS", "nRC", "nWR",
   "nRTP", "nRTPS", "nRTPL", "nCCDS", "nCCDL", "nRRDS", "nRRDL", "nWTRS", "nWTRL", "nFAW",
   "nCS", "nRFC", "nVRR", "nCCDSWR", "nCCDSWTR", "nCCDLWR", "nCCDLWTR"}

Timing == [s \in DOMAIN Commands |-> Timings(s, V)]

Cmds(s) == DOMAIN Commands[s].scope
Depth(s) == Len(Commands[s].levels) - 1

Longest(lats) == CHOOSE m \in lats : \A l \in lats : l <= m

\* How long an issue of prev makes next wait, at a node of a level on its path
\* or, as a sibling, beside it.
Latency ==
  [s \in DOMAIN Commands |-> [level \in 0 .. Depth(s) |-> [beside \in BOOLEAN |->
    [prev \in Cmds(s) |-> [next \in Cmds(s) |->
      Longest({0} \cup { k.lat : k \in { t \in Timing[s] :
        /\ t.level = level /\ t.sibling = beside /\ t.window = 1
        /\ t.prev = prev /\ t.next = next } })]]]]]

\* The nodes of an organization, and its banks.
Shapes == { o[2] : o \in Organizations }
PathsTo(counts) == { p \in UNION { [1 .. n -> 0 .. 1] : n \in 0 .. Len(counts) } :
                       \A i \in DOMAIN p : p[i] < counts[i] }
NodesOf == [c \in Shapes |-> PathsTo(c)]
BanksOf == [c \in Shapes |-> { n \in PathsTo(c) : Len(n) = Len(c) }]
Nodes == NodesOf[shape]
Banks == BanksOf[shape]

ASSUME DRAMDeviceAssumption ==
  /\ V \in [TimingNames -> Nat]
  /\ \A o \in Organizations : o[1] \in DOMAIN Commands /\ o[2] \in [1 .. Depth(o[1]) -> {1, 2}]
  /\ Idle \in Nat
  /\ {V.nRP, V.nRAS, V.nRFC} \subseteq 0 .. Idle

Below(node) == { b \in Banks : IsPrefix(node, b) }
WindowLevel == [s \in DOMAIN Commands |->
                  CHOOSE l \in 0 .. 2 : \E k \in Timing[s] : k.level = l /\ k.window > 1]
WindowSize == [s \in DOMAIN Commands |->
                 CHOOSE w \in 2 .. 5 : \E k \in Timing[s] : k.window = w]
----------------------------------------------------------------------------

Closed == [state |-> "Closed", rows |-> {}]

Init ==
  /\ \E o \in Organizations : std = o[1] /\ shape = o[2]
  /\ wait = [n \in Nodes |-> [c \in Cmds(std) |-> 0]]
  /\ activates = [n \in Nodes |-> {}]
  /\ bank = [b \in Banks |-> Closed]
  /\ sync = [n \in Nodes |-> -1]
  /\ age = [b \in Banks |-> Idle]
  /\ refreshed = [b \in Banks |-> Idle]
  /\ bursts = {}

----------------------------------------------------------------------------
(* What a controller asks the device.                                      *)

AllClosed(node) == \A b \in Below(node) : bank[b].state = "Closed"

\* RequireRowOpen and, for LPDDR5, its two-step form that also asks for the
\* clocks to be in step.
RowPreq(cmd, b, row) ==
  CASE bank[b].state = "Closed"    -> "ACT"
    [] bank[b].state = "PreOpened" -> "ACT2"
    [] OTHER -> IF row \notin bank[b].rows THEN "PRE"
                ELSE IF Rules[std].twoStep /\ sync[SubSeq(b, 1, 1)] < 0
                  THEN IF cmd = "RD" THEN "CASRD" ELSE "CASWR"
                ELSE cmd

GetPreqCommand(cmd, path, row) ==
  LET rules == Rules[std]
  IN  CASE cmd = "REFab" ->
             IF AllClosed(SubSeq(path, 1, rules.all)) THEN cmd ELSE "PREA"
        [] cmd \in rules.needRow    -> RowPreq(cmd, path, row)
        [] cmd \in rules.needClosed ->
             IF bank[path].state = "Closed" THEN cmd ELSE "PRE"
        [] OTHER -> cmd

\* Mutant of CheckReady: the walk stops above the bank.
CheckReadyAboveBank(cmd, path) ==
  \A n \in Prefixes(path) :
    Len(n) <= Commands[std].scope[cmd] /\ n \notin Banks => wait[n][cmd] = 0

\* Down to the scope of the command or the end of the address.
CheckReady(cmd, path) ==
  LET scope == Commands[std].scope[cmd]
  IN  \A l \in 0 .. IF scope < Len(path) THEN scope ELSE Len(path) :
        wait[SubSeq(path, 1, l)][cmd] = 0

----------------------------------------------------------------------------
(* Issuing a command, and the clock.                                       *)

Larger(a, b) == IF a >= b THEN a ELSE b

\* m_cmd_history: an ACT is as old as the window is long after the (window - 1)
\* younger ones.
UpdateHistory(cmd, path) ==
  [n \in Nodes |->
     IF cmd = "ACT" /\ IsPrefix(n, path) /\ Len(n) = WindowLevel[std]
       THEN activates[n] \cup {0} ELSE activates[n]]

\* How long the window makes the next ACT wait: it counts from the fourth last.
WindowWait(ages) ==
  LET fourth == { a \in ages :
                    Cardinality({ o \in ages : o < a }) = WindowSize[std] - 1 }
  IN  IF fourth = {} THEN 0 ELSE V.nFAW - (CHOOSE a \in fourth : TRUE)

\* update_timing: the whole walk down the address; a sibling of one of its
\* nodes takes the sibling constraints only.
IsBeside(node, path) == node # <<>> /\ IsPrefix(Front(node), path)

\* m_cmd_ready_clk of a node: the latest of what it was and what the issue asks.
Longer(node, cmd, beside, history) ==
  LET window == IF cmd = "ACT" /\ ~beside THEN WindowWait(history) ELSE 0
  IN  [c \in Cmds(std) |->
         Larger(wait[node][c], Larger(Latency[std][Len(node)][beside][cmd][c],
                                      IF c = "ACT" THEN window ELSE 0))]

UpdateTiming(cmd, path, history) ==
  [n \in Nodes |-> IF IsPrefix(n, path) THEN Longer(n, cmd, FALSE, history[n])
                   ELSE IF IsBeside(n, path) THEN Longer(n, cmd, TRUE, history[n])
                   ELSE wait[n]]

\* The banks a command closes.
ClosedBy(cmd, path) ==
  CASE cmd = "PREA"                    -> Below(SubSeq(path, 1, Rules[std].all))
    [] cmd \in Rules[std].closes   -> {path}
    [] OTHER                           -> {}

UpdateStates(cmd, path, row) ==
  [b \in Banks |->
     IF b \in ClosedBy(cmd, path) THEN Closed
     ELSE IF b = path /\ cmd \in {"ACT", "ACT2"}
       THEN [state |-> IF cmd \in Rules[std].opens THEN "Opened" ELSE "PreOpened",
             rows |-> bank[b].rows \cup {row}]
     ELSE bank[b]]

UpdateSync(cmd, path) ==
  [n \in Nodes |-> IF cmd \in Rules[std].sync /\ Len(n) = 1 /\ IsPrefix(n, path)
                     THEN SyncFor[cmd] ELSE sync[n]]

\* The burst of a read or write, first beat `at' cycles from now.
Burst(cmd, path) ==
  CASE cmd \in Reads  -> {[at |-> V.nCL, read |-> TRUE, path |-> path]}
    [] cmd \in Writes -> {[at |-> V.nCWL, read |-> FALSE, path |-> path]}
    [] OTHER          -> {}

\* DRAM::tick: ages and countdowns, one cycle on.
Older(n) == IF n + 1 < Idle THEN n + 1 ELSE Idle

\* The device one cycle after the issue of a command left it with these
\* waiting times, histories, states of the banks and clocks in step.
Clock(waiting, history, banks, inSync) ==
  /\ wait' = [n \in Nodes |-> [c \in Cmds(std) |-> Larger(0, waiting[n][c] - 1)]]
  /\ activates' = [n \in Nodes |-> { a \in 1 .. V.nFAW : a - 1 \in history[n] }]
  /\ bank' = banks
  /\ sync' = [n \in Nodes |-> Larger(-1, inSync[n] - 1)]

\* And what is kept for the properties.
Cycle(waiting, history, banks, inSync, refreshing, burst) ==
  /\ Clock(waiting, history, banks, inSync)
  /\ age' = [b \in Banks |-> IF (bank[b].state = "Closed") # (banks[b].state = "Closed")
                               THEN 0 ELSE Older(age[b])]
  /\ refreshed' = [b \in Banks |-> IF b \in refreshing THEN 0 ELSE Older(refreshed[b])]
  /\ bursts' = { [u EXCEPT !.at = u.at - 1] :
                   u \in { w \in bursts : w.at + V.nBL > 1 } \cup burst }
  /\ UNCHANGED <<std, shape>>

Issue(cmd, path, row) ==
  LET history == UpdateHistory(cmd, path)
      waiting == UpdateTiming(cmd, path, history)
  IN  Cycle(waiting, history, UpdateStates(cmd, path, row), UpdateSync(cmd, path),
            IF cmd = "REFab" THEN Below(path) ELSE {}, Burst(cmd, path))

\* The paths a request of a type is addressed to: a refresh names its rank (or
\* pseudo channel), all other requests a bank.
Targets(type) ==
  IF type # "Refresh" THEN Banks
  ELSE IF std \in Refreshed THEN { n \in Nodes : Len(n) = 1 } ELSE {}

NextCommand(type, path, row) ==
  GetPreqCommand(Commands[std].requests[type], path, row)

Request(type) ==
  \E path \in Targets(type), row \in Rows :
    LET cmd == NextCommand(type, path, row)
    IN  CheckReady(cmd, path) /\ Issue(cmd, path, row)

Read    == Request("Read")
Write   == Request("Write")
Refresh == Request("Refresh")
VictimRefresh == std = "DDR4_VRR" /\ Request("VictimRefresh")

\* A cycle without a command: no read or write can make a step.
Tick ==
  /\ ~ \E type \in {"Read", "Write"}, path \in Banks, row \in Rows :
         CheckReady(NextCommand(type, path, row), path)
  /\ Cycle(wait, activates, bank, sync, {}, {})

Next == Read \/ Write \/ Refresh \/ VictimRefresh \/ Tick

Spec == Init /\ [][Next]_vars
=============================================================================

-------------------------- MODULE GenericController --------------------------
(***************************************************************************)
(* The "Generic" and "HBM3" memory controllers with the FRFCFS scheduler   *)
(* and the all-bank refresh managers, on a device of DRAMDevice.  The HBM3 *)
(* controller issues a second command in a cycle if one of the two is a    *)
(* row and the other a column command.                                     *)
(***************************************************************************)
EXTENDS DRAMDevice

CONSTANTS
  Dual,          \* the standards that are driven by the HBM3 controller
  Menu,          \* by standard, the requests the memory system may send:
                 \* [type, path, row, col]
  MaxRequests,   \* bound: requests sent
  MaxRefreshes,  \* bound: refresh intervals that end
  BufSize,       \* max_size of the read, write and active buffers
  ReadLatency        \* m_read_latency

VARIABLES
  ctl,    \* the controller
  phase   \* "first" or "second" command of a cycle

allvars == <<vars, ctl, phase>>

ASSUME GenericControllerAssumption ==
  /\ Dual \subseteq DOMAIN Commands
  /\ BufSize \in Nat /\ ReadLatency \in Nat /\ MaxRequests \in Nat /\ MaxRefreshes \in Nat
  /\ \A o \in Organizations :
       Menu[o[1]] \subseteq [type : {"Read", "Write"}, path : BanksOf[o[2]], row : Rows, col : Nat]

Buffers == {"active", "priority", "read", "write"}

InitController ==
  [ buf       |-> [b \in Buffers |-> <<>>],
    pending   |-> <<>>,    \* reads that are about to finish
    writeMode |-> FALSE,   \* m_is_write_mode
    sent      |-> 0,       \* requests accepted: the last one's id
    cycle     |-> 0,       \* arrive of a request sent now, as far as it is compared
    done      |-> {},      \* ids of the requests that are over
    lost      |-> {},      \* ids of those the active buffer did not take
    refreshes |-> 0,       \* refresh intervals that have ended
    issued    |-> "none" ] \* the command schedule_sec_request is given

----------------------------------------------------------------------------
(* send                                                                    *)

SameAddress(r, s) == r.path = s.path /\ r.row = s.row /\ r.col = s.col

Holds(b, m) == \E i \in DOMAIN ctl.buf[b] : SameAddress(ctl.buf[b][i], m)

\* A read of an address in the write buffer departs in the next cycle.
Forwards(m) == m.type = "Read" /\ Holds("write", m)

BufferOf(m) == IF m.type = "Read" THEN "read" ELSE "write"

Send(m) ==
  LET id == ctl.sent + 1
      r  == [id |-> id, type |-> m.type, path |-> m.path, row |-> m.row, col |-> m.col,
             arrive |-> ctl.cycle]
  IN  /\ phase = "first" /\ ctl.sent < MaxRequests
      /\ \/ /\ Forwards(m)
            /\ ctl' = [ctl EXCEPT !.sent = id, !.pending = Append(@, [id |-> id, wait |-> 1])]
         \/ /\ ~Forwards(m) /\ Len(ctl.buf[BufferOf(m)]) <= BufSize
            /\ ctl' = [ctl EXCEPT !.sent = id, !.buf[BufferOf(m)] = Append(@, r)]
      /\ UNCHANGED <<vars, phase>>

----------------------------------------------------------------------------
(* FRFCFS::get_best_request                                                *)

CommandFor(r) == NextCommand(r.type, r.path, r.row)

IsHit(r) == CommandFor(r) \in {"RD", "WR"}
IsReady(r) == CheckReady(CommandFor(r), r.path)

\* A row conflict does not take a bank from a row hit.
Takes(queue, r) ==
  IsHit(r) \/ ~\E i \in DOMAIN queue : IsHit(queue[i]) /\ queue[i].path = r.path

\* compare: is the candidate kept against the next request?
Keeps(queue, best, r) ==
  IF IsReady(best) # IsReady(r) THEN IsReady(best) \/ ~Takes(queue, r)
  ELSE best.arrive <= r.arrive

\* The requests of a queue from its front: the candidate after n of them.
Best(queue) ==
  LET best[n \in 1 .. Len(queue)] ==
        IF n = 1 THEN 1
        ELSE IF Keeps(queue, queue[best[n - 1]], queue[n]) THEN best[n - 1] ELSE n
  IN  best[Len(queue)]

----------------------------------------------------------------------------
(* The beginning of a tick.                                                *)

\* serve_completed_reads: the first pending read only.
ServeCompletedReads(c) ==
  LET aged == [i \in DOMAIN c.pending |-> [c.pending[i] EXCEPT !.wait = Larger(0, @ - 1)]]
  IN  IF aged # <<>> /\ aged[1].wait = 0
      THEN [c EXCEPT !.pending = Tail(aged), !.done = @ \cup {aged[1].id}]
      ELSE [c EXCEPT !.pending = aged]

\* AllBank and AllBankHBM3: a request for every rank, or pseudo channel.
RefreshRequest(node) == [id |-> 0, type |-> "Refresh", path |-> node, row |-> 0, col |-> 0, arrive |-> 0]

RefreshTick(c) ==
  LET ranks == IF std \in Refreshed THEN shape[1] ELSE 0
  IN  {c} \cup IF c.refreshes = MaxRefreshes THEN {}
               ELSE { [c EXCEPT !.refreshes = @ + 1,
                                !.buf["priority"] = @ \o [i \in 1 .. ranks |-> RefreshRequest(<<i - 1>>)]] }

\* Mutant of WriteMode: only the high watermark starts the writes.
WriteModeOnWatermark(c) ==
  LET writes == Len(c.buf["write"])
      reads  == Len(c.buf["read"])
  IN  IF c.writeMode THEN ~(5 * writes < BufSize /\ reads # 0) ELSE 5 * writes > 4 * BufSize

\* set_write_mode, with the default watermarks of 0.2 and 0.8.
WriteMode(c) ==
  LET writes == Len(c.buf["write"])
      reads  == Len(c.buf["read"])
  IN  IF c.writeMode THEN ~(5 * writes < BufSize /\ reads # 0)
      ELSE 5 * writes > 4 * BufSize \/ reads = 0

----------------------------------------------------------------------------
(* schedule_request and schedule_sec_request: the controller afterwards,   *)
(* the buffer and index of the request (0: none), and whether it is found, *)
(* as a set of one such pick.                                              *)

RowCommands == {"ACT", "PRE", "PREA", "REFab"}
ColCommands == {"RD", "WR", "RDA", "WRA"}

\* compare_command_type.  Of the first command, everything may be found.
Differs(first, cmd) ==
  \/ first = "any"
  \/ first \in RowCommands /\ cmd \in ColCommands
  \/ first \in ColCommands /\ cmd \in RowCommands

Pick(c, b, i, first) ==
  LET cmd == CommandFor(c.buf[b][i])
  IN  [ctl |-> c, from |-> b, at |-> i, cmd |-> cmd,
       found |-> Differs(first, cmd) /\ CheckReady(cmd, c.buf[b][i].path)]

\* The iterator is the end of an empty buffer: its command is no command's.
NoPick(c) == [ctl |-> c, from |-> "read", at |-> 0, cmd |-> "none", found |-> FALSE]

PickBest(c, b, first) ==
  IF c.buf[b] = <<>> THEN {NoPick(c)}
  ELSE { Pick(c, b, best, first) : best \in {Best(c.buf[b])} }

PickMemory(c, first) ==
  UNION { PickBest(moded, IF moded.writeMode THEN "write" ELSE "read", first) :
            moded \in {[c EXCEPT !.writeMode = WriteMode(c)]} }

\* A request of the priority buffer that is not ready holds all others up,
\* unless it is of the wrong type for a second command.
PickUrgent(c, first) ==
  IF c.buf["priority"] = <<>> THEN PickMemory(c, first)
  ELSE UNION { IF p.found \/ Differs(first, p.cmd) THEN {p} ELSE PickMemory(c, first) :
                 p \in {Pick(c, "priority", 1, first)} }

\* Mutant of Interrupts: an active request does not keep its row.
InterruptsNever(p) == FALSE

\* A closing command addressed to the bank of an active request is given up.
Interrupts(p) ==
  /\ p.cmd \in {"PRE", "PREA", "RDA", "WRA"}
  /\ \E i \in DOMAIN p.ctl.buf["active"] :
       p.ctl.buf["active"][i].path = p.ctl.buf[p.from][p.at].path

Schedule(c, first) ==
  { [pick EXCEPT !.found = @ /\ ~Interrupts(pick)] :
      pick \in UNION { IF active.found THEN {active} ELSE PickUrgent(c, first) :
                         active \in PickBest(c, "active", first) } }

----------------------------------------------------------------------------
(* Issuing the command that was found.                                     *)

Chosen(p) == p.ctl.buf[p.from][p.at]
Finishes(p) == p.found /\ p.cmd = Commands[std].requests[Chosen(p).type]
Activates(p) == p.found /\ p.cmd = "ACT"

Finish(c, r) ==
  CASE r.type = "Read"  -> [c EXCEPT !.pending = Append(@, [id |-> r.id, wait |-> ReadLatency])]
    [] r.type = "Write" -> [c EXCEPT !.done = @ \cup {r.id}]
    [] OTHER            -> c

\* enqueue, whose result is not looked at.
Activate(c, r) ==
  IF Len(c.buf["active"]) <= BufSize THEN [c EXCEPT !.buf["active"] = Append(@, r)]
  ELSE [c EXCEPT !.lost = @ \cup {r.id}]

Removed(c, p) == [c EXCEPT !.buf[p.from] = RemoveAt(@, p.at)]

\* Mutant of AfterIssue: an activated request stays where it was.
AfterIssueCopying(p) ==
  IF Finishes(p) THEN Removed(Finish(p.ctl, Chosen(p)), p)
  ELSE IF Activates(p) THEN Activate(p.ctl, Chosen(p))
  ELSE p.ctl

AfterIssue(p) ==
  IF Finishes(p) THEN Removed(Finish(p.ctl, Chosen(p)), p)
  ELSE IF Activates(p) THEN Removed(Activate(p.ctl, Chosen(p)), p)
  ELSE p.ctl

\* The device in the cycle of a command, before its clock goes on.
IssueNow(cmd, path, row) ==
  LET history == UpdateHistory(cmd, path)
  IN  /\ wait' = UpdateTiming(cmd, path, history)
      /\ activates' = history
      /\ bank' = UpdateStates(cmd, path, row)
      /\ sync' = UpdateSync(cmd, path)

\* The command goes to the device, and after the last one of a cycle the clock
\* goes on.  What the device keeps for its own properties is left out.
OnDevice(p, last) ==
  LET r == Chosen(p)
      history == UpdateHistory(p.cmd, r.path)
  IN  /\ \/ ~p.found /\ ~last /\ UNCHANGED <<wait, activates, bank, sync>>
         \/ p.found /\ ~last /\ IssueNow(p.cmd, r.path, r.row)
         \/ ~p.found /\ last /\ Clock(wait, activates, bank, sync)
         \/ /\ p.found /\ last
            /\ Clock(UpdateTiming(p.cmd, r.path, history), history,
                     UpdateStates(p.cmd, r.path, r.row), UpdateSync(p.cmd, r.path))
      /\ UNCHANGED <<std, shape, age, refreshed, bursts>>

\* The cycle count goes on when a request of this cycle is there to compare.
NextCycle(c) ==
  IF \E b \in Buffers : \E i \in DOMAIN c.buf[b] : c.buf[b][i].arrive = c.cycle
  THEN [c EXCEPT !.cycle = @ + 1] ELSE c

\* What schedule_sec_request is given as the first command: that of the request
\* the iterator names, issued or not.  If the request was removed, its memory
\* is free, and still holds the command unless something else took it.
SecondMayFollow(p) ==
  IF Finishes(p) \/ Activates(p) THEN {p.cmd, "none"} ELSE {p.cmd}

TickController ==
  /\ phase = "first"
  /\ \E c \in RefreshTick(NextCycle(ServeCompletedReads(ctl))) :
     \E p \in Schedule(c, "any") :
       /\ OnDevice(p, std \notin Dual)
       /\ \/ /\ std \notin Dual
             /\ ctl' = AfterIssue(p)
             /\ UNCHANGED phase
          \/ /\ std \in Dual
             /\ \E first \in SecondMayFollow(p) : ctl' = [AfterIssue(p) EXCEPT !.issued = first]
             /\ phase' = "second"

SecondCommand ==
  /\ phase = "second"
  /\ \E p \in Schedule(ctl, ctl.issued) :
       OnDevice(p, TRUE) /\ ctl' = [AfterIssue(p) EXCEPT !.issued = "none"]
  /\ phase' = "first"

InitAll == Init /\ ctl = InitController /\ phase = "first"

Cycles == TickController \/ SecondCommand

NextAll == (\E m \in Menu[std] : Send(m)) \/ Cycles

ControllerSpec == InitAll /\ [][NextAll]_allvars

\* The main loop never stops ticking the memory system.
FairControllerSpec == ControllerSpec /\ WF_allvars(Cycles)
=============================================================================

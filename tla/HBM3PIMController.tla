------------------------- MODULE HBM3PIMController -------------------------
(***************************************************************************)
(* The HBM3-PIM memory controller of one channel, its refresh manager and  *)
(* its device (dram_controller/impl/hbm3_pim_controller.cpp).              *)
(*                                                                         *)
(* Send is one call of send() by the memory system; Tick is one whole call *)
(* of tick(): the device clock, the completed reads, the refresh manager,  *)
(* schedule_request and the command it issues, schedule_sec_request and    *)
(* the command that one issues.                                            *)
(***************************************************************************)
EXTENDS PIMScheduler

CONSTANTS
  Menu,          \* what a front end may ask for: [type, path, row, col]
  MaxRequests,   \* bound: the number of requests a behaviour sends
  BufSize,       \* max_size of the read, write and pim buffers
  ActiveSize,    \* max_size of the active buffer
  PrioritySize,  \* max_size of the priority buffer
  Refreshing     \* AllBankHBM3 refresh manager (TRUE) or NoRefresh (FALSE)

VARIABLES dev, ctl

vars == <<dev, ctl>>

Cols == { m.col : m \in Menu }

ASSUME ControllerAssumption ==
  /\ Menu \subseteq [type : MemTypes \cup PIMTypes, path : Banks,
                     row : Rows, col : Cols]
  /\ MaxRequests \in Nat /\ BufSize \in Nat
  /\ ActiveSize \in Nat /\ PrioritySize \in Nat
  /\ Refreshing \in BOOLEAN
  /\ T.nREFI \in Nat \ {0}
  /\ T.nCL \in Nat /\ T.nBL \in Nat

----------------------------------------------------------------------------
(* Requests carry the number of their acceptance as id.  arrive (m_clk at  *)
(* send) is only ever compared, so it is abstracted to the id of the first *)
(* request that arrived in the same cycle.                                 *)

Requests == [id : Nat, type : MemTypes \cup PIMTypes, path : Banks,
             row : Rows, col : Cols, arrive : Nat]

RefreshRequest(pc) == [id |-> 0, type |-> "REF", path |-> <<pc>>,
                       row |-> -1, col |-> 0, arrive |-> 0]

Refreshes == { RefreshRequest(pc) : pc \in 0 .. NumPC - 1 }

QueueBuffers == {"active", "read", "write", "pim"}
Buffers == QueueBuffers \cup {"priority"}

\* pending: reads whose data is on the way, each with the cycles left to its
\* depart clock.  fwd marks a read answered from the write buffer.
Departures == [id : Nat, wait : Nat, fwd : BOOLEAN]

\* done and lost are history: the requests that finished, and those dropped.
Controllers ==
  [buf : [Buffers -> Seq(Requests \cup Refreshes)],
   pending : Seq(Departures),
   writeMode : BOOLEAN, isPim : BOOLEAN,
   refi : Nat,            \* cycles to m_next_refresh_cycle
   sent : Nat,            \* requests accepted so far
   stamp : Nat,           \* arrive of this cycle's requests; 0: none yet
   done : SUBSET Nat, lost : SUBSET Nat,
   failed : BOOLEAN]      \* a refresh could not be queued: runtime_error

InitController ==
  [buf |-> [b \in Buffers |-> <<>>], pending |-> <<>>,
   writeMode |-> FALSE, isPim |-> FALSE, refi |-> T.nREFI,
   sent |-> 0, stamp |-> 0, done |-> {}, lost |-> {}, failed |-> FALSE]

----------------------------------------------------------------------------
(* send()                                                                  *)

BufferOf(type) == CASE type = "Read"  -> "read"
                    [] type = "Write" -> "write"
                    [] OTHER          -> "pim"

SameAddr(r, m) == r.path = m.path /\ r.row = m.row /\ r.col = m.col

\* A read of an address that is waiting in the write buffer.
Forwards(c, m) == /\ m.type = "Read"
                  /\ \E i \in DOMAIN c.buf["write"] : SameAddr(c.buf["write"][i], m)

Forward(c) ==
  [c EXCEPT !.pending = Append(@, [id |-> c.sent + 1, wait |-> 1, fwd |-> TRUE]),
            !.sent = @ + 1]

Enqueue(c, m) ==
  LET now == IF c.stamp = 0 THEN c.sent + 1 ELSE c.stamp
      r   == [id |-> c.sent + 1, type |-> m.type, path |-> m.path,
              row |-> m.row, col |-> m.col, arrive |-> now]
  IN  [c EXCEPT !.buf[BufferOf(m.type)] = Append(@, r),
                !.sent = @ + 1, !.stamp = now]

\* ReqBuffer::enqueue compares before it appends: max_size + 1 entries fit.
HasRoom(c, m) == Len(c.buf[BufferOf(m.type)]) <= BufSize

Accepts(c, m) == Forwards(c, m) \/ HasRoom(c, m)

Accepted(c, m) == IF Forwards(c, m) THEN Forward(c) ELSE Enqueue(c, m)

----------------------------------------------------------------------------
(* The parts of tick() before scheduling.                                  *)

\* Mutant of TickClock: a read that is overdue counts down below zero.
TickClockUnclamped(c) ==
  [c EXCEPT !.stamp = 0,
            !.pending = [i \in DOMAIN c.pending |->
                          [c.pending[i] EXCEPT !.wait = @ - 1]]]

TickClock(c) ==
  [c EXCEPT !.stamp = 0,
            !.pending = [i \in DOMAIN c.pending |->
                          [c.pending[i] EXCEPT !.wait = IF @ > 0 THEN @ - 1 ELSE 0]]]

\* Mutant of ServeCompletedReads: the read is dropped without its callback.
ServeWithoutCallback(c) ==
  IF c.pending # <<>> /\ c.pending[1].wait = 0
    THEN [c EXCEPT !.pending = Tail(@)] ELSE c

\* serve_completed_reads: the first pending read only.
ServeCompletedReads(c) ==
  IF c.pending # <<>> /\ c.pending[1].wait = 0
    THEN [c EXCEPT !.pending = Tail(@), !.done = @ \cup {c.pending[1].id}]
    ELSE c

\* Mutant of RefreshTick: m_next_refresh_cycle is not advanced.
RefreshTickWithoutReset(c) ==
  IF ~Refreshing THEN c
  ELSE IF c.refi > 1 THEN [c EXCEPT !.refi = @ - 1]
  ELSE IF Len(c.buf["priority"]) + NumPC - 1 <= PrioritySize
    THEN [c EXCEPT !.buf["priority"] =
                      @ \o [i \in 1 .. NumPC |-> RefreshRequest(i - 1)]]
    ELSE [c EXCEPT !.failed = TRUE]

\* AllBankHBM3 refresh: one request for each pseudo channel every nREFI.
RefreshTick(c) ==
  IF ~Refreshing THEN c
  ELSE IF c.refi > 1 THEN [c EXCEPT !.refi = @ - 1]
  ELSE IF Len(c.buf["priority"]) + NumPC - 1 <= PrioritySize
    THEN [c EXCEPT !.refi = T.nREFI,
                   !.buf["priority"] =
                      @ \o [i \in 1 .. NumPC |-> RefreshRequest(i - 1)]]
    ELSE [c EXCEPT !.failed = TRUE]

----------------------------------------------------------------------------
(* schedule_request and schedule_sec_request.  The second is the first     *)
(* restricted to commands of the other type than the command of the first; *)
(* schedule_request is schedule_sec_request after "any" command.           *)

RowCommands == Opening \cup {"PRE", "PREA", "REFab"}
ColCommands == Access \cup Moves \cup {"SETM", "SETH"}

\* compare_command_type: get_command_type knows neither PRESB, PREPB nor
\* BARRIER, and nothing goes together with a command it does not know.
Differs(first, cmd) == \/ first = "any"
                       \/ first \in RowCommands /\ cmd \in ColCommands
                       \/ first \in ColCommands /\ cmd \in RowCommands

\* What scheduling leaves behind: the controller, the iterator (at = 0 for
\* end()) with its buffer, the command of that request, and request_found.
PickWith(d, c, b, i, cmd, first) ==
  [ctl |-> c, from |-> b, at |-> i, cmd |-> cmd,
   found |-> Differs(first, cmd) /\ CheckReady(d, cmd, c.buf[b][i].path)]

Pick(d, c, b, i, first) ==
  PickWith(d, c, b, i, CommandOf(d, c.buf[b][i]), first)

\* end() of an empty buffer.  tick() reads command from it all the same: those
\* bytes are the max_size of the ReqBuffer declared next, a number no command
\* has.
NoPick(c) == [ctl |-> c, from |-> "read", at |-> 0, cmd |-> "none",
              found |-> FALSE]

Picks(d, c, b, first) ==
  { Pick(d, c, b, i, first) : i \in BestRequest(d, c.buf[b]) }

\* Mutant of SetWriteMode: an empty read buffer does not start write mode.
SetWriteModeOnWatermark(c) ==
  LET writes == Len(c.buf["write"])
      idle   == c.buf["read"] = <<>>
  IN  [c EXCEPT !.writeMode =
         IF @ THEN ~(5 * writes < BufSize /\ ~idle)
              ELSE 5 * writes > 4 * BufSize]

\* set_write_mode with the default watermarks of 0.2 and 0.8.
SetWriteMode(c) ==
  LET writes == Len(c.buf["write"])
      idle   == c.buf["read"] = <<>>
  IN  [c EXCEPT !.writeMode =
         IF @ THEN ~(5 * writes < BufSize /\ ~idle)
              ELSE 5 * writes > 4 * BufSize \/ idle]

\* The next buffers are only looked at when this one has nothing.
OrElse(picks, others) == IF picks = {} THEN others ELSE picks

Found(picks) == { p \in picks : p.found }

ScheduleMemory(d, c, first) ==
  LET c1 == SetWriteMode(c)
  IN  OrElse(Picks(d, c1, IF c1.writeMode THEN "write" ELSE "read", first),
             {NoPick(c1)})

WithoutBarrier(c) ==
  [c EXCEPT !.buf["pim"] = DropBarrier(@),
            !.done = IF c.buf["pim"] = DropBarrier(c.buf["pim"])
                       THEN @ ELSE @ \cup {c.buf["pim"][1].id}]

\* Mutant of SchedulePIM: is_pim is not set.
SchedulePIMUnmarked(d, c, first) ==
  OrElse(Found(Picks(d, WithoutBarrier(c), "pim", first)),
         ScheduleMemory(d, WithoutBarrier(c), first))

SchedulePIM(d, c, first) ==
  OrElse({ [p EXCEPT !.ctl.isPim = TRUE] :
             p \in Found(Picks(d, WithoutBarrier(c), "pim", first)) },
         ScheduleMemory(d, WithoutBarrier(c), first))

\* The priority buffer's pick: "return false" if its command must wait.
UrgentPicks(p, first) ==
  IF p.found THEN {[p EXCEPT !.ctl.isPim = FALSE]}
  ELSE IF Differs(first, p.cmd) THEN {p} ELSE {}

SchedulePriority(d, c, first) ==
  OrElse(IF c.buf["priority"] = <<>> THEN {}
           ELSE UrgentPicks(Pick(d, c, "priority", 1, first), first),
         SchedulePIM(d, [c EXCEPT !.isPim = FALSE], first))

\* Mutant of Interrupts: step 2.3 is missing.
NeverInterrupts(p) == FALSE

\* 2.3 and 5.3: a closing command addressed to the bank of an active request.
Interrupts(p) ==
  /\ p.cmd \in Closing
  /\ \E i \in DOMAIN p.ctl.buf["active"] :
       p.ctl.buf["active"][i].path = p.ctl.buf[p.from][p.at].path

Schedule(d, c, first) ==
  { [p EXCEPT !.found = @ /\ ~Interrupts(p)] :
      p \in OrElse(Found(Picks(d, c, "active", first)),
                   SchedulePriority(d, c, first)) }

----------------------------------------------------------------------------
(* Issuing the command of a pick.                                          *)

Chosen(p) == p.ctl.buf[p.from][p.at]

Finishes(p) == p.found /\ p.cmd = FinalCommand[Chosen(p).type]

Activates(p) == /\ p.found /\ ~Finishes(p)
                /\ p.cmd \in Opening /\ ~p.ctl.isPim

Erase(c, p) == [c EXCEPT !.buf[p.from] = RemoveAt(@, p.at)]

\* The last command of a request: a read waits for its data, a refresh and
\* the others are over.
Finish(c, p) ==
  LET r == Chosen(p) IN
  CASE r.type = "Read" ->
         [c EXCEPT !.pending =
            Append(@, [id |-> r.id, wait |-> ReadLatency, fwd |-> FALSE])]
    [] r.type = "REF" -> c
    [] OTHER -> [c EXCEPT !.done = @ \cup {r.id}]

\* Mutant of Activate: enqueue takes max_size requests, not max_size + 1.
ActivateBelowSize(c, p) ==
  IF Len(c.buf["active"]) < ActiveSize
    THEN [c EXCEPT !.buf["active"] = Append(@, Chosen(p))]
    ELSE [c EXCEPT !.lost = @ \cup {Chosen(p).id}]

\* The request moves to the active buffer; if that is full, enqueue fails
\* unnoticed and the request is gone.
Activate(c, p) ==
  IF Len(c.buf["active"]) <= ActiveSize
    THEN [c EXCEPT !.buf["active"] = Append(@, Chosen(p))]
    ELSE [c EXCEPT !.lost = @ \cup {Chosen(p).id}]

Issue(d, p) ==
  IF p.found THEN IssueCommand(d, p.cmd, Chosen(p).path, Chosen(p).row) ELSE d

\* Mutant of AfterIssue: the activated request stays in its buffer.
AfterIssueCopying(p) ==
  IF Finishes(p) THEN Erase(Finish(p.ctl, p), p)
  ELSE IF Activates(p) THEN Activate(p.ctl, p)
  ELSE p.ctl

AfterIssue(p) ==
  IF Finishes(p) THEN Erase(Finish(p.ctl, p), p)
  ELSE IF Activates(p) THEN Erase(Activate(p.ctl, p), p)
  ELSE p.ctl

\* req_it->command, read after the request may have been removed: the freed
\* list node still holds the value unless something else has claimed it.
FirstCommands(p) ==
  IF Finishes(p) \/ Activates(p) THEN {p.cmd, "none"} ELSE {p.cmd}

----------------------------------------------------------------------------
Init == dev = InitDevice /\ ctl = InitController

\* send(): a rejected request changes nothing and the sender keeps it.
Send(m) ==
  /\ ~ctl.failed
  /\ ctl.sent < MaxRequests
  /\ Accepts(ctl, m)
  /\ ctl' = Accepted(ctl, m)
  /\ UNCHANGED dev

\* What one tick makes of a controller, up to scheduling.
Ticked(c) == RefreshTick(ServeCompletedReads(TickClock(c)))

\* 4 and 5: both scheduling rounds and their commands.
Serve(d, c) ==
  \E p \in Schedule(d, c, "any") : \E first \in FirstCommands(p) :
    \E q \in Schedule(Issue(d, p), AfterIssue(p), first) :
      /\ dev' = Issue(Issue(d, p), q)
      /\ ctl' = AfterIssue(q)

\* An exception of the refresh manager ends the program.
Throw(d, c) == dev' = d /\ ctl' = c

Tick == /\ ~ctl.failed
        /\ LET d == TickDevice(dev)
               c == Ticked(ctl)
           IN  IF c.failed THEN Throw(d, c) ELSE Serve(d, c)

Next == Tick \/ \E m \in Menu : Send(m)

Spec == Init /\ [][Next]_vars

TypeOK == dev \in Devices /\ ctl \in Controllers
=============================================================================

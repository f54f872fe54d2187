-------------------------- MODULE ControllerProofs --------------------------
(***************************************************************************)
(* Proofs about the HBM3-PIM controller, for every value of the constants: *)
(* types, what each buffer holds, and that every request is handled        *)
(* exactly once.  For the last, each step of the controller adds a new     *)
(* number, takes a number out of a line, or moves one to the end of a      *)
(* line, and each of these keeps a partition.                              *)
(***************************************************************************)
EXTENDS ControllerProperties, ProofLemmas

----------------------------------------------------------------------------
(* The device keeps its type.                                              *)

LEMMA TickDeviceType ==
  ASSUME NEW d \in Devices
  PROVE  TickDevice(d) \in Devices
<1>1. [c \in Clocks |->
         IF \E k \in After[Len(c[1])][c[2]] : d.since[c] + 1 < k.lat
           THEN d.since[c] + 1 ELSE Idle] \in [Clocks -> Nat]
  <2>1. d.since \in [Clocks -> Nat] /\ Idle \in Nat
    BY DeviceAssumption DEF Devices
  <2>2. ASSUME NEW c \in Clocks
        PROVE  d.since[c] + 1 \in Nat
    BY <2>1
  <2>3. QED
    BY <2>1, <2>2, Zenon
<1>2. [r \in Ranks |-> { a \in 1 .. T.nFAW - 1 : a - 1 \in d.acts[r] }]
        \in [Ranks -> SUBSET Nat]
  BY DeviceAssumption DEF Devices
<1>3. [b \in Banks |-> AgeBank(d.age[b])] \in [Banks -> Nat]
  BY DeviceAssumption DEF Devices, AgeBank
<1>4. QED
  BY <1>1, <1>2, <1>3 DEF Devices, TickDevice

LEMMA IssueCommandType ==
  ASSUME NEW d \in Devices, NEW cmd, NEW path, NEW row,
         cmd \in Opening => row \in Rows
  PROVE  IssueCommand(d, cmd, path, row) \in Devices
<1> DEFINE open == UpdateStates(d.open, cmd, path, row)
<1>1. open \in [Banks -> SUBSET Rows]
  BY DEF Devices, UpdateStates
<1>2. [c \in Clocks |-> IF c[2] = cmd /\ c[1] \in Touched(cmd, path)
                          THEN 0 ELSE d.since[c]] \in [Clocks -> Nat]
  BY DEF Devices
<1>3. [r \in Ranks |-> IF cmd = "ACT" /\ r \in Prefixes(path)
                         THEN d.acts[r] \cup {0} ELSE d.acts[r]]
        \in [Ranks -> SUBSET Nat]
  BY DEF Devices
<1>4. [b \in Banks |-> IF (open[b] = {}) # (d.open[b] = {}) THEN 0 ELSE d.age[b]]
        \in [Banks -> Nat]
  BY DEF Devices
<1>5. QED
  BY <1>1, <1>2, <1>3, <1>4 DEF Devices, IssueCommand

----------------------------------------------------------------------------
(* The commands of requests.                                               *)

Held == Requests \cup Refreshes

\* No refresh request ever opens a row: its commands are REFab and PREA.
LEMMA OpeningIsRequest ==
  ASSUME NEW d, NEW r \in Held, CommandOf(d, r) \in Opening
  PROVE  r \in Requests /\ r.type # "REF"
<1>1. ASSUME r.type = "REF" PROVE FALSE
  <2>1. FinalCommand["REF"] = "REFab"
    BY DEF FinalCommand, ReqTypes
  <2>2. CommandOf(d, r) \in {"REFab", "PREA"}
    BY <1>1, <2>1 DEF CommandOf, GetPreqCommand
  <2>3. QED
    BY <2>2 DEF Opening
<1>2. ASSUME r \in Refreshes PROVE r.type = "REF"
  BY <1>2 DEF Refreshes, RefreshRequest
<1>3. QED
  BY <1>1, <1>2 DEF Held

LEMMA BestIsIndex ==
  ASSUME NEW d, NEW buf, NEW i \in BestRequest(d, buf)
  PROVE  i \in DOMAIN buf
<1> DEFINE views == Views(d, buf)
<1>1. DOMAIN views = DOMAIN buf
  BY DEF Views
<1>2. BestRequest(d, buf) = BestOf(views)
  BY DEF BestRequest
<1> HIDE DEF views
<1>3. BestOf(views) \subseteq DOMAIN views
  BY DEF BestOf, Best
<1>4. QED
  BY <1>1, <1>2, <1>3

----------------------------------------------------------------------------
(* The controller keeps its type and the sorts of its buffers.             *)

Good(c) == c \in Controllers /\ Sorted(c)

LEMMA KeptFacts ==
  /\ Kept("active") = MemTypes /\ Kept("pim") = PIMTypes
  /\ Kept("read") = {"Read"} /\ Kept("write") = {"Write"}
  /\ Kept("priority") = {"REF"}
BY DEF Kept

LEMMA GoodBuffer ==
  ASSUME NEW c, Good(c), NEW b \in Buffers
  PROVE  c.buf[b] \in Seq(Held) /\ DOMAIN c.buf[b] = 1 .. Len(c.buf[b])
BY DEF Good, Controllers, Held

LEMMA PutBuffer ==
  ASSUME NEW c, Good(c), NEW b \in Buffers, NEW s \in Seq(Held),
         \A i \in 1 .. Len(s) : s[i].type \in Kept(b)
  PROVE  Good([c EXCEPT !.buf[b] = s])
<1> DEFINE e == [c EXCEPT !.buf[b] = s]
<1>1. e \in Controllers
  BY DEF Good, Controllers, Held
<1>2. Sorted(e)
  BY DEF Good, Controllers, Held, Sorted
<1>3. QED
  BY <1>1, <1>2 DEF Good

LEMMA InitGood == Good(InitController)
<1>1. InitController \in Controllers
  BY ControllerAssumption DEF InitController, Controllers
<1>2. Sorted(InitController)
  BY DEF InitController, Sorted
<1>3. QED
  BY <1>1, <1>2 DEF Good

LEMMA PutPending ==
  ASSUME NEW c \in Controllers, NEW s \in Seq(Departures), NEW n \in Nat
  PROVE  [c EXCEPT !.stamp = n, !.pending = s] \in Controllers
BY DEF Controllers

LEMMA TickClockGood ==
  ASSUME NEW c, Good(c)
  PROVE  Good(TickClock(c))
<1> DEFINE pending == [i \in DOMAIN c.pending |->
                         [c.pending[i] EXCEPT !.wait = IF @ > 0 THEN @ - 1 ELSE 0]]
<1>1. c.pending \in Seq(Departures) /\ DOMAIN c.pending = 1 .. Len(c.pending)
  BY DEF Good, Controllers
<1>2. ASSUME NEW i \in 1 .. Len(c.pending)
      PROVE  [c.pending[i] EXCEPT !.wait = IF @ > 0 THEN @ - 1 ELSE 0] \in Departures
  <2>1. c.pending[i] \in Departures
    BY <1>1
  <2>2. QED
    BY <2>1 DEF Departures
<1>3. pending \in [1 .. Len(c.pending) -> Departures] /\ Len(c.pending) \in Nat
  BY <1>1, <1>2
<1>4. pending \in Seq(Departures)
  <2> HIDE DEF pending
  <2>1. QED
    BY <1>3
<1>5. TickClock(c) \in Controllers
  <2>1. TickClock(c) = [c EXCEPT !.stamp = 0, !.pending = pending]
    BY DEF TickClock
  <2> HIDE DEF pending
  <2>2. c \in Controllers /\ 0 \in Nat
    BY DEF Good
  <2>3. [c EXCEPT !.stamp = 0, !.pending = pending] \in Controllers
    BY <1>4, <2>2, PutPending
  <2>4. QED
    BY <2>1, <2>3
<1>6. QED
  BY <1>5 DEF Good, Controllers, Sorted, TickClock

LEMMA ServeGood ==
  ASSUME NEW c, Good(c)
  PROVE  Good(ServeCompletedReads(c))
<1> DEFINE e == [c EXCEPT !.pending = Tail(@), !.done = @ \cup {c.pending[1].id}]
<1>1. CASE c.pending # <<>> /\ c.pending[1].wait = 0
  <2>1. c.pending \in Seq(Departures) /\ c.pending[1] \in Departures
    BY <1>1 DEF Good, Controllers
  <2>2. Tail(c.pending) \in Seq(Departures) /\ c.pending[1].id \in Nat
    BY <1>1, <2>1, TailFacts DEF Departures
  <2>3. e \in Controllers
    BY <2>2 DEF Good, Controllers
  <2>4. Sorted(e)
    BY DEF Good, Controllers, Sorted
  <2>5. QED
    BY <1>1, <2>3, <2>4 DEF Good, ServeCompletedReads
<1>2. CASE ~(c.pending # <<>> /\ c.pending[1].wait = 0)
  BY <1>2 DEF ServeCompletedReads
<1>3. QED
  BY <1>1, <1>2

LEMMA RefreshTickGood ==
  ASSUME NEW c, Good(c)
  PROVE  Good(RefreshTick(c))
<1> DEFINE burst == [i \in 1 .. NumPC |-> RefreshRequest(i - 1)]
           queue == c.buf["priority"] \o burst
<1>1. CASE Refreshing /\ c.refi > 1
  <2>1. c \in Controllers /\ c.refi \in Nat
    BY DEF Good, Controllers
  <2>2. c.refi - 1 \in Nat
    BY <1>1, <2>1
  <2>3. [c EXCEPT !.refi = @ - 1] \in Controllers
    BY <2>1, <2>2 DEF Controllers
  <2>4. RefreshTick(c) = [c EXCEPT !.refi = @ - 1]
    BY <1>1 DEF RefreshTick
  <2>5. QED
    BY <2>3, <2>4 DEF Good, Controllers, Sorted
<1>2. CASE /\ Refreshing /\ ~(c.refi > 1)
           /\ Len(c.buf["priority"]) + NumPC - 1 <= PrioritySize
  <2>1. burst \in Seq(Held) /\ Len(burst) = NumPC
    <3>1. \A i \in 1 .. NumPC : RefreshRequest(i - 1) \in Refreshes
      BY DeviceAssumption DEF Refreshes
    <3>2. burst \in [1 .. NumPC -> Held] /\ NumPC \in Nat
      BY <3>1, DeviceAssumption DEF Held
    <3> HIDE DEF burst
    <3>3. QED
      BY <3>2
  <2>2. \A i \in 1 .. NumPC : burst[i].type = "REF"
    BY DEF RefreshRequest
  <2>3. c.buf["priority"] \in Seq(Held)
    BY GoodBuffer DEF Buffers
  <2>4. queue \in Seq(Held) /\ Len(queue) = Len(c.buf["priority"]) + NumPC
    <3> HIDE DEF burst
    <3>1. QED
      BY <2>1, <2>3
  <2>5. ASSUME NEW i \in 1 .. Len(queue)
        PROVE  queue[i].type \in Kept("priority")
    <3>1. CASE i <= Len(c.buf["priority"])
      <4>1. queue[i] = c.buf["priority"][i]
        <5> HIDE DEF burst
        <5>1. QED
          BY <2>1, <2>3, <2>4, <3>1
      <4>2. i \in DOMAIN c.buf["priority"]
        BY <2>3, <2>4, <3>1
      <4>3. QED
        BY <4>1, <4>2 DEF Good, Sorted, Buffers
    <3>2. CASE i > Len(c.buf["priority"])
      <4>1. i - Len(c.buf["priority"]) \in 1 .. NumPC
        <5> HIDE DEF queue
        <5>1. QED
          BY <2>3, <2>4, <3>2, DeviceAssumption
      <4>2. queue[i] = burst[i - Len(c.buf["priority"])]
        <5> HIDE DEF burst
        <5>1. QED
          BY <2>1, <2>3, <2>4, <3>2
      <4>3. queue[i].type = "REF"
        <5> HIDE DEF burst, queue
        <5>1. QED
          BY <2>2, <4>1, <4>2
      <4>4. "REF" \in Kept("priority")
        BY KeptFacts
      <4>5. QED
        BY <4>3, <4>4, Zenon
    <3>3. Len(c.buf["priority"]) \in Nat /\ i \in Nat
      <4> HIDE DEF queue
      <4>1. QED
        BY <2>3, <2>4
    <3> HIDE DEF queue
    <3>4. QED
      BY <3>1, <3>2, <3>3
  <2> DEFINE e == [c EXCEPT !.buf["priority"] = queue]
  <2>6. Good(e)
    <3> HIDE DEF queue
    <3>1. QED
      BY <2>4, <2>5, PutBuffer DEF Buffers
  <2>7. [e EXCEPT !.refi = T.nREFI] \in Controllers
    <3>1. e \in Controllers /\ T.nREFI \in Nat
      BY <2>6, ControllerAssumption DEF Good
    <3> HIDE DEF e
    <3>2. QED
      BY <3>1 DEF Controllers
  <2>8. RefreshTick(c) = [e EXCEPT !.refi = T.nREFI]
    BY <1>2 DEF RefreshTick, Good, Controllers
  <2>9. Sorted([e EXCEPT !.refi = T.nREFI])
    <3>1. e \in Controllers /\ Sorted(e)
      BY <2>6 DEF Good
    <3> HIDE DEF e
    <3>2. QED
      BY <3>1 DEF Sorted, Controllers
  <2>10. QED
    BY <2>7, <2>8, <2>9 DEF Good
<1>3. CASE /\ Refreshing /\ ~(c.refi > 1)
           /\ ~(Len(c.buf["priority"]) + NumPC - 1 <= PrioritySize)
  <2>1. [c EXCEPT !.failed = TRUE] \in Controllers
    BY DEF Good, Controllers
  <2>2. RefreshTick(c) = [c EXCEPT !.failed = TRUE]
    BY <1>3 DEF RefreshTick
  <2>3. QED
    BY <2>1, <2>2 DEF Good, Controllers, Sorted
<1>4. CASE ~Refreshing
  BY <1>4 DEF RefreshTick
<1>5. QED
  BY <1>1, <1>2, <1>3, <1>4, ControllerAssumption

LEMMA TickedGood ==
  ASSUME NEW c, Good(c)
  PROVE  Good(Ticked(c))
BY TickClockGood, ServeGood, RefreshTickGood DEF Ticked

LEMMA AcceptedGood ==
  ASSUME NEW c, Good(c), NEW m \in Menu
  PROVE  Good(Accepted(c, m))
<1>1. c \in Controllers /\ c.sent \in Nat /\ c.stamp \in Nat
      /\ c.pending \in Seq(Departures)
  BY DEF Good, Controllers
<1>2. CASE Forwards(c, m)
  <2> DEFINE departure == [id |-> c.sent + 1, wait |-> 1, fwd |-> TRUE]
             pending == Append(c.pending, departure)
  <2>1. departure \in Departures
    BY <1>1 DEF Departures
  <2>2. pending \in Seq(Departures)
    <3> HIDE DEF departure
    <3>1. QED
      BY <1>1, <2>1
  <2> DEFINE e == [c EXCEPT !.pending = pending]
  <2>3. e \in Controllers
    <3> HIDE DEF pending
    <3>1. QED
      BY <1>1, <2>2 DEF Controllers
  <2>4. [e EXCEPT !.sent = c.sent + 1] \in Controllers
    <3>1. c.sent + 1 \in Nat
      BY <1>1
    <3> HIDE DEF e
    <3>2. QED
      BY <2>3, <3>1 DEF Controllers
  <2>5. Accepted(c, m) = [e EXCEPT !.sent = c.sent + 1]
    BY <1>1, <1>2 DEF Accepted, Forward, Controllers
  <2>6. Sorted([e EXCEPT !.sent = c.sent + 1])
    BY <1>1 DEF Sorted, Good, Controllers
  <2>7. QED
    BY <2>4, <2>5, <2>6 DEF Good
<1>3. CASE ~Forwards(c, m)
  <2> DEFINE now == IF c.stamp = 0 THEN c.sent + 1 ELSE c.stamp
             r == [id |-> c.sent + 1, type |-> m.type, path |-> m.path,
                   row |-> m.row, col |-> m.col, arrive |-> now]
             b == BufferOf(m.type)
             buf == Append(c.buf[b], r)
  <2>1. /\ m.type \in MemTypes \cup PIMTypes /\ m.path \in Banks
        /\ m.row \in Rows /\ m.col \in Cols
    BY ControllerAssumption
  <2>2. now \in Nat /\ c.sent + 1 \in Nat
    BY <1>1
  <2>3. r \in Requests
    <3> HIDE DEF now
    <3>1. QED
      BY <2>1, <2>2 DEF Requests
  <2>4. b \in Buffers /\ m.type \in Kept(b)
    BY <2>1, KeptFacts DEF BufferOf, Buffers, QueueBuffers, MemTypes, PIMTypes
  <2>5. c.buf[b] \in Seq(Held) /\ \A i \in 1 .. Len(c.buf[b]) : c.buf[b][i].type \in Kept(b)
    BY <2>4, GoodBuffer DEF Good, Sorted
  <2>6. buf \in Seq(Held) /\ \A i \in 1 .. Len(buf) : buf[i].type \in Kept(b)
    <3>1. r \in Held /\ r.type \in Kept(b)
      BY <2>3, <2>4 DEF Held
    <3> HIDE DEF r, b
    <3>2. buf \in Seq(Held) /\ Len(buf) = Len(c.buf[b]) + 1
      BY <2>5, <3>1
    <3>3. ASSUME NEW i \in 1 .. Len(buf) PROVE buf[i].type \in Kept(b)
      <4>1. CASE i \in 1 .. Len(c.buf[b])
        BY <2>5, <4>1
      <4>2. CASE i = Len(c.buf[b]) + 1
        BY <2>5, <3>1, <4>2
      <4>3. QED
        BY <2>5, <3>2, <4>1, <4>2
    <3>4. QED
      BY <3>2, <3>3
  <2> DEFINE e == [c EXCEPT !.buf[b] = buf]
  <2>7. Good(e)
    <3> HIDE DEF buf, b
    <3>1. QED
      BY <2>4, <2>6, PutBuffer
  <2>8. /\ [[e EXCEPT !.sent = c.sent + 1] EXCEPT !.stamp = now] \in Controllers
        /\ Sorted([[e EXCEPT !.sent = c.sent + 1] EXCEPT !.stamp = now])
    <3>1. e \in Controllers /\ Sorted(e)
      BY <2>7 DEF Good
    <3> HIDE DEF e, now
    <3> DEFINE f == [e EXCEPT !.sent = c.sent + 1]
    <3>2. f \in Controllers /\ f.buf = e.buf
      BY <2>2, <3>1 DEF Controllers
    <3> HIDE DEF f
    <3>3. [f EXCEPT !.stamp = now] \in Controllers /\ [f EXCEPT !.stamp = now].buf = f.buf
      BY <2>2, <3>2 DEF Controllers
    <3>4. QED
      BY <3>1, <3>2, <3>3 DEF Sorted, f
  <2>9. Accepted(c, m) = [[e EXCEPT !.sent = c.sent + 1] EXCEPT !.stamp = now]
    BY <1>1, <1>3 DEF Accepted, Enqueue, Controllers
  <2>10. QED
    BY <2>8, <2>9 DEF Good
<1>4. QED
  BY <1>2, <1>3

----------------------------------------------------------------------------
(* Scheduling.                                                             *)

\* What is true of a scheduling result: its controller is good, and if it has
\* found a command, the command is that of a request of a buffer; a command
\* that opens rows is never a refresh's, and without is_pim it is a read's or
\* a write's.
Sound(p) ==
  /\ p = [ctl |-> p.ctl, from |-> p.from, at |-> p.at, cmd |-> p.cmd,
          found |-> p.found]
  /\ Good(p.ctl)
  /\ p.from \in Buffers
  /\ p.found =>
       /\ p.at \in 1 .. Len(p.ctl.buf[p.from])
       /\ p.cmd \in Opening =>
            /\ Chosen(p) \in Requests
            /\ ~p.ctl.isPim => Chosen(p).type \in MemTypes

LEMMA PickSound ==
  ASSUME NEW d, NEW c, Good(c), NEW b \in Buffers, b # "pim",
         NEW i \in DOMAIN c.buf[b], NEW first
  PROVE  Sound(Pick(d, c, b, i, first))
<1> DEFINE p == Pick(d, c, b, i, first)
<1>1. p.ctl = c /\ p.from = b /\ p.at = i /\ p.cmd = CommandOf(d, c.buf[b][i])
  BY DEF Pick, PickWith
<1>2. i \in 1 .. Len(c.buf[b]) /\ c.buf[b][i] \in Held
  BY GoodBuffer
<1>3. c.buf[b][i].type \in Kept(b)
  BY DEF Good, Sorted
<1>4. ASSUME p.cmd \in Opening
      PROVE  c.buf[b][i] \in Requests /\ c.buf[b][i].type \in MemTypes
  <2>1. c.buf[b][i] \in Requests /\ c.buf[b][i].type # "REF"
    BY <1>1, <1>2, <1>4, OpeningIsRequest
  <2>2. b \in {"active", "read", "write", "priority"}
    BY DEF Buffers, QueueBuffers
  <2>3. QED
    BY <1>3, <2>1, <2>2, KeptFacts DEF MemTypes
<1>5. p = [ctl |-> p.ctl, from |-> p.from, at |-> p.at, cmd |-> p.cmd,
           found |-> p.found]
  BY DEF Pick, PickWith
<1> HIDE DEF p
<1>6. Sound(p)
  BY <1>1, <1>2, <1>4, <1>5 DEF Sound, Chosen
<1>7. QED
  BY <1>6 DEF p

LEMMA PIMPickSound ==
  ASSUME NEW d, NEW c, Good(c), NEW i \in DOMAIN c.buf["pim"], NEW first
  PROVE  Sound([Pick(d, c, "pim", i, first) EXCEPT !.ctl.isPim = TRUE])
<1> DEFINE p == Pick(d, c, "pim", i, first)
           e == [c EXCEPT !.isPim = TRUE]
           q == [p EXCEPT !.ctl.isPim = TRUE]
<1>1. /\ q.ctl = e /\ q.from = "pim" /\ q.at = i
      /\ q.cmd = CommandOf(d, c.buf["pim"][i])
  BY DEF Pick, PickWith
<1>2. e \in Controllers /\ e.buf = c.buf /\ e.isPim = TRUE
  BY DEF Good, Controllers
<1>3. Good(e)
  <2> HIDE DEF e
  <2>1. QED
    BY <1>2 DEF Good, Sorted
<1>4. i \in 1 .. Len(c.buf["pim"]) /\ c.buf["pim"][i] \in Held /\ "pim" \in Buffers
  BY GoodBuffer DEF Buffers, QueueBuffers
<1>5. ASSUME q.cmd \in Opening PROVE c.buf["pim"][i] \in Requests
  BY <1>1, <1>4, <1>5, OpeningIsRequest
<1>6. q = [ctl |-> q.ctl, from |-> q.from, at |-> q.at, cmd |-> q.cmd,
           found |-> q.found]
  <2>1. q = [p EXCEPT !.ctl = [p.ctl EXCEPT !.isPim = TRUE]]
    OBVIOUS
  <2>2. p = [ctl |-> p.ctl, from |-> p.from, at |-> p.at, cmd |-> p.cmd,
             found |-> p.found]
    BY DEF Pick, PickWith
  <2> HIDE DEF p, q
  <2>3. QED
    BY <2>1, <2>2
<1> HIDE DEF q, e
<1>7. Sound(q)
  BY <1>1, <1>2, <1>3, <1>4, <1>5, <1>6 DEF Sound, Chosen
<1>8. QED
  BY <1>7 DEF q

LEMMA NoPickSound ==
  ASSUME NEW c, Good(c)
  PROVE  Sound(NoPick(c))
BY DEF NoPick, Sound, Buffers, QueueBuffers

LEMMA SetWriteModeGood ==
  ASSUME NEW c, Good(c)
  PROVE  Good(SetWriteMode(c))
<1>1. PICK mode \in BOOLEAN : SetWriteMode(c) = [c EXCEPT !.writeMode = mode]
  BY DEF SetWriteMode, Good, Controllers
<1>2. QED
  BY <1>1 DEF Good, Sorted, Controllers

LEMMA ScheduleMemorySound ==
  ASSUME NEW d, NEW c, Good(c), NEW first, NEW p \in ScheduleMemory(d, c, first)
  PROVE  Sound(p)
<1> DEFINE c1 == SetWriteMode(c)
           b == IF c1.writeMode THEN "write" ELSE "read"
<1>1. Good(c1)
  BY SetWriteModeGood
<1>2. b \in Buffers /\ b # "pim"
  BY DEF Buffers, QueueBuffers
<1>3. CASE p = NoPick(c1)
  BY <1>1, <1>3, NoPickSound
<1>4. CASE p \in Picks(d, c1, b, first)
  <2>1. PICK i \in BestRequest(d, c1.buf[b]) : p = Pick(d, c1, b, i, first)
    BY <1>4 DEF Picks
  <2>2. i \in DOMAIN c1.buf[b]
    BY <2>1, BestIsIndex
  <2> HIDE DEF c1, b
  <2>3. QED
    BY <1>1, <1>2, <2>1, <2>2, PickSound
<1>5. QED
  BY <1>3, <1>4 DEF ScheduleMemory, OrElse

LEMMA DropBarrierGood ==
  ASSUME NEW c, Good(c)
  PROVE  Good([c EXCEPT !.buf["pim"] = DropBarrier(@)])
<1> DEFINE buf == c.buf["pim"]
<1>1. "pim" \in Buffers /\ buf \in Seq(Held)
      /\ \A i \in 1 .. Len(buf) : buf[i].type \in Kept("pim")
  BY GoodBuffer DEF Good, Sorted, Buffers, QueueBuffers
<1>2. /\ DropBarrier(buf) \in Seq(Held)
      /\ \A i \in 1 .. Len(DropBarrier(buf)) : DropBarrier(buf)[i].type \in Kept("pim")
  <2> HIDE DEF buf
  <2>1. CASE buf # <<>> /\ buf[1].type = "BARRIER"
    <3>1. Tail(buf) \in Seq(Held) /\ Len(Tail(buf)) = Len(buf) - 1
      BY <1>1, <2>1
    <3>2. ASSUME NEW i \in 1 .. Len(Tail(buf)) PROVE Tail(buf)[i].type \in Kept("pim")
      <4>1. Tail(buf)[i] = buf[i + 1] /\ i + 1 \in 1 .. Len(buf)
        BY <1>1, <2>1, <3>1
      <4>2. QED
        BY <1>1, <4>1
    <3>3. QED
      BY <2>1, <3>1, <3>2 DEF DropBarrier
  <2>2. CASE ~(buf # <<>> /\ buf[1].type = "BARRIER")
    BY <1>1, <2>2 DEF DropBarrier
  <2>3. QED
    BY <2>1, <2>2
<1>3. Good([c EXCEPT !.buf["pim"] = DropBarrier(buf)])
  BY <1>1, <1>2, PutBuffer
<1>4. QED
  BY <1>3

LEMMA WithoutBarrierGood ==
  ASSUME NEW c, Good(c)
  PROVE  Good(WithoutBarrier(c))
<1> DEFINE finished == IF c.buf["pim"] = DropBarrier(c.buf["pim"])
                         THEN c.done ELSE c.done \cup {c.buf["pim"][1].id}
           e  == [c EXCEPT !.buf["pim"] = DropBarrier(@)]
           c1 == [e EXCEPT !.done = finished]
<1>1. finished \in SUBSET Nat
  <2>1. c.done \in SUBSET Nat /\ c.buf["pim"] \in Seq(Held)
    BY GoodBuffer DEF Good, Controllers, Buffers, QueueBuffers
  <2>2. CASE c.buf["pim"] # DropBarrier(c.buf["pim"])
    <3>1. c.buf["pim"][1] \in Held
      BY <2>1, <2>2 DEF DropBarrier
    <3>2. c.buf["pim"][1].id \in Nat
      BY <3>1 DEF Held, Requests, Refreshes, RefreshRequest
    <3>3. QED
      BY <2>1, <3>2
  <2>3. QED
    BY <2>1, <2>2
<1>2. Good(c1)
  <2>1. e \in Controllers /\ Sorted(e)
    BY DropBarrierGood DEF Good
  <2> HIDE DEF e, finished
  <2>2. c1 \in Controllers /\ c1.buf = e.buf
    BY <1>1, <2>1 DEF Controllers
  <2> HIDE DEF c1
  <2>3. QED
    BY <2>1, <2>2 DEF Good, Sorted
<1>3. WithoutBarrier(c) = c1
  <2>1. c \in Controllers
    BY DEF Good
  <2>2. QED
    BY <2>1 DEF WithoutBarrier, Controllers
<1>4. QED
  BY <1>2, <1>3

LEMMA SchedulePIMSound ==
  ASSUME NEW d, NEW c, Good(c), NEW first, NEW p \in SchedulePIM(d, c, first)
  PROVE  Sound(p)
<1> DEFINE c1   == WithoutBarrier(c)
           best == Found(Picks(d, c1, "pim", first))
<1>1. Good(c1)
  BY WithoutBarrierGood
<1> HIDE DEF c1
<1>2. CASE p \in ScheduleMemory(d, c1, first)
  BY <1>1, <1>2, ScheduleMemorySound
<1>3. CASE p \in { [q EXCEPT !.ctl.isPim = TRUE] : q \in best }
  <2>1. PICK i \in BestRequest(d, c1.buf["pim"]) :
          p = [Pick(d, c1, "pim", i, first) EXCEPT !.ctl.isPim = TRUE]
    BY <1>3 DEF Picks, Found
  <2>2. i \in DOMAIN c1.buf["pim"]
    BY <2>1, BestIsIndex
  <2>3. QED
    BY <1>1, <2>1, <2>2, PIMPickSound
<1>4. QED
  BY <1>2, <1>3 DEF SchedulePIM, OrElse, c1

LEMMA SchedulePrioritySound ==
  ASSUME NEW d, NEW c, Good(c), NEW first,
         NEW p \in SchedulePriority(d, c, first)
  PROVE  Sound(p)
<1> DEFINE c1 == [c EXCEPT !.isPim = FALSE]
           q  == Pick(d, c, "priority", 1, first)
<1>1. Good(c1) /\ c1.buf = c.buf
  BY DEF Good, Controllers, Sorted
<1>2. CASE p \in SchedulePIM(d, c1, first)
  <2> HIDE DEF c1
  <2>1. QED
    BY <1>1, <1>2, SchedulePIMSound
<1>3. ASSUME c.buf["priority"] # <<>>
      PROVE  Sound(q) /\ Sound([q EXCEPT !.ctl.isPim = FALSE])
  <2>1. "priority" \in Buffers /\ 1 \in DOMAIN c.buf["priority"]
    BY <1>3, GoodBuffer DEF Buffers
  <2>2. Sound(q)
    BY <2>1, PickSound
  <2>3. Sound(Pick(d, c1, "priority", 1, first))
    <3> HIDE DEF c1
    <3>1. QED
      BY <1>1, <2>1, PickSound
  <2>4. [q EXCEPT !.ctl.isPim = FALSE] = Pick(d, c1, "priority", 1, first)
    <3>1. CommandOf(d, c.buf["priority"][1]) = CommandOf(d, c1.buf["priority"][1])
      BY <1>1
    <3>2. [q EXCEPT !.ctl.isPim = FALSE] = [q EXCEPT !.ctl = c1]
      BY DEF Pick, PickWith
    <3> HIDE DEF c1
    <3>3. [q EXCEPT !.ctl = c1] = Pick(d, c1, "priority", 1, first)
      BY <1>1, <3>1 DEF Pick, PickWith
    <3>4. QED
      BY <3>2, <3>3
  <2>5. QED
    BY <2>2, <2>3, <2>4
<1>4. QED
  BY <1>2, <1>3 DEF SchedulePriority, OrElse, UrgentPicks

LEMMA ScheduleSound ==
  ASSUME NEW d, NEW c, Good(c), NEW first, NEW p \in Schedule(d, c, first)
  PROVE  Sound(p)
<1> DEFINE active == Found(Picks(d, c, "active", first))
           picks  == OrElse(active, SchedulePriority(d, c, first))
<1>1. ASSUME NEW q \in picks PROVE Sound(q)
  <2>1. CASE q \in active
    <3>1. PICK i \in BestRequest(d, c.buf["active"]) : q = Pick(d, c, "active", i, first)
      BY <2>1 DEF Picks, Found
    <3>2. i \in DOMAIN c.buf["active"] /\ "active" \in Buffers
      BY <3>1, BestIsIndex DEF Buffers, QueueBuffers
    <3>3. QED
      BY <3>1, <3>2, PickSound
  <2>2. CASE q \in SchedulePriority(d, c, first)
    BY <2>2, SchedulePrioritySound
  <2>3. QED
    BY <2>1, <2>2 DEF OrElse
<1>2. PICK q \in picks : p = [q EXCEPT !.found = @ /\ ~Interrupts(q)]
  BY DEF Schedule
<1>3. Sound(q)
  BY <1>1, <1>2
<1>4. /\ p.ctl = q.ctl /\ p.from = q.from /\ p.at = q.at /\ p.cmd = q.cmd
      /\ p.found = (q.found /\ ~Interrupts(q))
      /\ p = [ctl |-> q.ctl, from |-> q.from, at |-> q.at, cmd |-> q.cmd,
              found |-> (q.found /\ ~Interrupts(q))]
  BY <1>2, <1>3 DEF Sound
<1>5. QED
  BY <1>3, <1>4 DEF Sound, Chosen

----------------------------------------------------------------------------
(* Issuing a command.                                                      *)

LEMMA EraseGood ==
  ASSUME NEW c, Good(c), NEW p, p.from \in Buffers,
         p.at \in 1 .. Len(c.buf[p.from])
  PROVE  Good(Erase(c, p))
<1> DEFINE buf == c.buf[p.from]
           rest == RemoveAt(buf, p.at)
<1>1. buf \in Seq(Held) /\ \A i \in 1 .. Len(buf) : buf[i].type \in Kept(p.from)
  BY GoodBuffer DEF Good, Sorted
<1>2. /\ rest \in Seq(Held) /\ Len(rest) = Len(buf) - 1
      /\ \A i \in 1 .. Len(buf) - 1 :
           rest[i] = IF i < p.at THEN buf[i] ELSE buf[i + 1]
  <2> HIDE DEF buf
  <2>1. p.at \in 1 .. Len(buf)
    BY DEF buf
  <2>2. QED
    BY <1>1, <2>1, RemoveAtFacts
<1>3. ASSUME NEW i \in 1 .. Len(rest) PROVE rest[i].type \in Kept(p.from)
  <2> HIDE DEF buf, rest
  <2>0. Len(buf) \in Nat /\ i \in 1 .. Len(buf) - 1
    BY <1>1, <1>2
  <2>1. PICK j \in 1 .. Len(buf) : rest[i] = buf[j]
    <3>1. i \in 1 .. Len(buf) /\ i + 1 \in 1 .. Len(buf)
      BY <2>0
    <3>2. rest[i] = buf[i] \/ rest[i] = buf[i + 1]
      BY <1>2, <2>0
    <3>3. QED
      BY <3>1, <3>2
  <2>2. QED
    BY <1>1, <2>1
<1>4. Good([c EXCEPT !.buf[p.from] = rest])
  <2> HIDE DEF rest
  <2>1. QED
    BY <1>2, <1>3, PutBuffer
<1>5. QED
  BY <1>4 DEF Erase

LEMMA ChosenHeld ==
  ASSUME NEW p, Sound(p), p.found
  PROVE  Chosen(p) \in Held /\ Chosen(p).id \in Nat
<1>1. p.at \in DOMAIN p.ctl.buf[p.from] /\ p.ctl.buf[p.from] \in Seq(Held)
  BY GoodBuffer DEF Sound
<1>2. Chosen(p) \in Held
  BY <1>1 DEF Chosen
<1>3. QED
  BY <1>2 DEF Held, Requests, Refreshes, RefreshRequest

LEMMA FinishGood ==
  ASSUME NEW p, Sound(p), p.found
  PROVE  Good(Finish(p.ctl, p)) /\ Finish(p.ctl, p).buf = p.ctl.buf
<1> DEFINE c == p.ctl
           r == Chosen(p)
           departure == [id |-> r.id, wait |-> ReadLatency, fwd |-> FALSE]
<1>1. Good(c) /\ c \in Controllers /\ r.id \in Nat
  BY ChosenHeld DEF Sound, Good
<1>2. CASE Finish(c, p) = [c EXCEPT !.pending = Append(@, departure)]
  <2>1. departure \in Departures
    <3>1. ReadLatency \in Nat
      BY ControllerAssumption DEF ReadLatency
    <3>2. QED
      BY <1>1, <3>1 DEF Departures
  <2> HIDE DEF c, departure
  <2>2. Append(c.pending, departure) \in Seq(Departures)
    BY <1>1, <2>1 DEF Controllers
  <2>3. [c EXCEPT !.pending = Append(@, departure)] \in Controllers
    BY <1>1, <2>2 DEF Controllers
  <2>4. [c EXCEPT !.pending = Append(@, departure)].buf = c.buf
    BY <1>1 DEF Controllers
  <2>5. Good(Finish(c, p)) /\ Finish(c, p).buf = c.buf
    BY <1>1, <1>2, <2>3, <2>4 DEF Good, Sorted
  <2>6. QED
    BY <2>5 DEF c
<1>3. CASE Finish(c, p) = c
  BY <1>1, <1>3
<1>4. CASE Finish(c, p) = [c EXCEPT !.done = @ \cup {r.id}]
  <2> HIDE DEF c, r
  <2>1. [c EXCEPT !.done = @ \cup {r.id}] \in Controllers
    BY <1>1 DEF Controllers
  <2>2. [c EXCEPT !.done = @ \cup {r.id}].buf = c.buf
    BY <1>1 DEF Controllers
  <2>3. Good(Finish(c, p)) /\ Finish(c, p).buf = c.buf
    BY <1>1, <1>4, <2>1, <2>2 DEF Good, Sorted
  <2>4. QED
    BY <2>3 DEF c
<1>5. QED
  BY <1>2, <1>3, <1>4 DEF Finish

LEMMA ActivateGood ==
  ASSUME NEW p, Sound(p), Activates(p)
  PROVE  /\ Good(Activate(p.ctl, p))
         /\ p.at \in 1 .. Len(Activate(p.ctl, p).buf[p.from])
<1> DEFINE c == p.ctl
           r == Chosen(p)
           buf == Append(c.buf["active"], r)
<1>1. /\ Good(c) /\ c \in Controllers /\ r.id \in Nat
      /\ p.from \in Buffers /\ p.at \in 1 .. Len(c.buf[p.from])
      /\ r \in Held /\ r.type \in Kept("active")
  BY ChosenHeld, KeptFacts DEF Sound, Good, Activates
<1>2. CASE Activate(c, p) = [c EXCEPT !.buf["active"] = buf]
  <2> HIDE DEF c, r
  <2>1. /\ "active" \in Buffers /\ c.buf["active"] \in Seq(Held)
        /\ \A i \in 1 .. Len(c.buf["active"]) : c.buf["active"][i].type \in Kept("active")
    BY <1>1, GoodBuffer DEF Buffers, QueueBuffers, Good, Sorted
  <2>2. buf \in Seq(Held) /\ Len(buf) = Len(c.buf["active"]) + 1
    BY <1>1, <2>1
  <2>3. ASSUME NEW i \in 1 .. Len(buf) PROVE buf[i].type \in Kept("active")
    <3>1. CASE i \in 1 .. Len(c.buf["active"])
      BY <2>1, <3>1
    <3>2. CASE i = Len(c.buf["active"]) + 1
      BY <1>1, <2>1, <3>2
    <3>3. QED
      BY <2>1, <2>2, <3>1, <3>2
  <2> DEFINE e == [c EXCEPT !.buf["active"] = buf]
  <2>4. Good(e)
    <3> HIDE DEF buf
    <3>1. QED
      BY <1>1, <2>1, <2>2, <2>3, PutBuffer
  <2>5. p.at \in 1 .. Len(e.buf[p.from])
    <3>1. CASE p.from = "active"
      <4>1. e.buf[p.from] = buf
        BY <1>1, <2>1, <3>1 DEF Controllers
      <4> HIDE DEF buf, e
      <4>2. QED
        BY <1>1, <2>1, <2>2, <3>1, <4>1
    <3>2. CASE p.from # "active"
      <4>1. e.buf[p.from] = c.buf[p.from]
        BY <1>1, <3>2 DEF Controllers
      <4> HIDE DEF buf, e
      <4>2. QED
        BY <1>1, <4>1
    <3>3. QED
      BY <3>1, <3>2
  <2>6. Good(Activate(c, p)) /\ p.at \in 1 .. Len(Activate(c, p).buf[p.from])
    BY <1>2, <2>4, <2>5
  <2>7. QED
    BY <2>6 DEF c
<1>3. CASE Activate(c, p) = [c EXCEPT !.lost = @ \cup {r.id}]
  <2> HIDE DEF c, r
  <2>1. [c EXCEPT !.lost = @ \cup {r.id}] \in Controllers
    BY <1>1 DEF Controllers
  <2>2. [c EXCEPT !.lost = @ \cup {r.id}].buf = c.buf
    BY <1>1 DEF Controllers
  <2>3. Good(Activate(c, p)) /\ p.at \in 1 .. Len(Activate(c, p).buf[p.from])
    BY <1>1, <1>3, <2>1, <2>2 DEF Good, Sorted
  <2>4. QED
    BY <2>3 DEF c
<1>4. QED
  BY <1>2, <1>3 DEF Activate

LEMMA AfterIssueGood ==
  ASSUME NEW p, Sound(p)
  PROVE  Good(AfterIssue(p))
<1>1. CASE Finishes(p)
  <2>1. p.found /\ p.from \in Buffers /\ p.at \in 1 .. Len(p.ctl.buf[p.from])
    BY <1>1 DEF Finishes, Sound
  <2>2. QED
    BY <1>1, <2>1, FinishGood, EraseGood DEF AfterIssue
<1>2. CASE ~Finishes(p) /\ Activates(p)
  BY <1>2, ActivateGood, EraseGood DEF AfterIssue, Sound
<1>3. CASE ~Finishes(p) /\ ~Activates(p)
  BY <1>3 DEF AfterIssue, Sound
<1>4. QED
  BY <1>1, <1>2, <1>3

LEMMA IssueType ==
  ASSUME NEW d \in Devices, NEW p, Sound(p)
  PROVE  Issue(d, p) \in Devices
<1>1. CASE p.found
  <2>1. p.cmd \in Opening => Chosen(p).row \in Rows
    BY <1>1 DEF Sound, Requests
  <2>2. QED
    BY <1>1, <2>1, IssueCommandType DEF Issue
<1>2. QED
  BY <1>1 DEF Issue

----------------------------------------------------------------------------
(* The two invariants, together: neither is inductive alone.  Which        *)
(* request may move to the active buffer depends on the type of the buffer *)
(* it comes from, and rows stay in Rows only because refreshes never open  *)
(* one.                                                                    *)

IInv == TypeOK /\ BufferKinds

LEMMA InitDeviceType == InitDevice \in Devices
BY DeviceAssumption DEF InitDevice, Devices

LEMMA InitIInv == Init => IInv
BY InitDeviceType, InitGood DEF Init, IInv, TypeOK, BufferKinds, Good

LEMMA TickIInv == IInv /\ Tick => IInv'
<1> SUFFICES ASSUME IInv, Tick PROVE IInv'
  OBVIOUS
<1> DEFINE d == TickDevice(dev)
           c == Ticked(ctl)
<1>1. d \in Devices /\ Good(c)
  BY TickDeviceType, TickedGood DEF IInv, TypeOK, BufferKinds, Good
<1>2. CASE Throw(d, c)
  BY <1>1, <1>2 DEF Throw, IInv, TypeOK, BufferKinds, Good
<1>3. CASE Serve(d, c)
  <2> HIDE DEF d, c
  <2>1. PICK p \in Schedule(d, c, "any") :
          \E first \in FirstCommands(p) :
            \E q \in Schedule(Issue(d, p), AfterIssue(p), first) :
              /\ dev' = Issue(Issue(d, p), q)
              /\ ctl' = AfterIssue(q)
    BY <1>3 DEF Serve
  <2>2. Sound(p)
    BY <1>1, <2>1, ScheduleSound
  <2>3. Issue(d, p) \in Devices /\ Good(AfterIssue(p))
    BY <1>1, <2>2, IssueType, AfterIssueGood
  <2>4. PICK first \in FirstCommands(p) :
          \E q \in Schedule(Issue(d, p), AfterIssue(p), first) :
            /\ dev' = Issue(Issue(d, p), q)
            /\ ctl' = AfterIssue(q)
    BY <2>1
  <2>5. PICK q \in Schedule(Issue(d, p), AfterIssue(p), first) :
          /\ dev' = Issue(Issue(d, p), q)
          /\ ctl' = AfterIssue(q)
    BY <2>4
  <2>6. Sound(q)
    BY <2>3, <2>5, ScheduleSound
  <2>7. Issue(Issue(d, p), q) \in Devices /\ Good(AfterIssue(q))
    BY <2>3, <2>6, IssueType, AfterIssueGood
  <2>8. QED
    BY <2>5, <2>7 DEF IInv, TypeOK, BufferKinds, Good
<1>4. QED
  BY <1>2, <1>3 DEF Tick

LEMMA SendIInv ==
  ASSUME NEW m \in Menu, IInv, Send(m)
  PROVE  IInv'
BY AcceptedGood DEF Send, IInv, TypeOK, BufferKinds, Good

LEMMA NextIInv == IInv /\ [Next]_vars => IInv'
<1>1. ASSUME IInv, UNCHANGED vars PROVE IInv'
  BY <1>1 DEF vars, IInv, TypeOK, BufferKinds, Sorted
<1>2. QED
  BY <1>1, TickIInv, SendIInv DEF Next

\* TypeCorrect: the device and the controller keep their types: a request is
\* only ever looked up where it is, no counter goes below zero, and every open
\* row is a row of some request.
THEOREM TypeCorrect == Spec => []TypeOK
<1>1. IInv => TypeOK
  BY DEF IInv
<1>2. QED
  BY <1>1, InitIInv, NextIInv, PTL DEF Spec

\* KindsKept: each buffer only ever holds the requests it is for.
THEOREM KindsKept == Spec => []BufferKinds
<1>1. IInv => BufferKinds
  BY DEF IInv
<1>2. QED
  BY <1>1, InitIInv, NextIInv, PTL DEF Spec

\* MemoryOnly: no PIM request and no refresh is ever moved to the active
\* buffer, in whatever order ticks, sends and refreshes come.
THEOREM MemoryOnly == Spec => []MemoryActive
<1>1. BufferKinds => MemoryActive
  BY KeptFacts DEF BufferKinds, Sorted, MemoryActive, Range, Buffers, QueueBuffers
<1>2. QED
  BY <1>1, KindsKept, PTL

----------------------------------------------------------------------------
(* Partitions.                                                             *)

\* l2 is l1 without the k-th element of its line a, or with x at its end.
Without(l1, l2, a, k) == Less(Places, l1, l2, a, k)
With(l1, l2, a, x) == More(Places, l1, l2, a, x)

LEMMA PartitionIsSplit ==
  ASSUME NEW lines, NEW n, NEW gone
  PROVE  Partition(lines, n, gone) <=> Split(Places, lines, n, gone)
BY DEF Partition, Split

LEMMA TakenOut ==
  ASSUME NEW l1, NEW l2, NEW n, NEW gone, NEW a \in Places, NEW k,
         Partition(l1, n, gone), Without(l1, l2, a, k)
  PROVE  /\ Partition(l2, n, gone \cup {l1[a][k]})
         /\ l1[a][k] \in (1 .. n) \ gone
BY PartitionIsSplit, SplitTakenOut DEF Without, With

LEMMA PutBack ==
  ASSUME NEW l1, NEW l2, NEW n, NEW gone, NEW a \in Places,
         NEW x \in (1 .. n) \cap gone,
         Partition(l1, n, gone), With(l1, l2, a, x)
  PROVE  Partition(l2, n, gone \ {x})
BY PartitionIsSplit, SplitPutBack DEF Without, With

\* A number that has never been used.
LEMMA Added ==
  ASSUME NEW l1, NEW l2, NEW n \in Nat, NEW gone \in SUBSET (1 .. n),
         NEW a \in Places, Partition(l1, n, gone), With(l1, l2, a, n + 1)
  PROVE  Partition(l2, n + 1, gone)
BY PartitionIsSplit, SplitAdded DEF Without, With

\* From the k-th position of one line to the end of one, the same or another.
LEMMA Moved ==
  ASSUME NEW l1, NEW mid, NEW l2, NEW n, NEW gone, NEW a \in Places,
         NEW k, NEW b \in Places, Partition(l1, n, gone),
         Without(l1, mid, a, k), With(mid, l2, b, l1[a][k])
  PROVE  Partition(l2, n, gone)
BY PartitionIsSplit, SplitMoved DEF Without, With

----------------------------------------------------------------------------
(* Controllers.                                                            *)

Gone(c) == c.done \cup c.lost

Whole(c) == /\ Gone(c) \subseteq 1 .. c.sent
            /\ Partition(Ids(c), c.sent, Gone(c))

LEMMA PlacesFacts ==
  /\ QueueBuffers \subseteq Places /\ "pending" \in Places
  /\ QueueBuffers \subseteq Buffers /\ "priority" \notin QueueBuffers
  /\ "pending" \notin QueueBuffers
  /\ {"active", "read", "write", "pim"} = QueueBuffers
BY DEF Places, QueueBuffers, Buffers

LEMMA LineFacts ==
  ASSUME NEW c, Good(c), NEW b \in Places
  PROVE  /\ Len(Line(c, b)) \in Nat
         /\ DOMAIN Line(c, b) = 1 .. Len(Line(c, b))
         /\ DOMAIN Ids(c)[b] = 1 .. Len(Line(c, b))
         /\ \A i \in 1 .. Len(Line(c, b)) : Ids(c)[b][i] = Line(c, b)[i].id
<1>1. \E S : Line(c, b) \in Seq(S)
  <2>1. CASE b = "pending"
    BY <2>1 DEF Good, Controllers, Line
  <2>2. CASE b # "pending"
    BY <2>2, GoodBuffer DEF Line, Places, Buffers
  <2>3. QED
    BY <2>1, <2>2
<1>2. Len(Line(c, b)) \in Nat /\ DOMAIN Line(c, b) = 1 .. Len(Line(c, b))
  BY <1>1
<1>3. Ids(c)[b] = [i \in DOMAIN Line(c, b) |-> Line(c, b)[i].id]
  BY DEF Ids
<1>4. QED
  BY <1>2, <1>3

\* Nothing that matters here has changed.
LEMMA SameWhole ==
  ASSUME NEW c, NEW e, Whole(c),
         \A b \in QueueBuffers : e.buf[b] = c.buf[b],
         e.pending = c.pending, e.sent = c.sent, Gone(e) = Gone(c)
  PROVE  Whole(e)
<1>1. \A b \in Places : Line(e, b) = Line(c, b)
  BY DEF Line, Places
<1>2. Ids(e) = Ids(c)
  BY <1>1 DEF Ids
<1>3. QED
  BY <1>2 DEF Whole

\* t is s without its k-th element; t is s and an element with the id x.
Shorter(s, t, k) ==
  /\ k \in 1 .. Len(s) /\ Len(t) = Len(s) - 1
  /\ \A i \in 1 .. Len(s) - 1 : t[i] = IF i < k THEN s[i] ELSE s[i + 1]

Longer(s, t, x) ==
  /\ Len(t) = Len(s) + 1
  /\ \A i \in 1 .. Len(s) : t[i] = s[i]
  /\ t[Len(s) + 1].id = x

SameBut(c, e, a) == \A b \in Places \ {a} : Line(e, b) = Line(c, b)

LEMMA TailShorter ==
  ASSUME NEW S, NEW s \in Seq(S), s # <<>>
  PROVE  Shorter(s, Tail(s), 1)
<1> DEFINE t == Tail(s)
<1>1. /\ Len(t) = Len(s) - 1 /\ Len(s) \in Nat /\ Len(s) > 0
      /\ \A i \in 1 .. Len(s) - 1 : t[i] = s[i + 1]
  BY TailFacts
<1> HIDE DEF t
<1>2. Shorter(s, t, 1)
  BY <1>1 DEF Shorter
<1>3. QED
  BY <1>2 DEF t

LEMMA AppendLonger ==
  ASSUME NEW S, NEW s \in Seq(S), NEW r
  PROVE  Longer(s, Append(s, r), r.id)
<1> DEFINE t == Append(s, r)
<1>1. /\ Len(t) = Len(s) + 1
      /\ \A i \in 1 .. Len(s) : t[i] = s[i]
      /\ t[Len(s) + 1] = r
  OBVIOUS
<1> HIDE DEF t
<1>2. Longer(s, t, r.id)
  BY <1>1 DEF Longer
<1>3. QED
  BY <1>2 DEF t

\* The k-th request of a line is gone, or about to join another line.
LEMMA WithoutLine ==
  ASSUME NEW c, Good(c), NEW e, Good(e), NEW a \in Places, NEW k,
         Shorter(Line(c, a), Line(e, a), k), SameBut(c, e, a)
  PROVE  Without(Ids(c), Ids(e), a, k) /\ Ids(c)[a][k] = Line(c, a)[k].id
<1> DEFINE len == Len(Line(c, a))
<1>0. /\ k \in 1 .. len /\ Len(Line(e, a)) = len - 1
      /\ \A i \in 1 .. len - 1 :
           Line(e, a)[i] = IF i < k THEN Line(c, a)[i] ELSE Line(c, a)[i + 1]
  BY DEF Shorter
<1>1. /\ len \in Nat /\ k \in 1 .. len
      /\ DOMAIN Ids(c)[a] = 1 .. len /\ DOMAIN Ids(e)[a] = 1 .. len - 1
  BY <1>0, LineFacts
<1>2. ASSUME NEW i \in 1 .. len - 1
      PROVE  Ids(e)[a][i] = Ids(c)[a][IF i < k THEN i ELSE i + 1]
  <2>1. Ids(e)[a][i] = Line(e, a)[i].id
    BY <1>0, LineFacts
  <2>2. i \in 1 .. len /\ i + 1 \in 1 .. len
    BY <1>1
  <2>3. /\ Ids(c)[a][i] = Line(c, a)[i].id
        /\ Ids(c)[a][i + 1] = Line(c, a)[i + 1].id
    BY <2>2, LineFacts
  <2>4. QED
    BY <1>0, <2>1, <2>3
<1>3. ASSUME NEW b \in Places \ {a} PROVE Ids(e)[b] = Ids(c)[b]
  BY DEF Ids, SameBut
<1>4. Ids(c)[a][k] = Line(c, a)[k].id
  BY <1>0, LineFacts
<1> HIDE DEF len
<1>5. Without(Ids(c), Ids(e), a, k)
  BY <1>1, <1>2, <1>3 DEF Without, Less
<1>6. QED
  BY <1>4, <1>5

LEMMA WithLine ==
  ASSUME NEW c, Good(c), NEW e, Good(e), NEW a \in Places, NEW x,
         Longer(Line(c, a), Line(e, a), x), SameBut(c, e, a)
  PROVE  With(Ids(c), Ids(e), a, x)
<1> DEFINE len == Len(Line(c, a))
<1>0. /\ Len(Line(e, a)) = len + 1 /\ Line(e, a)[len + 1].id = x
      /\ \A i \in 1 .. len : Line(e, a)[i] = Line(c, a)[i]
  BY DEF Longer
<1>1. /\ len \in Nat /\ len + 1 \in 1 .. len + 1
      /\ DOMAIN Ids(c)[a] = 1 .. len /\ DOMAIN Ids(e)[a] = 1 .. len + 1
  BY <1>0, LineFacts
<1>2. ASSUME NEW i \in 1 .. len PROVE Ids(e)[a][i] = Ids(c)[a][i]
  <2>1. i \in 1 .. len + 1
    BY <1>1
  <2>2. Ids(e)[a][i] = Line(e, a)[i].id /\ Ids(c)[a][i] = Line(c, a)[i].id
    BY <1>0, <2>1, LineFacts
  <2>3. QED
    BY <1>0, <2>2
<1>3. Ids(e)[a][len + 1] = x
  BY <1>0, <1>1, LineFacts
<1>4. ASSUME NEW b \in Places \ {a} PROVE Ids(e)[b] = Ids(c)[b]
  BY DEF Ids, SameBut
<1> HIDE DEF len
<1>5. QED
  BY <1>1, <1>2, <1>3, <1>4 DEF With, More

LEMMA WholeTakenOut ==
  ASSUME NEW c, NEW e, NEW a \in Places, NEW k, Whole(c),
         Without(Ids(c), Ids(e), a, k), e.sent = c.sent,
         Gone(e) = Gone(c) \cup {Ids(c)[a][k]}
  PROVE  Whole(e)
<1> DEFINE x == Ids(c)[a][k]
<1>1. Partition(Ids(c), c.sent, Gone(c)) /\ Gone(c) \subseteq 1 .. c.sent
  BY DEF Whole
<1>2. Partition(Ids(e), c.sent, Gone(c) \cup {x}) /\ x \in 1 .. c.sent
  BY <1>1, TakenOut
<1> HIDE DEF x
<1>3. Gone(e) = Gone(c) \cup {x}
  BY DEF x
<1>4. QED
  BY <1>1, <1>2, <1>3 DEF Whole

----------------------------------------------------------------------------
(* The parts of tick() before scheduling, and send().                      *)

LEMMA TickClockWhole ==
  ASSUME NEW c, Good(c), Whole(c)
  PROVE  Whole(TickClock(c))
<1> DEFINE e == TickClock(c)
<1>1. c.pending \in Seq(Departures) /\ c \in Controllers
  BY DEF Good, Controllers
<1>2. /\ e.buf = c.buf /\ e.sent = c.sent /\ e.done = c.done /\ e.lost = c.lost
      /\ e.pending = [i \in DOMAIN c.pending |->
                        [c.pending[i] EXCEPT !.wait = IF @ > 0 THEN @ - 1 ELSE 0]]
  BY <1>1 DEF TickClock, Controllers
<1>3. ASSUME NEW i \in DOMAIN c.pending
      PROVE  e.pending[i].id = c.pending[i].id
  <2>1. c.pending[i] \in Departures
    BY <1>1
  <2>2. e.pending[i] = [c.pending[i] EXCEPT !.wait = IF @ > 0 THEN @ - 1 ELSE 0]
    BY <1>2
  <2>3. QED
    BY <2>1, <2>2 DEF Departures
<1>4. DOMAIN e.pending = DOMAIN c.pending
  BY <1>2
<1> HIDE DEF e
<1>5. ASSUME NEW b \in Places PROVE Ids(e)[b] = Ids(c)[b]
  BY <1>2, <1>3, <1>4 DEF Ids, Line
<1>6. Ids(e) = Ids(c)
  BY <1>5 DEF Ids
<1>7. Whole(e)
  BY <1>2, <1>6 DEF Whole, Gone
<1>8. QED
  BY <1>7 DEF e

LEMMA ServeWhole ==
  ASSUME NEW c, Good(c), Whole(c)
  PROVE  Whole(ServeCompletedReads(c))
<1> DEFINE e == ServeCompletedReads(c)
<1>1. CASE c.pending # <<>> /\ c.pending[1].wait = 0
  <2>1. c \in Controllers /\ c.pending \in Seq(Departures)
    BY DEF Good, Controllers
  <2>2. /\ e.buf = c.buf /\ e.sent = c.sent /\ e.lost = c.lost
        /\ e.pending = Tail(c.pending) /\ e.done = c.done \cup {c.pending[1].id}
    BY <1>1, <2>1 DEF ServeCompletedReads, Controllers
  <2>3. Good(e)
    BY ServeGood
  <2>4. Shorter(c.pending, e.pending, 1)
    BY <1>1, <2>1, <2>2, TailShorter
  <2> HIDE DEF e
  <2>5. /\ Line(c, "pending") = c.pending /\ Line(e, "pending") = e.pending
        /\ SameBut(c, e, "pending")
    BY <2>2 DEF Line, SameBut
  <2>6. /\ Without(Ids(c), Ids(e), "pending", 1)
        /\ Ids(c)["pending"][1] = c.pending[1].id
    BY <2>3, <2>4, <2>5, PlacesFacts, WithoutLine
  <2>7. Gone(e) = Gone(c) \cup {Ids(c)["pending"][1]}
    BY <2>2, <2>6 DEF Gone
  <2>8. Whole(e)
    BY <2>2, <2>6, <2>7, PlacesFacts, WholeTakenOut
  <2>9. QED
    BY <2>8 DEF e
<1>2. CASE ~(c.pending # <<>> /\ c.pending[1].wait = 0)
  BY <1>2 DEF ServeCompletedReads
<1>3. QED
  BY <1>1, <1>2

LEMMA RefreshTickWhole ==
  ASSUME NEW c, Good(c), Whole(c)
  PROVE  Whole(RefreshTick(c))
<1> DEFINE e == RefreshTick(c)
<1>1. c \in Controllers
  BY DEF Good
<1>2. /\ e.pending = c.pending /\ e.sent = c.sent
      /\ e.done = c.done /\ e.lost = c.lost
      /\ \A b \in QueueBuffers : e.buf[b] = c.buf[b]
  BY <1>1, PlacesFacts DEF RefreshTick, Controllers
<1> HIDE DEF e
<1>3. Whole(e)
  BY <1>2, SameWhole DEF Gone
<1>4. QED
  BY <1>3 DEF e

LEMMA TickedWhole ==
  ASSUME NEW c, Good(c), Whole(c)
  PROVE  Whole(Ticked(c))
BY TickClockGood, ServeGood, TickClockWhole, ServeWhole, RefreshTickWhole
   DEF Ticked

LEMMA WholeAdded ==
  ASSUME NEW c, NEW e, NEW a \in Places, Whole(c), c.sent \in Nat,
         With(Ids(c), Ids(e), a, c.sent + 1), e.sent = c.sent + 1,
         Gone(e) = Gone(c)
  PROVE  Whole(e)
<1>1. Partition(Ids(c), c.sent, Gone(c)) /\ Gone(c) \in SUBSET (1 .. c.sent)
  BY DEF Whole
<1>2. Partition(Ids(e), c.sent + 1, Gone(c))
  BY <1>1, Added
<1>3. 1 .. c.sent \subseteq 1 .. c.sent + 1
  OBVIOUS
<1>4. QED
  BY <1>1, <1>2, <1>3 DEF Whole

LEMMA AcceptedWhole ==
  ASSUME NEW c, Good(c), Whole(c), NEW m \in Menu
  PROVE  Whole(Accepted(c, m))
<1> DEFINE e == Accepted(c, m)
<1>1. c \in Controllers /\ c.sent \in Nat /\ c.pending \in Seq(Departures)
  BY DEF Good, Controllers
<1>2. Good(e)
  BY AcceptedGood
<1>3. CASE Forwards(c, m)
  <2> DEFINE r == [id |-> c.sent + 1, wait |-> 1, fwd |-> TRUE]
  <2>1. /\ e.buf = c.buf /\ e.done = c.done /\ e.lost = c.lost
        /\ e.sent = c.sent + 1 /\ e.pending = Append(c.pending, r)
    BY <1>1, <1>3 DEF Accepted, Forward, Controllers
  <2> HIDE DEF e
  <2>2. /\ Line(c, "pending") = c.pending /\ Line(e, "pending") = e.pending
        /\ SameBut(c, e, "pending")
    BY <2>1 DEF Line, SameBut
  <2>3. r.id = c.sent + 1
    OBVIOUS
  <2> HIDE DEF r
  <2>4. Longer(c.pending, e.pending, c.sent + 1)
    BY <1>1, <2>1, <2>3, AppendLonger
  <2>5. With(Ids(c), Ids(e), "pending", c.sent + 1)
    BY <1>2, <2>2, <2>4, PlacesFacts, WithLine
  <2>6. Whole(e)
    BY <1>1, <2>1, <2>5, PlacesFacts, WholeAdded DEF Gone
  <2>7. QED
    BY <2>6 DEF e
<1>4. CASE ~Forwards(c, m)
  <2> DEFINE now == IF c.stamp = 0 THEN c.sent + 1 ELSE c.stamp
             r == [id |-> c.sent + 1, type |-> m.type, path |-> m.path,
                   row |-> m.row, col |-> m.col, arrive |-> now]
             a == BufferOf(m.type)
  <2>1. a \in QueueBuffers
    BY DEF BufferOf, QueueBuffers
  <2>2. a \in Buffers /\ a \in Places
    BY <2>1, PlacesFacts
  <2>3. /\ e.pending = c.pending /\ e.done = c.done /\ e.lost = c.lost
        /\ e.sent = c.sent + 1 /\ e.buf[a] = Append(c.buf[a], r)
        /\ \A b \in Buffers \ {a} : e.buf[b] = c.buf[b]
    BY <1>1, <1>4, <2>2 DEF Accepted, Enqueue, Controllers
  <2>4. r.id = c.sent + 1
    OBVIOUS
  <2>5. c.buf[a] \in Seq(Held)
    BY <2>2, GoodBuffer
  <2> HIDE DEF e, a, r
  <2>6. /\ Line(c, a) = c.buf[a] /\ Line(e, a) = e.buf[a]
        /\ SameBut(c, e, a)
    BY <2>1, <2>3, PlacesFacts DEF Line, Places, SameBut
  <2>7. Longer(c.buf[a], e.buf[a], c.sent + 1)
    BY <2>3, <2>4, <2>5, AppendLonger
  <2>8. With(Ids(c), Ids(e), a, c.sent + 1)
    BY <1>2, <2>2, <2>6, <2>7, WithLine
  <2>9. Whole(e)
    BY <1>1, <2>2, <2>3, <2>8, WholeAdded DEF Gone
  <2>10. QED
    BY <2>9 DEF e
<1>5. QED
  BY <1>3, <1>4

----------------------------------------------------------------------------
(* Scheduling: only a barrier at the head of the pim buffer leaves.        *)

LEMMA SetWriteModeWhole ==
  ASSUME NEW c, Good(c), Whole(c)
  PROVE  Whole(SetWriteMode(c))
<1> DEFINE e == SetWriteMode(c)
<1>1. /\ e.buf = c.buf /\ e.pending = c.pending /\ e.sent = c.sent
      /\ e.done = c.done /\ e.lost = c.lost
  BY DEF SetWriteMode, Good, Controllers
<1> HIDE DEF e
<1>2. Whole(e)
  BY <1>1, SameWhole DEF Gone
<1>3. QED
  BY <1>2 DEF e

LEMMA IsPimWhole ==
  ASSUME NEW c, Good(c), Whole(c), NEW mode
  PROVE  Whole([c EXCEPT !.isPim = mode])
<1> DEFINE e == [c EXCEPT !.isPim = mode]
<1>1. /\ e.buf = c.buf /\ e.pending = c.pending /\ e.sent = c.sent
      /\ e.done = c.done /\ e.lost = c.lost
  BY DEF Good, Controllers
<1> HIDE DEF e
<1>2. Whole(e)
  BY <1>1, SameWhole DEF Gone
<1>3. QED
  BY <1>2 DEF e

LEMMA WithoutBarrierWhole ==
  ASSUME NEW c, Good(c), Whole(c)
  PROVE  Whole(WithoutBarrier(c))
<1> DEFINE e == WithoutBarrier(c)
           s == c.buf["pim"]
<1>1. /\ c \in Controllers /\ s \in Seq(Held)
      /\ "pim" \in QueueBuffers /\ "pim" \in Buffers /\ "pim" \in Places
  BY GoodBuffer, PlacesFacts DEF Good
<1>2. /\ e.pending = c.pending /\ e.sent = c.sent /\ e.lost = c.lost
      /\ e.buf["pim"] = DropBarrier(s)
      /\ e.done = IF s = DropBarrier(s) THEN c.done ELSE c.done \cup {s[1].id}
      /\ \A b \in Buffers \ {"pim"} : e.buf[b] = c.buf[b]
  BY <1>1 DEF WithoutBarrier, Controllers
<1>3. Good(e)
  BY WithoutBarrierGood
<1> HIDE DEF e, s
<1>4. CASE DropBarrier(s) = s
  <2>1. \A b \in QueueBuffers : e.buf[b] = c.buf[b]
    BY <1>2, <1>4, PlacesFacts DEF s
  <2>2. Whole(e)
    BY <1>2, <1>4, <2>1, SameWhole DEF Gone
  <2>3. QED
    BY <2>2 DEF e
<1>5. CASE DropBarrier(s) # s
  <2>1. s # <<>> /\ DropBarrier(s) = Tail(s)
    BY <1>5 DEF DropBarrier
  <2>2. Shorter(s, e.buf["pim"], 1)
    BY <1>1, <1>2, <2>1, TailShorter
  <2>3. /\ Line(c, "pim") = s /\ Line(e, "pim") = e.buf["pim"]
        /\ SameBut(c, e, "pim")
    BY <1>2, PlacesFacts DEF Line, Places, SameBut, s
  <2>4. Without(Ids(c), Ids(e), "pim", 1) /\ Ids(c)["pim"][1] = s[1].id
    BY <1>1, <1>3, <2>2, <2>3, WithoutLine
  <2>5. Gone(e) = Gone(c) \cup {Ids(c)["pim"][1]}
    BY <1>2, <1>5, <2>4 DEF Gone
  <2>6. Whole(e)
    BY <1>1, <1>2, <2>4, <2>5, WholeTakenOut
  <2>7. QED
    BY <2>6 DEF e
<1>6. QED
  BY <1>4, <1>5

LEMMA ScheduleMemoryWhole ==
  ASSUME NEW d, NEW c, Good(c), Whole(c), NEW first,
         NEW p \in ScheduleMemory(d, c, first)
  PROVE  Whole(p.ctl)
<1> DEFINE c1 == SetWriteMode(c)
           b == IF c1.writeMode THEN "write" ELSE "read"
<1>1. p.ctl = c1
  <2>1. p \in Picks(d, c1, b, first) \/ p = NoPick(c1)
    BY DEF ScheduleMemory, OrElse
  <2> HIDE DEF c1, b
  <2>2. \A q \in Picks(d, c1, b, first) : q.ctl = c1
    BY DEF Picks, Pick, PickWith
  <2>3. NoPick(c1).ctl = c1
    BY DEF NoPick
  <2>4. QED
    BY <2>1, <2>2, <2>3
<1>2. QED
  BY <1>1, SetWriteModeWhole

LEMMA SchedulePIMWhole ==
  ASSUME NEW d, NEW c, Good(c), Whole(c), NEW first,
         NEW p \in SchedulePIM(d, c, first)
  PROVE  Whole(p.ctl)
<1> DEFINE c1 == WithoutBarrier(c)
<1>1. Good(c1) /\ Whole(c1)
  BY WithoutBarrierGood, WithoutBarrierWhole
<1>2. \/ p.ctl = [c1 EXCEPT !.isPim = TRUE]
      \/ p \in ScheduleMemory(d, c1, first)
  <2> HIDE DEF c1
  <2>1. \/ p \in { [q EXCEPT !.ctl.isPim = TRUE] :
                      q \in Found(Picks(d, c1, "pim", first)) }
        \/ p \in ScheduleMemory(d, c1, first)
    BY DEF SchedulePIM, OrElse, c1
  <2>2. ASSUME NEW q \in Found(Picks(d, c1, "pim", first)),
               p = [q EXCEPT !.ctl.isPim = TRUE]
        PROVE  p.ctl = [c1 EXCEPT !.isPim = TRUE]
    <3>1. PICK i \in BestRequest(d, c1.buf["pim"]) : q = Pick(d, c1, "pim", i, first)
      BY DEF Found, Picks
    <3>2. p = [Pick(d, c1, "pim", i, first) EXCEPT !.ctl.isPim = TRUE]
      BY <2>2, <3>1
    <3>3. QED
      BY <3>2 DEF Pick, PickWith
  <2>3. QED
    BY <2>1, <2>2
<1> HIDE DEF c1
<1>3. QED
  BY <1>1, <1>2, IsPimWhole, ScheduleMemoryWhole

LEMMA ScheduleWhole ==
  ASSUME NEW d, NEW c, Good(c), Whole(c), NEW first,
         NEW p \in Schedule(d, c, first)
  PROVE  Whole(p.ctl)
<1> DEFINE c1 == [c EXCEPT !.isPim = FALSE]
<1>1. Whole(c1)
  BY IsPimWhole
<1>2. Good(c1)
  BY DEF Good, Controllers, Sorted
<1>3. PICK q \in OrElse(Found(Picks(d, c, "active", first)),
                        SchedulePriority(d, c, first)) :
        p = [q EXCEPT !.found = @ /\ ~Interrupts(q)]
  BY DEF Schedule
<1>4. \/ q \in Picks(d, c, "active", first)
      \/ q \in UrgentPicks(Pick(d, c, "priority", 1, first), first)
      \/ q \in SchedulePIM(d, c1, first)
  BY <1>3 DEF OrElse, Found, SchedulePriority
<1> HIDE DEF c1
<1>5. CASE q \in SchedulePIM(d, c1, first)
  <2>1. Whole(q.ctl) /\ Sound(q)
    BY <1>1, <1>2, <1>5, SchedulePIMWhole, SchedulePIMSound
  <2>2. QED
    BY <1>3, <2>1 DEF Sound
<1>6. CASE q \in Picks(d, c, "active", first)
  <2>1. p.ctl = c
    BY <1>3, <1>6 DEF Picks, Pick, PickWith
  <2>2. QED
    BY <2>1
<1>7. CASE q \in UrgentPicks(Pick(d, c, "priority", 1, first), first)
  <2> DEFINE u == Pick(d, c, "priority", 1, first)
  <2>1. q = [u EXCEPT !.ctl.isPim = FALSE] \/ q = u
    BY <1>7 DEF UrgentPicks
  <2>2. [u EXCEPT !.ctl.isPim = FALSE] = [u EXCEPT !.ctl = c1]
    BY DEF Pick, PickWith, c1
  <2>3. [[u EXCEPT !.ctl = c1] EXCEPT !.found = @ /\ ~Interrupts(q)].ctl = c1
    BY DEF Pick, PickWith
  <2>4. [u EXCEPT !.found = @ /\ ~Interrupts(q)].ctl = c
    BY DEF Pick, PickWith
  <2> HIDE DEF u
  <2>5. p.ctl = c \/ p.ctl = c1
    BY <1>3, <2>1, <2>2, <2>3, <2>4
  <2>6. QED
    BY <1>1, <2>5
<1>8. QED
  BY <1>4, <1>5, <1>6, <1>7

----------------------------------------------------------------------------
(* Issuing a command.                                                      *)

LEMMA WholeMoved ==
  ASSUME NEW c, NEW e, NEW f, NEW a \in Places, NEW k, NEW b \in Places,
         Whole(c), Without(Ids(c), Ids(e), a, k),
         With(Ids(e), Ids(f), b, Ids(c)[a][k]),
         f.sent = c.sent, Gone(f) = Gone(c)
  PROVE  Whole(f)
<1>1. Partition(Ids(c), c.sent, Gone(c)) /\ Gone(c) \subseteq 1 .. c.sent
  BY DEF Whole
<1>2. Partition(Ids(f), c.sent, Gone(c))
  BY <1>1, Moved
<1>3. QED
  BY <1>1, <1>2 DEF Whole

LEMMA EraseFields ==
  ASSUME NEW c \in Controllers, NEW p, p.from \in Buffers
  PROVE  /\ Erase(c, p).pending = c.pending /\ Erase(c, p).sent = c.sent
         /\ Erase(c, p).done = c.done /\ Erase(c, p).lost = c.lost
         /\ Erase(c, p).buf[p.from] = RemoveAt(c.buf[p.from], p.at)
         /\ \A b \in Buffers \ {p.from} : Erase(c, p).buf[b] = c.buf[b]
BY DEF Erase, Controllers

LEMMA EraseLine ==
  ASSUME NEW c, Good(c), NEW p, p.from \in QueueBuffers,
         p.at \in 1 .. Len(c.buf[p.from])
  PROVE  /\ Without(Ids(c), Ids(Erase(c, p)), p.from, p.at)
         /\ Ids(c)[p.from][p.at] = c.buf[p.from][p.at].id
<1> DEFINE e == Erase(c, p)
           a == p.from
           k == p.at
           s == c.buf[a]
           t == RemoveAt(s, k)
<1>1. a \in Buffers /\ a \in Places /\ a # "pending"
  BY PlacesFacts
<1>2. Good(e) /\ c \in Controllers
  BY <1>1, EraseGood DEF Good
<1>3. s \in Seq(Held) /\ k \in 1 .. Len(s)
  BY <1>1, GoodBuffer
<1> HIDE DEF s
<1>4. Shorter(s, t, k)
  BY <1>3, RemoveAtFacts DEF Shorter
<1>5. /\ e.pending = c.pending /\ e.buf[a] = t
      /\ \A b \in Buffers \ {a} : e.buf[b] = c.buf[b]
  BY <1>1, <1>2, EraseFields DEF s
<1> HIDE DEF e, t
<1>6. Line(c, a) = s /\ Line(e, a) = t /\ SameBut(c, e, a)
  BY <1>1, <1>5, PlacesFacts DEF Line, Places, SameBut, s
<1> HIDE DEF a, k
<1>7. Without(Ids(c), Ids(e), a, k) /\ Ids(c)[a][k] = s[k].id
  BY <1>1, <1>2, <1>4, <1>6, WithoutLine
<1>8. QED
  BY <1>7 DEF a, e, k, s

\* The last command of a request of the priority buffer, of a read, and of
\* any other request.
LEMMA FinishWhole ==
  ASSUME NEW p, Sound(p), Whole(p.ctl), Finishes(p)
  PROVE  Whole(Erase(Finish(p.ctl, p), p))
<1> DEFINE c == p.ctl
           r == Chosen(p)
           f == Finish(c, p)
           e == Erase(c, p)
           g == Erase(f, p)
<1>1. /\ Good(c) /\ c \in Controllers /\ p.found
      /\ p.from \in Buffers /\ p.at \in 1 .. Len(c.buf[p.from])
      /\ r.type \in Kept(p.from)
  BY GoodBuffer DEF Sound, Good, Sorted, Finishes, Chosen
<1>2. Good(f) /\ f \in Controllers /\ f.buf = c.buf
  BY <1>1, FinishGood DEF Good
<1>3. Good(g) /\ Good(e)
  BY <1>1, <1>2, EraseGood
<1>4. /\ g.pending = f.pending /\ g.sent = f.sent
      /\ g.done = f.done /\ g.lost = f.lost
      /\ e.pending = c.pending /\ e.sent = c.sent
      /\ e.done = c.done /\ e.lost = c.lost
      /\ \A b \in Buffers : g.buf[b] = e.buf[b]
      /\ \A b \in Buffers \ {p.from} : e.buf[b] = c.buf[b]
  BY <1>1, <1>2, EraseFields
<1>5. f.sent = c.sent /\ f.lost = c.lost
  BY <1>1 DEF Finish, Controllers
<1>6. CASE p.from = "priority"
  <2>1. f = c
    <3>1. r.type = "REF"
      BY <1>1, <1>6, KeptFacts
    <3>2. QED
      BY <3>1 DEF Finish
  <2> HIDE DEF c, f, e, g
  <2>2. Whole(g)
    <3>1. \A b \in QueueBuffers : g.buf[b] = c.buf[b]
      BY <1>4, <1>6, PlacesFacts
    <3>2. Whole(c)
      BY DEF c
    <3>3. QED
      BY <1>4, <2>1, <3>1, <3>2, SameWhole DEF Gone
  <2>3. QED
    BY <2>2 DEF c, f, g
<1>7. CASE p.from # "priority" /\ r.type = "Read"
  <2> DEFINE departure == [id |-> r.id, wait |-> ReadLatency, fwd |-> FALSE]
  <2>1. f.pending = Append(c.pending, departure) /\ f.done = c.done
    BY <1>1, <1>7 DEF Finish, Controllers
  <2>2. departure.id = r.id
    OBVIOUS
  <2>3. p.from \in QueueBuffers
    BY <1>1, <1>7 DEF Buffers
  <2>4. Without(Ids(c), Ids(e), p.from, p.at) /\ Ids(c)[p.from][p.at] = r.id
    BY <1>1, <2>3, EraseLine DEF Chosen
  <2>5. c.pending \in Seq(Departures)
    BY <1>1 DEF Controllers
  <2> HIDE DEF c, r, f, e, g, departure
  <2>6. /\ Line(e, "pending") = c.pending
        /\ Line(g, "pending") = Append(c.pending, departure)
        /\ SameBut(e, g, "pending")
    BY <1>4, <2>1, PlacesFacts DEF Line, Places, SameBut
  <2>7. Longer(Line(e, "pending"), Line(g, "pending"), r.id)
    BY <2>2, <2>5, <2>6, AppendLonger
  <2>8. With(Ids(e), Ids(g), "pending", r.id)
    BY <1>3, <2>6, <2>7, PlacesFacts, WithLine
  <2>9. Whole(c)
    BY DEF c
  <2>10. g.sent = c.sent /\ Gone(g) = Gone(c)
    BY <1>4, <1>5, <2>1 DEF Gone
  <2>11. Whole(g)
    <3>1. p.from \in Places /\ "pending" \in Places
      BY <2>3, PlacesFacts
    <3>2. QED
      BY <2>4, <2>8, <2>9, <2>10, <3>1, WholeMoved
  <2>12. QED
    BY <2>11 DEF c, f, g
<1>8. CASE p.from # "priority" /\ r.type # "Read"
  <2>1. p.from \in QueueBuffers
    BY <1>1, <1>8 DEF Buffers
  <2>2. r.type # "REF"
    BY <1>1, <2>1, KeptFacts DEF QueueBuffers, MemTypes, PIMTypes
  <2>3. f.pending = c.pending /\ f.done = c.done \cup {r.id}
    BY <1>1, <1>8, <2>2 DEF Finish, Controllers
  <2>4. Without(Ids(c), Ids(e), p.from, p.at) /\ Ids(c)[p.from][p.at] = r.id
    BY <1>1, <2>1, EraseLine DEF Chosen
  <2> HIDE DEF c, r, f, e, g
  <2>5. Ids(g) = Ids(e)
    <3>1. \A b \in Places : Line(g, b) = Line(e, b)
      BY <1>4, <2>3, PlacesFacts DEF Line, Places
    <3>2. QED
      BY <3>1 DEF Ids
  <2>6. Whole(c) /\ p.from \in Places
    BY <2>1, PlacesFacts DEF c
  <2>7. g.sent = c.sent /\ Gone(g) = Gone(c) \cup {r.id}
    BY <1>4, <1>5, <2>3 DEF Gone
  <2>8. Whole(g)
    BY <2>4, <2>5, <2>6, <2>7, WholeTakenOut
  <2>9. QED
    BY <2>8 DEF c, f, g
<1>9. QED
  BY <1>6, <1>7, <1>8

\* Removing the k-th element before or after r is appended makes no difference.
LEMMA RemoveAtAppend ==
  ASSUME NEW S, NEW s \in Seq(S), NEW k \in 1 .. Len(s), NEW r \in S
  PROVE  Longer(RemoveAt(s, k), RemoveAt(Append(s, r), k), r.id)
<1> DEFINE t == Append(s, r)
           t1 == RemoveAt(t, k)
           s1 == RemoveAt(s, k)
<1>1. /\ t \in Seq(S) /\ Len(t) = Len(s) + 1
      /\ \A i \in 1 .. Len(s) : t[i] = s[i]
      /\ t[Len(s) + 1] = r
  OBVIOUS
<1>2. /\ Len(s1) = Len(s) - 1
      /\ \A i \in 1 .. Len(s) - 1 : s1[i] = IF i < k THEN s[i] ELSE s[i + 1]
  BY RemoveAtFacts
<1>3. /\ Len(t1) = Len(t) - 1
      /\ \A i \in 1 .. Len(t) - 1 : t1[i] = IF i < k THEN t[i] ELSE t[i + 1]
  <2> HIDE DEF t
  <2>1. k \in 1 .. Len(t)
    BY <1>1
  <2>2. QED
    BY <1>1, <2>1, RemoveAtFacts
<1> HIDE DEF t, t1, s1
<1>4. Len(t1) = Len(s1) + 1 /\ Len(s) \in Nat
  BY <1>1, <1>2, <1>3
<1>5. ASSUME NEW i \in 1 .. Len(s) - 1 PROVE t1[i] = s1[i]
  <2>1. t[i] = s[i] /\ t[i + 1] = s[i + 1]
    BY <1>1, <1>4
  <2>2. i \in 1 .. Len(t) - 1
    BY <1>1, <1>4
  <2>3. QED
    BY <1>2, <1>3, <2>1, <2>2
<1>6. t1[Len(s)] = r
  <2>1. Len(s) \in 1 .. Len(t) - 1 /\ ~(Len(s) < k)
    BY <1>1, <1>4
  <2>2. QED
    BY <1>1, <1>3, <2>1
<1>7. Longer(s1, t1, r.id)
  BY <1>2, <1>4, <1>5, <1>6 DEF Longer
<1>8. QED
  BY <1>7 DEF t, t1, s1

LEMMA ActivateWhole ==
  ASSUME NEW p, Sound(p), Whole(p.ctl), Activates(p)
  PROVE  Whole(Erase(Activate(p.ctl, p), p))
<1> DEFINE c == p.ctl
           r == Chosen(p)
           f == Activate(c, p)
           e == Erase(c, p)
           g == Erase(f, p)
           s == c.buf["active"]
<1>1. /\ Good(c) /\ c \in Controllers
      /\ p.from \in Buffers /\ p.at \in 1 .. Len(c.buf[p.from])
      /\ r.type \in Kept(p.from) /\ r.type \in MemTypes
      /\ r \in Held /\ r = c.buf[p.from][p.at]
  BY GoodBuffer, ChosenHeld DEF Sound, Good, Sorted, Activates, Chosen
<1>2. Good(f) /\ f \in Controllers /\ p.at \in 1 .. Len(f.buf[p.from])
  BY ActivateGood DEF Good
<1>3. Good(g) /\ Good(e)
  BY <1>1, <1>2, EraseGood
<1>4. p.from \in QueueBuffers /\ p.from \in Places
  <2>1. p.from # "priority"
    BY <1>1, KeptFacts DEF MemTypes
  <2>2. QED
    BY <1>1, <2>1, PlacesFacts DEF Buffers
<1>5. Without(Ids(c), Ids(e), p.from, p.at) /\ Ids(c)[p.from][p.at] = r.id
  BY <1>1, <1>4, EraseLine
<1>6. /\ g.pending = f.pending /\ g.sent = f.sent
      /\ g.done = f.done /\ g.lost = f.lost
      /\ e.pending = c.pending /\ e.sent = c.sent
      /\ g.buf[p.from] = RemoveAt(f.buf[p.from], p.at)
      /\ e.buf[p.from] = RemoveAt(c.buf[p.from], p.at)
      /\ \A b \in Buffers \ {p.from} : g.buf[b] = f.buf[b] /\ e.buf[b] = c.buf[b]
  BY <1>1, <1>2, EraseFields
<1>7. f.sent = c.sent /\ f.done = c.done /\ f.pending = c.pending
  BY <1>1 DEF Activate, Controllers
<1>8. CASE Len(s) <= ActiveSize
  <2>1. /\ f.lost = c.lost /\ f.buf["active"] = Append(s, r)
        /\ \A b \in Buffers \ {"active"} : f.buf[b] = c.buf[b]
    BY <1>1, <1>8, PlacesFacts DEF Activate, Controllers
  <2>2. s \in Seq(Held) /\ "active" \in Buffers /\ "active" \in Places
    BY <1>1, GoodBuffer, PlacesFacts
  <2> HIDE DEF f, e, g
  <2>3. Longer(e.buf["active"], g.buf["active"], r.id)
    <3>1. CASE p.from = "active"
      <4>1. /\ e.buf["active"] = RemoveAt(s, p.at)
            /\ g.buf["active"] = RemoveAt(Append(s, r), p.at)
            /\ p.at \in 1 .. Len(s)
        BY <1>1, <1>6, <2>1, <3>1
      <4> HIDE DEF s, r, c
      <4>2. QED
        BY <1>1, <2>2, <4>1, RemoveAtAppend
    <3>2. CASE p.from # "active"
      <4>1. e.buf["active"] = s /\ g.buf["active"] = Append(s, r)
        BY <1>6, <2>1, <2>2, <3>2
      <4> HIDE DEF s, r, c
      <4>2. QED
        BY <2>2, <4>1, AppendLonger
    <3>3. QED
      BY <3>1, <3>2
  <2> HIDE DEF c, r, s
  <2>4. SameBut(e, g, "active")
    BY <1>6, <1>7, <2>1, PlacesFacts DEF Line, Places, SameBut
  <2>5. Line(g, "active") = g.buf["active"] /\ Line(e, "active") = e.buf["active"]
    BY PlacesFacts DEF Line
  <2>6. With(Ids(e), Ids(g), "active", r.id)
    BY <1>3, <2>2, <2>3, <2>4, <2>5, WithLine
  <2>7. Whole(c) /\ g.sent = c.sent /\ Gone(g) = Gone(c)
    BY <1>6, <1>7, <2>1 DEF Gone, c
  <2>8. Whole(g)
    BY <1>4, <1>5, <2>2, <2>6, <2>7, WholeMoved
  <2>9. QED
    BY <2>8 DEF c, f, g
<1>9. CASE ~(Len(s) <= ActiveSize)
  <2>1. f.lost = c.lost \cup {r.id} /\ f.buf = c.buf
    BY <1>1, <1>9 DEF Activate, Controllers
  <2> HIDE DEF f, e, g, c, r, s
  <2>2. Ids(g) = Ids(e)
    <3>1. \A b \in Places : Line(g, b) = Line(e, b)
      BY <1>6, <1>7, <2>1, PlacesFacts DEF Line, Places
    <3>2. QED
      BY <3>1 DEF Ids
  <2>3. Whole(c) /\ g.sent = c.sent /\ Gone(g) = Gone(c) \cup {r.id}
    BY <1>6, <1>7, <2>1 DEF Gone, c
  <2>4. Whole(g)
    BY <1>4, <1>5, <2>2, <2>3, WholeTakenOut
  <2>5. QED
    BY <2>4 DEF c, f, g
<1>10. QED
  BY <1>8, <1>9

LEMMA AfterIssueWhole ==
  ASSUME NEW p, Sound(p), Whole(p.ctl)
  PROVE  Whole(AfterIssue(p))
BY FinishWhole, ActivateWhole DEF AfterIssue

----------------------------------------------------------------------------
(* The invariant.  That of ControllerProofs is part of it: only because    *)
(* refreshes stay in the priority buffer, and nothing else gets there, is  *)
(* it safe to retire a refresh without recording it.                       *)

OnceInv == IInv /\ Whole(ctl)

LEMMA InitOnceInv == Init => OnceInv
<1> SUFFICES ASSUME Init PROVE OnceInv
  OBVIOUS
<1>1. IInv
  BY InitIInv
<1>2. /\ ctl.sent = 0 /\ ctl.done = {} /\ ctl.lost = {} /\ ctl.pending = <<>>
      /\ \A b \in Buffers : ctl.buf[b] = <<>>
  BY DEF Init, InitController
<1>3. \A b \in Places : Ids(ctl)[b] = [i \in {} |-> 0]
  BY <1>2, PlacesFacts DEF Ids, Line, Places
<1>4. Partition(Ids(ctl), 0, {})
  BY <1>3 DEF Partition
<1>5. QED
  BY <1>1, <1>2, <1>4 DEF OnceInv, Whole, Gone

LEMMA TickOnceInv == OnceInv /\ Tick => Whole(ctl')
<1> SUFFICES ASSUME OnceInv, Tick PROVE Whole(ctl')
  OBVIOUS
<1> DEFINE d == TickDevice(dev)
           c == Ticked(ctl)
<1>1. Good(c) /\ Whole(c)
  BY TickedGood, TickedWhole DEF OnceInv, IInv, TypeOK, BufferKinds, Good
<1>2. CASE Throw(d, c)
  BY <1>1, <1>2 DEF Throw
<1>3. CASE Serve(d, c)
  <2> HIDE DEF d, c
  <2>1. PICK p \in Schedule(d, c, "any") :
          \E first \in FirstCommands(p) :
            \E q \in Schedule(Issue(d, p), AfterIssue(p), first) :
              /\ dev' = Issue(Issue(d, p), q)
              /\ ctl' = AfterIssue(q)
    BY <1>3 DEF Serve
  <2>2. Good(AfterIssue(p)) /\ Whole(AfterIssue(p))
    BY <1>1, <2>1, ScheduleSound, ScheduleWhole, AfterIssueGood, AfterIssueWhole
  <2>3. PICK first \in FirstCommands(p) :
          \E q \in Schedule(Issue(d, p), AfterIssue(p), first) : ctl' = AfterIssue(q)
    BY <2>1
  <2>4. PICK q \in Schedule(Issue(d, p), AfterIssue(p), first) : ctl' = AfterIssue(q)
    BY <2>3
  <2>5. Whole(AfterIssue(q))
    BY <2>2, <2>4, ScheduleSound, ScheduleWhole, AfterIssueWhole
  <2>6. QED
    BY <2>4, <2>5
<1>4. QED
  BY <1>2, <1>3 DEF Tick

LEMMA SendOnceInv ==
  ASSUME NEW m \in Menu, OnceInv, Send(m)
  PROVE  Whole(ctl')
BY AcceptedWhole DEF Send, OnceInv, IInv, TypeOK, BufferKinds, Good

LEMMA NextOnceInv == OnceInv /\ [Next]_vars => OnceInv'
<1> SUFFICES ASSUME OnceInv, [Next]_vars PROVE OnceInv'
  OBVIOUS
<1>1. IInv'
  BY NextIInv DEF OnceInv
<1>2. CASE UNCHANGED vars
  BY <1>1, <1>2 DEF vars, OnceInv
<1>3. CASE Next
  BY <1>1, <1>3, TickOnceInv, SendOnceInv DEF Next, OnceInv
<1>4. QED
  BY <1>2, <1>3

\* HandledOnce: every accepted request is in exactly one place of the
\* controller until it is finished, or dropped by a full active buffer, and in
\* none afterwards, through both scheduling rounds of any tick.
THEOREM HandledOnce == Spec => []ExactlyOnce
<1>1. OnceInv => ExactlyOnce
  BY DEF OnceInv, Whole, Gone, ExactlyOnce
<1>2. QED
  BY <1>1, InitOnceInv, NextOnceInv, PTL DEF Spec
=============================================================================

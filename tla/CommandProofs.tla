-------------------------- MODULE CommandProofs ---------------------------
(***************************************************************************)
(* The commands a tick issues, for every value of the constants: where     *)
(* they come from, which constraints they have waited for, and what they   *)
(* leave behind.  From this, that a refreshing pseudo channel is left      *)
(* alone, that the bursts of two reads are apart on the data bus, the row  *)
(* cycle of every bank, the rows the active buffer holds open and the      *)
(* requests it has room for, and the lock step of all-bank traffic.  Then  *)
(* what the front end gets: the pass of get_best_request over a buffer of  *)
(* any length amounts to a simple rule, and the controller implements the  *)
(* abstract service.                                                       *)
(***************************************************************************)
EXTENDS ControllerProofs, SequenceTheorems, FiniteSetTheorems

----------------------------------------------------------------------------
(* The addresses, the constraints and the clocks.                          *)

LEMMA BankFacts ==
  ASSUME NEW b \in Banks
  PROVE  /\ b = <<b[1], b[2], b[3], b[4]>> /\ b \in Seq(Int) /\ Len(b) = 4
         /\ b[1] \in 0 .. NumPC - 1
         /\ b \in Prefixes(b) /\ <<>> \in Prefixes(b) /\ <<b[1]>> \in Prefixes(b)
<1>1. PICK p \in 0 .. NumPC - 1, r \in 0 .. NumRank - 1,
           g \in 0 .. NumBG - 1, k \in 0 .. NumBank - 1 : b = <<p, r, g, k>>
  BY DEF Banks
<1>2. b \in Seq(Int) /\ Len(b) = 4 BY <1>1
<1>3. SubSeq(b, 1, 4) = b BY <1>2, SubSeqFull
<1>4. SubSeq(b, 1, 0) = <<>> BY <1>1, <1>2
<1>5. SubSeq(b, 1, 1) = <<b[1]>>
  <2>1. /\ SubSeq(b, 1, 1) \in Seq(Int) /\ Len(SubSeq(b, 1, 1)) = 1
        /\ \A i \in 1 .. 1 : SubSeq(b, 1, 1)[i] = b[1]
    <3>1. b[1] \in Int BY <1>1
    <3>2. \A i \in 1 .. 1 : b[i] \in Int BY <3>1
    <3>3. /\ SubSeq(b, 1, 1) \in Seq(Int)
          /\ Len(SubSeq(b, 1, 1)) = (IF 1 <= 1 THEN 1 - 1 + 1 ELSE 0)
          /\ \A i \in 1 .. 1 - 1 + 1 : SubSeq(b, 1, 1)[i] = b[1 + i - 1]
      BY <3>2, SubSeqProperties
    <3> QED BY <3>3
  <2>2. <<b[1]>> \in Seq(Int) /\ Len(<<b[1]>>) = 1 /\ \A i \in 1 .. 1 : <<b[1]>>[i] = b[1]
    BY <1>1
  <2> HIDE <1>1
  <2> QED BY <2>1, <2>2, SeqEqual
<1>6. b = <<b[1], b[2], b[3], b[4]>> /\ b[1] \in 0 .. NumPC - 1 BY <1>1
<1> QED BY <1>2, <1>3, <1>4, <1>5, <1>6 DEF Prefixes

LEMMA LatencyFacts ==
  /\ Rule(1, {"REFab"}, {"ACTAB", "ACTSB", "ACTPB"}, T.nRFC) \subseteq Constraints
  /\ Rule(1, {"REFab"}, {"ACT"}, T.nRFC) \subseteq Constraints
  /\ Rule(1, Path, Path, T.nBL) \subseteq Constraints
  /\ Rule(4, {"ACT"}, {"PRE"}, T.nRAS) \subseteq Constraints
  /\ Rule(4, {"PRE"}, {"ACT"}, T.nRP) \subseteq Constraints
  /\ Rule(0, {"ACTAB"}, {"PREA"}, T.nRAS) \subseteq Constraints
  /\ Rule(0, {"PREA"}, {"ACTAB"}, T.nRP) \subseteq Constraints
<1>1. /\ Rule(1, {"REFab"}, {"ACTAB", "ACTSB", "ACTPB"}, T.nRFC) \subseteq PIMConstraints
      /\ Rule(1, Path, Path, T.nBL) \subseteq PIMConstraints
  BY DEF PIMConstraints
<1>2. /\ Rule(0, {"ACTAB"}, {"PREA"}, T.nRAS) \subseteq PIMConstraints
      /\ Rule(0, {"PREA"}, {"ACTAB"}, T.nRP) \subseteq PIMConstraints
  BY DEF PIMConstraints
<1>3. /\ Rule(1, {"REFab"}, {"ACT"}, T.nRFC) \subseteq DRAMConstraints
      /\ Rule(4, {"ACT"}, {"PRE"}, T.nRAS) \subseteq DRAMConstraints
      /\ Rule(4, {"PRE"}, {"ACT"}, T.nRP) \subseteq DRAMConstraints
  BY DEF DRAMConstraints
<1> QED BY <1>1, <1>2, <1>3 DEF Constraints
\* A constraint between two commands at node n.
Between(k, n, prev, next) ==
  k \in Constraints /\ k.level = Len(n) /\ k.prev = prev /\ k.next = next

LEMMA ConstraintType ==
  ASSUME NEW k \in Constraints
  PROVE  k.lat \in Int /\ k.lat <= Idle /\ Idle \in Nat
BY DeviceAssumption

\* A command that is ready has waited for every constraint of the nodes asked.
LEMMA Waited ==
  ASSUME NEW d, NEW cmd \in Commands, NEW path, CheckReady(d, cmd, path),
         NEW n \in Checked(cmd, path), Len(n) \in 0 .. 4,
         NEW k, NEW prev, Between(k, n, prev, cmd)
  PROVE  d.since[<<n, prev>>] >= k.lat
<1>1. k \in Before[Len(n)][cmd] BY DEF Before, Between, Levels
<1> QED BY <1>1 DEF CheckReady, Between

LEMMA ClockOf ==
  ASSUME NEW n \in Nodes, Len(n) \in 0 .. 4, NEW k, NEW prev \in Commands, NEW next,
         Between(k, n, prev, next)
  PROVE  <<n, prev>> \in Clocks /\ k \in After[Len(n)][prev]
<1>1. k \in After[Len(n)][prev] BY DEF After, Between, Levels
<1> QED BY <1>1 DEF Clocks

\* A tick adds one to an age until the constraint can refuse nothing.
LEMMA Aged ==
  ASSUME NEW d \in Devices, NEW n \in Nodes, Len(n) \in 0 .. 4, NEW k,
         NEW prev \in Commands, NEW next, Between(k, n, prev, next)
  PROVE  /\ d.since[<<n, prev>>] \in Nat /\ TickDevice(d).since[<<n, prev>>] \in Nat
         /\ \/ TickDevice(d).since[<<n, prev>>] = d.since[<<n, prev>>] + 1
            \/ d.since[<<n, prev>>] + 1 >= k.lat /\ TickDevice(d).since[<<n, prev>>] >= k.lat
<1>1. <<n, prev>> \in Clocks /\ k \in After[Len(n)][prev] BY ClockOf
<1>2. d.since[<<n, prev>>] \in Nat /\ TickDevice(d).since[<<n, prev>>] \in Nat
  BY <1>1, TickDeviceType DEF Devices
<1>3. TickDevice(d).since[<<n, prev>>] =
        IF \E j \in After[Len(n)][prev] : d.since[<<n, prev>>] + 1 < j.lat
          THEN d.since[<<n, prev>>] + 1 ELSE Idle
  BY <1>1 DEF TickDevice, Devices
<1>4. k.lat \in Int /\ k.lat <= Idle /\ Idle \in Nat BY ConstraintType DEF Between
<1>5. CASE d.since[<<n, prev>>] + 1 < k.lat BY <1>1, <1>2, <1>3, <1>5
<1>6. CASE ~(d.since[<<n, prev>>] + 1 < k.lat) BY <1>2, <1>3, <1>4, <1>6
<1> QED BY <1>2, <1>5, <1>6

LEMMA IssuedSince ==
  ASSUME NEW d, NEW cmd, NEW path, NEW row, NEW n, NEW c, <<n, c>> \in Clocks
  PROVE  IssueCommand(d, cmd, path, row).since[<<n, c>>] =
           IF c = cmd /\ n \in Touched(cmd, path) THEN 0 ELSE d.since[<<n, c>>]
BY DEF IssueCommand

----------------------------------------------------------------------------
(* What scheduling returns: where it comes from.                           *)

\* Scheduling leaves the queues alone, except for a barrier at the head of the
\* PIM buffer.
SameQueues(c, e) ==
  /\ e.pending = c.pending /\ e.sent = c.sent /\ e.stamp = c.stamp
  /\ e.lost = c.lost /\ e.failed = c.failed
  /\ \/ e.buf = c.buf /\ e.done = c.done
     \/ e.buf = WithoutBarrier(c).buf /\ e.done = WithoutBarrier(c).done

\* A found command is the one its request needs now, and is ready.
Fitting(d, p) == /\ p.cmd = CommandOf(d, Chosen(p))
                 /\ CheckReady(d, p.cmd, Chosen(p).path)

\* A found request is the one get_best_request chooses of its queue.
Best1(d, c, p) ==
  p.from \in QueueBuffers =>
    /\ p.at \in BestRequest(d, p.ctl.buf[p.from])
    /\ p.from = "pim" => p.ctl.buf = WithoutBarrier(c).buf /\ p.ctl.done = WithoutBarrier(c).done

FromQueues(d, c, first, p) ==
  /\ SameQueues(c, p.ctl)
  /\ p.ctl.isPim => c.isPim \/ p.ctl.buf["pim"] # <<>>
  /\ p.found => Fitting(d, p) /\ Differs(first, p.cmd) /\ Best1(d, c, p)

LEMMA SameQueuesItself ==
  ASSUME NEW c
  PROVE  SameQueues(c, c)
BY DEF SameQueues

LEMMA WithoutBarrierQueues ==
  ASSUME NEW c, Good(c)
  PROVE  /\ SameQueues(c, WithoutBarrier(c))
         /\ WithoutBarrier(c).isPim = c.isPim
         /\ WithoutBarrier(c).buf = [c.buf EXCEPT !["pim"] = DropBarrier(@)]
         /\ WithoutBarrier(c).done =
              IF c.buf["pim"] = DropBarrier(c.buf["pim"]) THEN c.done
              ELSE c.done \cup {c.buf["pim"][1].id}
BY DEF SameQueues, WithoutBarrier, Good, Controllers

LEMMA SetWriteModeQueues ==
  ASSUME NEW c, Good(c)
  PROVE  /\ SameQueues(c, SetWriteMode(c))
         /\ SetWriteMode(c).isPim = c.isPim /\ SetWriteMode(c).buf = c.buf
         /\ SetWriteMode(c).done = c.done
<1>1. PICK mode \in BOOLEAN : SetWriteMode(c) = [c EXCEPT !.writeMode = mode]
  BY DEF SetWriteMode, Good, Controllers
<1> QED BY <1>1 DEF SameQueues, Good, Controllers

LEMMA PickFields ==
  ASSUME NEW d, NEW c, NEW b, NEW i, NEW first
  PROVE  LET p == Pick(d, c, b, i, first)
         IN  /\ p.ctl = c /\ p.from = b /\ p.at = i
             /\ Chosen(p) = c.buf[b][i]
             /\ p.cmd = CommandOf(d, c.buf[b][i])
             /\ p.found => Fitting(d, p) /\ Differs(first, p.cmd)
BY DEF Pick, PickWith, Chosen, Fitting

LEMMA ScheduleMemoryFrom ==
  ASSUME NEW d, NEW c, Good(c), NEW first, NEW p \in ScheduleMemory(d, c, first)
  PROVE  /\ SameQueues(c, p.ctl) /\ p.ctl.isPim = c.isPim
         /\ p.ctl.buf = c.buf /\ p.ctl.done = c.done /\ p.from \in {"read", "write"}
         /\ p.found => /\ Fitting(d, p) /\ Differs(first, p.cmd)
                       /\ p.at \in BestRequest(d, p.ctl.buf[p.from])
<1> DEFINE c1 == SetWriteMode(c)
           b == IF c1.writeMode THEN "write" ELSE "read"
<1>1. /\ SameQueues(c, c1) /\ c1.isPim = c.isPim /\ c1.buf = c.buf /\ c1.done = c.done
  BY SetWriteModeQueues
<1>2. b \in {"read", "write"} OBVIOUS
<1>3. CASE p = NoPick(c1)
  BY <1>1, <1>3 DEF NoPick
<1>4. CASE p \in Picks(d, c1, b, first)
  <2>1. PICK i \in BestRequest(d, c1.buf[b]) : p = Pick(d, c1, b, i, first)
    BY <1>4 DEF Picks
  <2> HIDE DEF c1, b
  <2> QED BY <1>1, <1>2, <2>1, PickFields
<1> QED BY <1>3, <1>4 DEF ScheduleMemory, OrElse

LEMMA SchedulePIMFrom ==
  ASSUME NEW d, NEW c, Good(c), NEW first, NEW p \in SchedulePIM(d, c, first)
  PROVE  FromQueues(d, c, first, p) /\ p.from # "active"
<1> DEFINE e == WithoutBarrier(c)
           best == Found(Picks(d, e, "pim", first))
<1>1. Good(e) /\ SameQueues(c, e) /\ e.isPim = c.isPim
  BY WithoutBarrierGood, WithoutBarrierQueues
<1>2. CASE p \in ScheduleMemory(d, e, first)
  <2> HIDE DEF e
  <2>1. /\ SameQueues(e, p.ctl) /\ p.ctl.isPim = e.isPim
        /\ p.ctl.buf = e.buf /\ p.ctl.done = e.done /\ p.from \in {"read", "write"}
        /\ p.found => /\ Fitting(d, p) /\ Differs(first, p.cmd)
                      /\ p.at \in BestRequest(d, p.ctl.buf[p.from])
    BY <1>1, <1>2, ScheduleMemoryFrom
  <2>2. SameQueues(c, p.ctl) BY <1>1, <2>1 DEF SameQueues
  <2> QED BY <1>1, <2>1, <2>2 DEF FromQueues, Best1
<1>3. CASE p \in { [q EXCEPT !.ctl.isPim = TRUE] : q \in best }
  <2>1. PICK i \in BestRequest(d, e.buf["pim"]) :
          p = [Pick(d, e, "pim", i, first) EXCEPT !.ctl.isPim = TRUE] /\ Pick(d, e, "pim", i, first).found
    BY <1>3 DEF Picks, Found
  <2> DEFINE q == Pick(d, e, "pim", i, first)
             f == [e EXCEPT !.isPim = TRUE]
  <2>2. /\ q.ctl = e /\ q.from = "pim" /\ q.at = i /\ q.cmd = CommandOf(d, e.buf["pim"][i])
        /\ Fitting(d, q) /\ Differs(first, q.cmd) /\ Chosen(q) = e.buf["pim"][i]
    BY <2>1, PickFields
  <2>3. f.buf = e.buf /\ SameQueues(c, f) /\ f.done = e.done
    BY <1>1 DEF SameQueues, Good, Controllers
  <2>4. p.ctl = f /\ p.from = "pim" /\ p.at = i /\ p.cmd = q.cmd /\ p.found
    BY <2>1, <2>2 DEF Pick, PickWith
  <2>5. i \in DOMAIN e.buf["pim"] BY <2>1, BestIsIndex
  <2>6. Chosen(p) = Chosen(q) BY <2>2, <2>3, <2>4 DEF Chosen
  <2>7. f.buf["pim"] # <<>>
    <3>1. e.buf["pim"] \in Seq(Held) BY <1>1, GoodBuffer DEF Buffers, QueueBuffers
    <3> HIDE DEF e, f
    <3> QED BY <2>3, <2>5, <3>1
  <2> HIDE DEF q, f
  <2> QED BY <2>1, <2>2, <2>3, <2>4, <2>6, <2>7 DEF FromQueues, Best1, Fitting
<1> QED BY <1>2, <1>3 DEF SchedulePIM, OrElse

LEMMA SchedulePriorityFrom ==
  ASSUME NEW d, NEW c, Good(c), NEW first, NEW p \in SchedulePriority(d, c, first)
  PROVE  FromQueues(d, c, first, p)
<1> DEFINE c1 == [c EXCEPT !.isPim = FALSE]
           q  == Pick(d, c, "priority", 1, first)
<1>1. Good(c1) /\ SameQueues(c, c1) /\ c1.buf = c.buf /\ c1.done = c.done /\ c1.isPim = FALSE
  BY DEF Good, Controllers, Sorted, SameQueues
<1>2. CASE p \in SchedulePIM(d, c1, first)
  <2> HIDE DEF c1
  <2>1. /\ WithoutBarrier(c1).buf = WithoutBarrier(c).buf
        /\ WithoutBarrier(c1).done = WithoutBarrier(c).done
    <3>1. /\ WithoutBarrier(c).buf = [c.buf EXCEPT !["pim"] = DropBarrier(@)]
          /\ WithoutBarrier(c).done =
               IF c.buf["pim"] = DropBarrier(c.buf["pim"]) THEN c.done
               ELSE c.done \cup {c.buf["pim"][1].id}
      BY WithoutBarrierQueues
    <3>2. /\ WithoutBarrier(c1).buf = [c1.buf EXCEPT !["pim"] = DropBarrier(@)]
          /\ WithoutBarrier(c1).done =
               IF c1.buf["pim"] = DropBarrier(c1.buf["pim"]) THEN c1.done
               ELSE c1.done \cup {c1.buf["pim"][1].id}
      BY <1>1, WithoutBarrierQueues
    <3> QED BY <1>1, <3>1, <3>2
  <2>2. FromQueues(d, c1, first, p) BY <1>1, <1>2, SchedulePIMFrom
  <2>3. SameQueues(c, p.ctl) BY <1>1, <2>1, <2>2 DEF SameQueues, FromQueues
  <2> QED BY <1>1, <2>1, <2>2, <2>3 DEF FromQueues, Best1
<1>3. CASE c.buf["priority"] # <<>> /\ p \in UrgentPicks(q, first)
  <2>1. /\ q.ctl = c /\ q.from = "priority" /\ q.at = 1 /\ Chosen(q) = c.buf["priority"][1]
        /\ q.found => Fitting(d, q) /\ Differs(first, q.cmd)
    BY PickFields
  <2>2. /\ p.from = "priority" /\ p.at = 1 /\ p.cmd = q.cmd /\ p.found = q.found
        /\ p.ctl \in {c, c1}
    BY <1>3, <2>1 DEF UrgentPicks, Pick, PickWith
  <2>3. p.ctl.isPim => c.isPim BY <1>1, <2>2
  <2>4. SameQueues(c, p.ctl) /\ p.ctl.buf = c.buf
    BY <1>1, <2>2, SameQueuesItself
  <2>5. Chosen(p) = Chosen(q) BY <2>1, <2>2, <2>4 DEF Chosen
  <2>6. p.from \notin QueueBuffers BY <2>2 DEF QueueBuffers
  <2> HIDE DEF q, c1
  <2> QED BY <2>1, <2>2, <2>3, <2>4, <2>5, <2>6 DEF FromQueues, Best1, Fitting
<1> QED BY <1>2, <1>3 DEF SchedulePriority, OrElse

\* All of it, and that no command closes the bank of an active request.
LEMMA ScheduleFrom ==
  ASSUME NEW d, NEW c, Good(c), NEW first, NEW p \in Schedule(d, c, first)
  PROVE  FromQueues(d, c, first, p) /\ (p.found => ~Interrupts(p))
<1> DEFINE active == Found(Picks(d, c, "active", first))
           picks  == OrElse(active, SchedulePriority(d, c, first))
<1>1. PICK q \in picks : p = [q EXCEPT !.found = @ /\ ~Interrupts(q)]
  BY DEF Schedule
<1>2. Sound(q) /\ FromQueues(d, c, first, q)
  <2>1. CASE q \in active
    <3>1. PICK i \in BestRequest(d, c.buf["active"]) : q = Pick(d, c, "active", i, first)
      BY <2>1 DEF Picks, Found
    <3>2. i \in DOMAIN c.buf["active"] /\ "active" \in Buffers
      BY <3>1, BestIsIndex DEF Buffers, QueueBuffers
    <3>3. Sound(q) BY <3>1, <3>2, PickSound
    <3>4. /\ q.ctl = c /\ q.from = "active" /\ q.at = i
          /\ q.found => Fitting(d, q) /\ Differs(first, q.cmd)
      BY <3>1, PickFields
    <3> QED BY <3>1, <3>3, <3>4, SameQueuesItself DEF FromQueues, Best1
  <2>2. CASE q \in SchedulePriority(d, c, first)
    BY <2>2, SchedulePrioritySound, SchedulePriorityFrom
  <2> QED BY <2>1, <2>2 DEF OrElse
<1>3. /\ p.ctl = q.ctl /\ p.from = q.from /\ p.at = q.at /\ p.cmd = q.cmd
      /\ p.found = (q.found /\ ~Interrupts(q))
  BY <1>1, <1>2 DEF Sound
<1>4. Chosen(p) = Chosen(q) BY <1>3 DEF Chosen
<1>5. Interrupts(p) = Interrupts(q) BY <1>3 DEF Interrupts
<1>6. q.found => Fitting(d, q) /\ Differs(first, q.cmd) /\ Best1(d, c, q)
  BY <1>2 DEF FromQueues
<1>7. p.found => Fitting(d, p) /\ Differs(first, p.cmd) /\ Best1(d, c, p)
  BY <1>3, <1>4, <1>6 DEF Fitting, Best1
<1> QED BY <1>2, <1>3, <1>5, <1>7 DEF FromQueues

----------------------------------------------------------------------------
(* What issuing a command does to the queues.                              *)

Taken(buf, p) == [buf EXCEPT ![p.from] = RemoveAt(@, p.at)]

Departure(r) == [id |-> r.id, wait |-> ReadLatency, fwd |-> FALSE]

\* The last command of r.
Finished(c, e, r, p) ==
  /\ e.buf = Taken(c.buf, p) /\ e.lost = c.lost
  /\ e.pending = IF r.type = "Read" THEN Append(c.pending, Departure(r)) ELSE c.pending
  /\ e.done = IF r.type \in {"Read", "REF"} THEN c.done ELSE c.done \cup {r.id}

\* The row of r opens.
Activated(c, e, r, p) ==
  /\ e.pending = c.pending /\ e.done = c.done
  /\ \/ /\ Len(c.buf["active"]) <= ActiveSize /\ e.lost = c.lost
        /\ e.buf = Taken([c.buf EXCEPT !["active"] = Append(@, r)], p)
     \/ /\ Len(c.buf["active"]) > ActiveSize /\ e.lost = c.lost \cup {r.id}
        /\ e.buf = Taken(c.buf, p)

LEMMA FinishEffect ==
  ASSUME NEW p, Sound(p), Finishes(p)
  PROVE  /\ Finished(p.ctl, AfterIssue(p), Chosen(p), p)
         /\ AfterIssue(p).sent = p.ctl.sent /\ AfterIssue(p).stamp = p.ctl.stamp
         /\ AfterIssue(p).isPim = p.ctl.isPim
<1> DEFINE c == p.ctl
           r == Chosen(p)
           f == Finish(c, p)
<1>1. c \in Controllers BY DEF Sound, Good
<1>2. /\ f.buf = c.buf /\ f.lost = c.lost /\ f \in Controllers
      /\ f.sent = c.sent /\ f.stamp = c.stamp /\ f.isPim = c.isPim
      /\ f.pending = IF r.type = "Read" THEN Append(c.pending, Departure(r)) ELSE c.pending
      /\ f.done = IF r.type \in {"Read", "REF"} THEN c.done ELSE c.done \cup {r.id}
  <2>1. f \in Controllers BY FinishGood DEF Finishes, Good
  <2> HIDE DEF c, r
  <2> QED BY <1>1, <2>1 DEF Finish, Controllers, Departure, r
<1> HIDE DEF f
<1>3. AfterIssue(p) = Erase(f, p) BY DEF AfterIssue, f
<1> QED BY <1>2, <1>3 DEF Erase, Controllers, Finished, Taken

LEMMA ActivateEffect ==
  ASSUME NEW p, Sound(p), Activates(p)
  PROVE  /\ Activated(p.ctl, AfterIssue(p), Chosen(p), p)
         /\ AfterIssue(p).sent = p.ctl.sent /\ AfterIssue(p).stamp = p.ctl.stamp
         /\ AfterIssue(p).isPim = p.ctl.isPim
<1> DEFINE c == p.ctl
           r == Chosen(p)
           f == Activate(c, p)
<1>1. c \in Controllers /\ Len(c.buf["active"]) \in Nat /\ ActiveSize \in Nat
  BY GoodBuffer, PlacesFacts, ControllerAssumption DEF Sound, Good
<1>2. AfterIssue(p) = Erase(f, p) BY DEF AfterIssue, Activates
<1>3. f \in Controllers BY ActivateGood DEF Good
<1>4. /\ f.pending = c.pending /\ f.done = c.done
      /\ f.sent = c.sent /\ f.stamp = c.stamp /\ f.isPim = c.isPim
      /\ \/ /\ Len(c.buf["active"]) <= ActiveSize /\ f.lost = c.lost
            /\ f.buf = [c.buf EXCEPT !["active"] = Append(@, r)]
         \/ /\ Len(c.buf["active"]) > ActiveSize /\ f.lost = c.lost \cup {r.id}
            /\ f.buf = c.buf
  <2> HIDE DEF c, r
  <2> QED BY <1>1 DEF Activate, Controllers, r
<1> HIDE DEF f
<1>5. /\ Erase(f, p).buf = Taken(f.buf, p)
      /\ Erase(f, p).pending = f.pending /\ Erase(f, p).done = f.done
      /\ Erase(f, p).sent = f.sent /\ Erase(f, p).stamp = f.stamp
      /\ Erase(f, p).isPim = f.isPim /\ Erase(f, p).lost = f.lost
  BY <1>3 DEF Erase, Controllers, Taken
<1> HIDE DEF c, r
<1>6. Activated(c, Erase(f, p), r, p)
  BY <1>4, <1>5, Zenon DEF Activated
<1> QED BY <1>2, <1>4, <1>5, <1>6 DEF c, r

LEMMA NoEffect ==
  ASSUME NEW p, ~Finishes(p), ~Activates(p)
  PROVE  AfterIssue(p) = p.ctl
BY DEF AfterIssue

----------------------------------------------------------------------------
(* The parts of a tick.                                                    *)

LEMMA TickClockFields ==
  ASSUME NEW c, Good(c)
  PROVE  LET e == TickClock(c)
         IN  /\ e.buf = c.buf /\ e.done = c.done /\ e.lost = c.lost
             /\ e.sent = c.sent /\ e.stamp = 0 /\ e.isPim = c.isPim
             /\ Len(e.pending) = Len(c.pending)
             /\ \A i \in 1 .. Len(c.pending) :
                  /\ e.pending[i].id = c.pending[i].id /\ e.pending[i].fwd = c.pending[i].fwd
                  /\ e.pending[i].wait = IF c.pending[i].wait > 0 THEN c.pending[i].wait - 1 ELSE 0
<1>1. c \in Controllers /\ c.pending \in Seq(Departures) /\ DOMAIN c.pending = 1 .. Len(c.pending)
  BY DEF Good, Controllers
<1> DEFINE line == [i \in DOMAIN c.pending |->
                      [c.pending[i] EXCEPT !.wait = IF @ > 0 THEN @ - 1 ELSE 0]]
           e == TickClock(c)
<1>2. e = [c EXCEPT !.stamp = 0, !.pending = line] BY DEF TickClock
<1>3. Good(e) /\ Len(e.pending) \in Nat /\ DOMAIN e.pending = 1 .. Len(e.pending)
  <2>1. Good(e) BY TickClockGood
  <2> QED BY <2>1 DEF Good, Controllers
<1>4. /\ e.buf = c.buf /\ e.done = c.done /\ e.lost = c.lost /\ e.sent = c.sent
      /\ e.stamp = 0 /\ e.isPim = c.isPim /\ e.pending = line
  <2> HIDE DEF line
  <2> QED BY <1>1, <1>2 DEF Controllers
<1>5. Len(e.pending) = Len(c.pending)
  <2>1. DOMAIN line = 1 .. Len(c.pending) BY <1>1
  <2>2. Len(c.pending) \in Nat BY <1>1
  <2> HIDE DEF line, e
  <2> QED BY <1>3, <1>4, <2>1, <2>2
<1>6. ASSUME NEW i \in 1 .. Len(c.pending)
      PROVE  /\ e.pending[i].id = c.pending[i].id /\ e.pending[i].fwd = c.pending[i].fwd
             /\ e.pending[i].wait = IF c.pending[i].wait > 0 THEN c.pending[i].wait - 1 ELSE 0
  <2>1. line[i] = [c.pending[i] EXCEPT !.wait = IF @ > 0 THEN @ - 1 ELSE 0] BY <1>1
  <2>2. c.pending[i] \in Departures BY <1>1
  <2>3. e.pending[i] = line[i] BY <1>4
  <2> HIDE DEF line, e
  <2> QED BY <2>1, <2>2, <2>3 DEF Departures
<1> HIDE DEF e
<1> QED BY <1>4, <1>5, <1>6 DEF e

LEMMA ServeFields ==
  ASSUME NEW c, Good(c)
  PROVE  LET e == ServeCompletedReads(c)
         IN  /\ e.buf = c.buf /\ e.lost = c.lost /\ e.sent = c.sent
             /\ e.stamp = c.stamp /\ e.isPim = c.isPim
             /\ \/ e.pending = c.pending /\ e.done = c.done
                \/ /\ c.pending # <<>> /\ c.pending[1].wait = 0
                   /\ e.pending = Tail(c.pending) /\ e.done = c.done \cup {c.pending[1].id}
BY DEF ServeCompletedReads, Good, Controllers

\* A burst of refresh requests.
Burst == [i \in 1 .. NumPC |-> RefreshRequest(i - 1)]

LEMMA RefreshTickFields ==
  ASSUME NEW c, Good(c)
  PROVE  LET e == RefreshTick(c)
         IN  /\ e.lost = c.lost /\ e.sent = c.sent /\ e.done = c.done
             /\ e.stamp = c.stamp /\ e.isPim = c.isPim /\ e.pending = c.pending
             /\ \/ e.buf = c.buf
                \/ Refreshing /\ e.buf = [c.buf EXCEPT !["priority"] = @ \o Burst]
<1>1. CASE ~Refreshing BY <1>1 DEF RefreshTick
<1>2. CASE Refreshing /\ c.refi > 1 BY <1>2 DEF RefreshTick, Good, Controllers
<1>3. CASE Refreshing /\ ~(c.refi > 1) /\ Len(c.buf["priority"]) + NumPC - 1 <= PrioritySize
  <2>1. RefreshTick(c) = [c EXCEPT !.refi = T.nREFI, !.buf["priority"] = @ \o Burst]
    BY <1>3 DEF RefreshTick, Burst
  <2> QED BY <1>3, <2>1 DEF Good, Controllers
<1>4. CASE Refreshing /\ ~(c.refi > 1) /\ ~(Len(c.buf["priority"]) + NumPC - 1 <= PrioritySize)
  BY <1>4 DEF RefreshTick, Good, Controllers
<1> QED BY <1>1, <1>2, <1>3, <1>4, ControllerAssumption

LEMMA BurstSeq == Burst \in Seq(Refreshes)
<1>1. \A i \in 1 .. NumPC : RefreshRequest(i - 1) \in Refreshes
  BY DeviceAssumption DEF Refreshes
<1>2. Burst \in [1 .. NumPC -> Refreshes] /\ NumPC \in Nat
  BY <1>1, DeviceAssumption DEF Burst
<1> QED BY <1>2

----------------------------------------------------------------------------
(* Requests come from outside and only move from buffer to buffer.         *)

Within(c, S) == \A b \in Buffers : c.buf[b] \in Seq(S)

LEMMA WithinBuffers ==
  ASSUME NEW c, Good(c), NEW e, NEW S, Within(c, S), NEW b \in Buffers,
         NEW s \in Seq(S), e.buf = [c.buf EXCEPT ![b] = s]
  PROVE  Within(e, S)
BY DEF Within, Good, Controllers

LEMMA TickedWithin ==
  ASSUME NEW c, Good(c), NEW S, Within(c, S), Refreshing => Refreshes \subseteq S
  PROVE  Within(Ticked(c), S)
<1> DEFINE e == ServeCompletedReads(TickClock(c))
<1>1. Good(e) BY TickClockGood, ServeGood
<1>2. e.buf = c.buf BY TickClockGood, TickClockFields, ServeFields
<1>3. Within(e, S) BY <1>2 DEF Within
<1> HIDE DEF e
<1>4. Within(RefreshTick(e), S)
  <2>1. CASE RefreshTick(e).buf = e.buf BY <1>3, <2>1 DEF Within
  <2>2. CASE Refreshing /\ RefreshTick(e).buf = [e.buf EXCEPT !["priority"] = @ \o Burst]
    <3>1. "priority" \in Buffers BY DEF Buffers
    <3>2. Burst \in Seq(S)
      <4>1. Seq(Refreshes) \subseteq Seq(S) BY <2>2
      <4> QED BY <4>1, BurstSeq
    <3>3. e.buf["priority"] \o Burst \in Seq(S)
      <4>1. e.buf["priority"] \in Seq(S) BY <1>3, <3>1 DEF Within
      <4> QED BY <3>2, <4>1
    <3> QED BY <1>1, <1>3, <2>2, <3>1, <3>3, WithinBuffers
  <2> QED BY <1>1, <2>1, <2>2, RefreshTickFields
<1> QED BY <1>4 DEF Ticked, e

LEMMA AcceptedFields ==
  ASSUME NEW c, Good(c), NEW m \in Menu
  PROVE  LET e == Accepted(c, m)
         IN  /\ e.done = c.done /\ e.lost = c.lost /\ e.isPim = c.isPim /\ e.sent = c.sent + 1
             /\ \/ /\ e.buf = c.buf /\ e.stamp = c.stamp
                   /\ e.pending = Append(c.pending, [id |-> c.sent + 1, wait |-> 1, fwd |-> TRUE])
                \/ \E now \in Nat :
                     LET b == BufferOf(m.type)
                         r == [id |-> c.sent + 1, type |-> m.type, path |-> m.path,
                               row |-> m.row, col |-> m.col, arrive |-> now]
                     IN  /\ e.pending = c.pending /\ e.stamp = now
                         /\ now = IF c.stamp = 0 THEN c.sent + 1 ELSE c.stamp
                         /\ b \in {"read", "write", "pim"} /\ m.type \in Kept(b)
                         /\ r \in Requests
                         /\ e.buf = [c.buf EXCEPT ![b] = Append(@, r)]
<1>1. CASE Forwards(c, m)
  BY <1>1 DEF Accepted, Forward, Good, Controllers
<1>2. CASE ~Forwards(c, m)
  <2> DEFINE now == IF c.stamp = 0 THEN c.sent + 1 ELSE c.stamp
             b == BufferOf(m.type)
             r == [id |-> c.sent + 1, type |-> m.type, path |-> m.path,
                   row |-> m.row, col |-> m.col, arrive |-> now]
  <2>1. c \in Controllers /\ c.sent \in Nat /\ now \in Nat BY DEF Good, Controllers
  <2>2. m.type \in MemTypes \cup PIMTypes /\ m.path \in Banks /\ m.row \in Rows /\ m.col \in Cols
    BY ControllerAssumption
  <2>3. b \in {"read", "write", "pim"} /\ m.type \in Kept(b)
    BY <2>2, KeptFacts DEF BufferOf, MemTypes, PIMTypes
  <2>4. r \in Requests
    <3> HIDE DEF now
    <3> QED BY <2>1, <2>2 DEF Requests
  <2>5. Accepted(c, m) = [c EXCEPT !.buf[b] = Append(@, r), !.sent = @ + 1, !.stamp = now]
    BY <1>2 DEF Accepted, Enqueue
  <2> HIDE DEF now, b, r
  <2>6. LET e == Accepted(c, m)
        IN  /\ e.done = c.done /\ e.lost = c.lost /\ e.isPim = c.isPim /\ e.sent = c.sent + 1
            /\ e.pending = c.pending /\ e.stamp = now
            /\ e.buf = [c.buf EXCEPT ![b] = Append(@, r)]
    BY <2>1, <2>5 DEF Controllers
  <2> QED BY <2>1, <2>3, <2>4, <2>6 DEF now, b, r
<1> QED BY <1>1, <1>2

LEMMA AcceptedOthers ==
  ASSUME NEW c, Good(c), NEW m \in Menu
  PROVE  LET e == Accepted(c, m)
         IN  /\ e.isPim = c.isPim /\ e.lost = c.lost /\ e.done = c.done
             /\ \A b \in Buffers \ {BufferOf(m.type)} : e.buf[b] = c.buf[b]
<1> DEFINE e == Accepted(c, m)
           b0 == BufferOf(m.type)
<1>1. CASE Forwards(c, m)
  BY <1>1 DEF Accepted, Forward, Good, Controllers
<1>2. CASE ~Forwards(c, m)
  <2>1. PICK x, now : e = [c EXCEPT !.buf[b0] = Append(@, x), !.sent = @ + 1, !.stamp = now]
    BY <1>2 DEF Accepted, Enqueue
  <2> HIDE DEF e, b0
  <2>2. /\ e.isPim = c.isPim /\ e.lost = c.lost /\ e.done = c.done
        /\ \A b \in Buffers \ {b0} : e.buf[b] = c.buf[b]
    BY <2>1 DEF Good, Controllers
  <2> QED BY <2>2 DEF e, b0
<1> QED BY <1>1, <1>2

LEMMA AcceptedWithin ==
  ASSUME NEW c, Good(c), NEW m \in Menu, NEW S, Within(c, S),
         \A r \in Requests : r.type = m.type => r \in S
  PROVE  Within(Accepted(c, m), S)
<1> DEFINE e == Accepted(c, m)
           b == BufferOf(m.type)
<1>1. CASE e.buf = c.buf BY <1>1 DEF Within
<1>2. CASE ~(e.buf = c.buf)
  <2>0. \E now \in Nat :
          LET r == [id |-> c.sent + 1, type |-> m.type, path |-> m.path,
                    row |-> m.row, col |-> m.col, arrive |-> now]
          IN  /\ e.pending = c.pending /\ e.stamp = now
              /\ now = IF c.stamp = 0 THEN c.sent + 1 ELSE c.stamp
              /\ b \in {"read", "write", "pim"} /\ m.type \in Kept(b)
              /\ r \in Requests
              /\ e.buf = [c.buf EXCEPT ![b] = Append(@, r)]
    BY <1>2, AcceptedFields, Zenon
  <2>1. PICK now \in Nat :
          LET r == [id |-> c.sent + 1, type |-> m.type, path |-> m.path,
                    row |-> m.row, col |-> m.col, arrive |-> now]
          IN  /\ b \in {"read", "write", "pim"} /\ r \in Requests
              /\ e.buf = [c.buf EXCEPT ![b] = Append(@, r)]
    BY <2>0
  <2> DEFINE r == [id |-> c.sent + 1, type |-> m.type, path |-> m.path,
                   row |-> m.row, col |-> m.col, arrive |-> now]
  <2>2. r \in S /\ b \in Buffers BY <2>1 DEF Buffers, QueueBuffers
  <2> HIDE DEF e, b
  <2>3. e.buf = [c.buf EXCEPT ![b] = Append(@, r)] BY <2>1
  <2> HIDE DEF r
  <2>4. Append(c.buf[b], r) \in Seq(S) BY <2>2 DEF Within
  <2>5. e.buf = [c.buf EXCEPT ![b] = Append(c.buf[b], r)] BY <2>3
  <2> HIDE <2>1, <2>3
  <2>6. Within(e, S) BY <2>2, <2>4, <2>5, WithinBuffers
  <2> QED BY <2>6 DEF e
<1> QED BY <1>1, <1>2

LEMMA SameQueuesWithin ==
  ASSUME NEW c, Good(c), NEW e, SameQueues(c, e), NEW S, Within(c, S)
  PROVE  Within(e, S)
<1>1. CASE e.buf = c.buf BY <1>1 DEF Within
<1>2. CASE e.buf = WithoutBarrier(c).buf
  <2>1. e.buf = [c.buf EXCEPT !["pim"] = DropBarrier(c.buf["pim"])]
    BY <1>2, WithoutBarrierQueues
  <2>2. "pim" \in Buffers BY DEF Buffers, QueueBuffers
  <2>3. c.buf["pim"] \in Seq(S) BY <2>2 DEF Within
  <2>4. DropBarrier(c.buf["pim"]) \in Seq(S) BY <2>3, TailFacts DEF DropBarrier
  <2> QED BY <2>1, <2>2, <2>4, WithinBuffers
<1> QED BY <1>1, <1>2 DEF SameQueues

LEMMA TakenWithin ==
  ASSUME NEW p, Sound(p), p.found, NEW S, Within(p.ctl, S),
         NEW buf, \A b \in Buffers : buf[b] \in Seq(S), buf \in [Buffers -> Seq(Held)],
         p.at \in 1 .. Len(buf[p.from])
  PROVE  /\ \A b \in Buffers : Taken(buf, p)[b] \in Seq(S)
         /\ Taken(buf, p)[p.from] = RemoveAt(buf[p.from], p.at)
         /\ \A b \in Buffers \ {p.from} : Taken(buf, p)[b] = buf[b]
<1>1. p.from \in Buffers BY DEF Sound
<1>2. RemoveAt(buf[p.from], p.at) \in Seq(S) BY <1>1, RemoveAtFacts
<1> QED BY <1>1, <1>2 DEF Taken

LEMMA AfterIssueWithin ==
  ASSUME NEW p, Sound(p), NEW S, Within(p.ctl, S)
  PROVE  Within(AfterIssue(p), S)
<1> DEFINE c == p.ctl
           e == AfterIssue(p)
           r == Chosen(p)
<1>1. Good(c) /\ p.from \in Buffers /\ c.buf \in [Buffers -> Seq(Held)]
  BY DEF Sound, Good, Controllers, Held
<1>2. ASSUME p.found
      PROVE  p.at \in 1 .. Len(c.buf[p.from]) /\ r \in S /\ r \in Held
  <2>1. p.at \in 1 .. Len(c.buf[p.from]) BY <1>2 DEF Sound
  <2>2. c.buf[p.from] \in Seq(S) /\ c.buf[p.from] \in Seq(Held) BY <1>1 DEF Within
  <2> QED BY <2>1, <2>2 DEF Chosen
<1>3. CASE Finishes(p)
  <2>1. e.buf = Taken(c.buf, p) BY <1>3, FinishEffect DEF Finished
  <2>2. p.found BY <1>3 DEF Finishes
  <2>3. \A b \in Buffers : Taken(c.buf, p)[b] \in Seq(S)
    BY <1>1, <1>2, <2>2, TakenWithin DEF Within
  <2> QED BY <2>1, <2>3 DEF Within
<1>4. CASE Activates(p)
  <2>1. p.found BY <1>4 DEF Activates
  <2>2. CASE e.buf = Taken(c.buf, p)
    <3>1. \A b \in Buffers : Taken(c.buf, p)[b] \in Seq(S)
      BY <1>1, <1>2, <2>1, TakenWithin DEF Within
    <3> QED BY <2>2, <3>1 DEF Within
  <2>3. CASE e.buf = Taken([c.buf EXCEPT !["active"] = Append(@, r)], p)
    <3> DEFINE more == [c.buf EXCEPT !["active"] = Append(@, r)]
    <3>1. "active" \in Buffers BY DEF Buffers, QueueBuffers
    <3>2. c.buf["active"] \in Seq(S) /\ c.buf["active"] \in Seq(Held)
      BY <1>1, <3>1 DEF Within
    <3> HIDE DEF c, r
    <3>3. Append(c.buf["active"], r) \in Seq(S) /\ Append(c.buf["active"], r) \in Seq(Held)
          /\ Len(Append(c.buf["active"], r)) = Len(c.buf["active"]) + 1
      BY <1>2, <2>1, <3>2
    <3>4. more \in [Buffers -> Seq(Held)] BY <1>1, <3>3
    <3>5. \A b \in Buffers : more[b] \in Seq(S) BY <1>1, <3>1, <3>3 DEF Within, c
    <3>6. p.at \in 1 .. Len(more[p.from])
      <4>1. CASE p.from = "active" BY <1>1, <1>2, <2>1, <3>2, <3>3, <4>1
      <4>2. CASE p.from # "active" BY <1>1, <1>2, <2>1, <4>2
      <4> QED BY <4>1, <4>2
    <3> HIDE DEF more
    <3>7. \A b \in Buffers : Taken(more, p)[b] \in Seq(S)
      BY <2>1, <3>4, <3>5, <3>6, TakenWithin
    <3>8. e.buf = Taken(more, p) BY <2>3 DEF more
    <3> QED BY <3>7, <3>8 DEF Within
  <2> QED BY <1>4, <2>2, <2>3, ActivateEffect DEF Activated
<1>5. CASE ~Finishes(p) /\ ~Activates(p) BY <1>5, NoEffect
<1> QED BY <1>3, <1>4, <1>5

----------------------------------------------------------------------------
(* A tick is its two rounds.                                               *)

\* One scheduling round: what it starts from, and what it picks.
Round(d, c, first, p) ==
  /\ d \in Devices /\ Good(c) /\ p \in Schedule(d, c, first)
  /\ Sound(p) /\ FromQueues(d, c, first, p) /\ (p.found => ~Interrupts(p))

LEMMA RoundFacts ==
  ASSUME NEW d \in Devices, NEW c, Good(c), NEW first, NEW p \in Schedule(d, c, first)
  PROVE  /\ Round(d, c, first, p)
         /\ Issue(d, p) \in Devices /\ Good(AfterIssue(p))
<1>1. Sound(p) BY ScheduleSound
<1>2. FromQueues(d, c, first, p) /\ (p.found => ~Interrupts(p)) BY ScheduleFrom
<1>3. Issue(d, p) \in Devices BY <1>1, IssueType
<1>4. Good(AfterIssue(p)) BY <1>1, AfterIssueGood
<1> QED BY <1>1, <1>2, <1>3, <1>4 DEF Round

\* What the two rounds of a tick make of a device and a controller.
Rounds(d, c, d2, c2) ==
  \E p, q, first :
    /\ Round(d, c, "any", p) /\ first \in FirstCommands(p)
    /\ Round(Issue(d, p), AfterIssue(p), first, q)
    /\ d2 = Issue(Issue(d, p), q) /\ c2 = AfterIssue(q)

LEMMA TickRounds ==
  ASSUME IInv, Tick
  PROVE  /\ TickDevice(dev) \in Devices /\ Good(Ticked(ctl)) /\ Good(ctl)
         /\ \/ Throw(TickDevice(dev), Ticked(ctl))
            \/ Rounds(TickDevice(dev), Ticked(ctl), dev', ctl')
<1> DEFINE d == TickDevice(dev)
           c == Ticked(ctl)
<1>1. d \in Devices /\ Good(c) /\ Good(ctl)
  BY TickDeviceType, TickedGood DEF IInv, TypeOK, BufferKinds, Good
<1>2. ASSUME Serve(d, c) PROVE Rounds(d, c, dev', ctl')
  <2> HIDE DEF d, c
  <2>1. PICK p \in Schedule(d, c, "any") :
          \E first \in FirstCommands(p) :
            \E q \in Schedule(Issue(d, p), AfterIssue(p), first) :
              dev' = Issue(Issue(d, p), q) /\ ctl' = AfterIssue(q)
    BY <1>2 DEF Serve
  <2>2. Round(d, c, "any", p) /\ Issue(d, p) \in Devices /\ Good(AfterIssue(p))
    BY <1>1, <2>1, RoundFacts
  <2>3. PICK first \in FirstCommands(p) :
          \E q \in Schedule(Issue(d, p), AfterIssue(p), first) :
            dev' = Issue(Issue(d, p), q) /\ ctl' = AfterIssue(q)
    BY <2>1
  <2>4. PICK q \in Schedule(Issue(d, p), AfterIssue(p), first) :
          dev' = Issue(Issue(d, p), q) /\ ctl' = AfterIssue(q)
    BY <2>3
  <2>5. Round(Issue(d, p), AfterIssue(p), first, q) BY <2>2, <2>4, RoundFacts
  <2> QED BY <2>2, <2>3, <2>4, <2>5 DEF Rounds
<1>3. Throw(d, c) \/ Serve(d, c) BY DEF Tick
<1>4. Throw(d, c) \/ Rounds(d, c, dev', ctl') BY <1>2, <1>3
<1> HIDE DEF d, c
<1> QED BY <1>1, <1>4 DEF d, c

LEMMA RoundWithin ==
  ASSUME NEW d, NEW c, NEW first, NEW p, Round(d, c, first, p), NEW S, Within(c, S)
  PROVE  Within(p.ctl, S) /\ Within(AfterIssue(p), S) /\ (p.found => Chosen(p) \in S)
<1>1. Within(p.ctl, S) BY SameQueuesWithin DEF Round, FromQueues
<1>2. Within(AfterIssue(p), S) BY <1>1, AfterIssueWithin DEF Round
<1>3. ASSUME p.found PROVE Chosen(p) \in S
  <2>1. p.at \in 1 .. Len(p.ctl.buf[p.from]) /\ p.from \in Buffers
    BY <1>3 DEF Round, Sound
  <2>2. p.ctl.buf[p.from] \in Seq(S) BY <1>1, <2>1 DEF Within
  <2> QED BY <2>1, <2>2 DEF Chosen
<1> QED BY <1>1, <1>2, <1>3

----------------------------------------------------------------------------
(* What may be in the buffers at all: what the menu of the front end has,  *)
(* and the refreshes of the refresh manager.                               *)

Asked == { r \in Held : \/ \E m \in Menu : r.type = m.type
                        \/ Refreshing /\ r.type = "REF" }

AskedInv == IInv /\ Within(ctl, Asked)

LEMMA InitAsked == Init => AskedInv
<1> SUFFICES ASSUME Init PROVE AskedInv
  OBVIOUS
<1>1. IInv BY InitIInv
<1>2. \A b \in Buffers : ctl.buf[b] = <<>> BY DEF Init, InitController
<1>3. <<>> \in Seq(Asked) OBVIOUS
<1>4. Within(ctl, Asked) BY <1>2, <1>3, Zenon DEF Within
<1> QED BY <1>1, <1>4 DEF AskedInv

LEMMA RefreshesAsked == Refreshing => Refreshes \subseteq Asked
BY DEF Asked, Held, Refreshes, RefreshRequest

LEMMA NextAsked == AskedInv /\ [Next]_vars => AskedInv'
<1> SUFFICES ASSUME AskedInv, [Next]_vars PROVE AskedInv'
  OBVIOUS
<1>1. IInv' BY NextIInv DEF AskedInv
<1>2. CASE UNCHANGED vars BY <1>1, <1>2 DEF vars, AskedInv, Within
<1>3. ASSUME Tick PROVE Within(ctl', Asked)
  <2> DEFINE d == TickDevice(dev)
             c == Ticked(ctl)
  <2>1. /\ d \in Devices /\ Good(c) /\ Good(ctl)
        /\ Throw(d, c) \/ Rounds(d, c, dev', ctl')
    BY <1>3, TickRounds DEF AskedInv
  <2>2. Within(c, Asked) BY <2>1, TickedWithin, RefreshesAsked DEF AskedInv
  <2> HIDE DEF d, c
  <2>3. ASSUME Rounds(d, c, dev', ctl') PROVE Within(ctl', Asked)
    <3>1. PICK p, q, first :
            /\ Round(d, c, "any", p) /\ Round(Issue(d, p), AfterIssue(p), first, q)
            /\ ctl' = AfterIssue(q)
      BY <2>3 DEF Rounds
    <3>2. Within(AfterIssue(p), Asked) BY <2>2, <3>1, RoundWithin
    <3>3. Within(AfterIssue(q), Asked) BY <3>1, <3>2, RoundWithin
    <3> QED BY <3>1, <3>3
  <2> QED BY <2>1, <2>2, <2>3 DEF Throw
<1>4. ASSUME NEW m \in Menu, Send(m) PROVE Within(ctl', Asked)
  <2>1. Good(ctl) BY DEF AskedInv, IInv, TypeOK, BufferKinds, Good
  <2>2. \A r \in Requests : r.type = m.type => r \in Asked BY DEF Asked, Held
  <2> QED BY <1>4, <2>1, <2>2, AcceptedWithin DEF Send, AskedInv
<1> QED BY <1>1, <1>2, <1>3, <1>4 DEF Next, AskedInv

\* The commands a request can need.
LEMMA CommandsOfTypes ==
  ASSUME NEW d, NEW r
  PROVE  /\ r.type = "Read" => CommandOf(d, r) \in {"RD", "ACT", "PRE"}
         /\ r.type = "Write" => CommandOf(d, r) \in {"WR", "ACT", "PRE"}
         /\ r.type = "REF" => CommandOf(d, r) \in {"REFab", "PREA"}
         /\ r.type = "MAC_AB" => CommandOf(d, r) \in {"MACAB", "ACTAB", "PREA"}
         /\ r.type = "MAC_SB" => CommandOf(d, r) \in {"MACSB", "ACTSB", "PRESB"}
         /\ r.type = "MAC_PB" => CommandOf(d, r) \in {"MACPB", "ACTPB", "PREPB"}
         /\ r.type \in PIMTypes \ {"MAC_AB", "MAC_SB", "MAC_PB"} =>
              CommandOf(d, r) \in Moves \cup {"SETM", "SETH", "BARRIER"}
<1>1. ASSUME r.type = "Read" PROVE CommandOf(d, r) \in {"RD", "ACT", "PRE"}
  <2>1. FinalCommand[r.type] = "RD" BY <1>1 DEF FinalCommand, ReqTypes, MemTypes
  <2> QED BY <2>1 DEF CommandOf, GetPreqCommand, RequireRowOpen
<1>2. ASSUME r.type = "Write" PROVE CommandOf(d, r) \in {"WR", "ACT", "PRE"}
  <2>1. FinalCommand[r.type] = "WR" BY <1>2 DEF FinalCommand, ReqTypes, MemTypes
  <2> QED BY <2>1 DEF CommandOf, GetPreqCommand, RequireRowOpen
<1>3. ASSUME r.type = "REF" PROVE CommandOf(d, r) \in {"REFab", "PREA"}
  <2>1. FinalCommand[r.type] = "REFab" BY <1>3 DEF FinalCommand, ReqTypes
  <2> QED BY <2>1 DEF CommandOf, GetPreqCommand
<1>4. ASSUME r.type = "MAC_AB" PROVE CommandOf(d, r) \in {"MACAB", "ACTAB", "PREA"}
  <2>1. FinalCommand[r.type] = "MACAB" BY <1>4 DEF FinalCommand, ReqTypes, PIMTypes
  <2> QED BY <2>1 DEF CommandOf, GetPreqCommand, RequireRowOpen
<1>5. ASSUME r.type = "MAC_SB" PROVE CommandOf(d, r) \in {"MACSB", "ACTSB", "PRESB"}
  <2>1. FinalCommand[r.type] = "MACSB" BY <1>5 DEF FinalCommand, ReqTypes, PIMTypes
  <2> QED BY <2>1 DEF CommandOf, GetPreqCommand, RequireRowOpen
<1>6. ASSUME r.type = "MAC_PB" PROVE CommandOf(d, r) \in {"MACPB", "ACTPB", "PREPB"}
  <2>1. FinalCommand[r.type] = "MACPB" BY <1>6 DEF FinalCommand, ReqTypes, PIMTypes
  <2> QED BY <2>1 DEF CommandOf, GetPreqCommand, RequireRowOpen
<1>7. ASSUME r.type \in PIMTypes \ {"MAC_AB", "MAC_SB", "MAC_PB"}
      PROVE  CommandOf(d, r) \in Moves \cup {"SETM", "SETH", "BARRIER"}
  <2>1. FinalCommand[r.type] \in Moves \cup {"SETM", "SETH", "BARRIER"}
    BY <1>7 DEF FinalCommand, ReqTypes, PIMTypes, Moves
  <2>2. CommandOf(d, r) = FinalCommand[r.type]
    BY <2>1 DEF CommandOf, GetPreqCommand, Moves
  <2> QED BY <2>1, <2>2
<1> QED BY <1>1, <1>2, <1>3, <1>4, <1>5, <1>6, <1>7

LEMMA HeldFacts ==
  ASSUME NEW r \in Held
  PROVE  /\ r \in Requests =>
              r.type \in MemTypes \cup PIMTypes /\ r.path \in Banks /\ r.row \in Rows
         /\ r \in Refreshes =>
              r.type = "REF" /\ \E pc \in 0 .. NumPC - 1 : r.path = <<pc>>
         /\ r.type = "REF" => r \in Refreshes
BY DEF Held, Requests, Refreshes, RefreshRequest, MemTypes, PIMTypes

LEMMA CommandsKnown ==
  ASSUME NEW d, NEW r \in Held
  PROVE  CommandOf(d, r) \in Commands
<1>1. r.type \in MemTypes \cup PIMTypes \cup {"REF"} BY HeldFacts DEF Held
<1>2. CASE r.type \in MemTypes
  BY <1>2, CommandsOfTypes DEF MemTypes, Commands, Access, Opening, Closing
<1>3. CASE r.type = "REF"
  BY <1>3, CommandsOfTypes DEF Commands, Closing
<1>4. CASE r.type \in PIMTypes
  BY <1>4, CommandsOfTypes DEF Commands, Access, Opening, Closing, Moves
<1> QED BY <1>1, <1>2, <1>3, <1>4

----------------------------------------------------------------------------
(* An all-bank refresh is undisturbed.                                     *)

Undisturbed(d) ==
  \A pc \in 0 .. NumPC - 1 :
    d.since[<< <<pc>>, "REFab" >>] < T.nRFC =>
      \A b \in Banks : b[1] = pc => d.open[b] = {}

LEMMA PseudoChannels ==
  ASSUME NEW pc \in 0 .. NumPC - 1
  PROVE  <<pc>> \in Nodes /\ Len(<<pc>>) = 1
<1> DEFINE b == <<pc, 0, 0, 0>>
<1>1. b \in Banks /\ b[1] = pc BY DeviceAssumption DEF Banks
<1>2. <<b[1]>> \in Prefixes(b) BY <1>1, BankFacts
<1>3. <<pc>> \in Nodes BY <1>1, <1>2 DEF Nodes
<1> QED BY <1>3

\* nRFC cycles between a refresh and every command that opens a bank.
LEMMA RefreshRule ==
  ASSUME NEW pc \in 0 .. NumPC - 1, NEW cmd \in Opening
  PROVE  \E k : Between(k, <<pc>>, "REFab", cmd) /\ k.lat = T.nRFC
<1> DEFINE k == [level |-> 1, prev |-> "REFab", next |-> cmd, lat |-> T.nRFC]
<1>1. k \in Constraints
  <2>1. CASE cmd = "ACT" BY <2>1, LatencyFacts DEF Rule
  <2>2. CASE cmd \in {"ACTAB", "ACTSB", "ACTPB"} BY <2>2, LatencyFacts DEF Rule
  <2> QED BY <2>1, <2>2 DEF Opening
<1>2. Between(k, <<pc>>, "REFab", cmd) /\ k.lat = T.nRFC BY <1>1, PseudoChannels DEF Between
<1> QED BY <1>2

LEMMA RefreshClock ==
  ASSUME NEW pc \in 0 .. NumPC - 1
  PROVE  << <<pc>>, "REFab" >> \in Clocks /\ T.nRFC \in Int
<1>1. PICK k : Between(k, <<pc>>, "REFab", "ACT") /\ k.lat = T.nRFC
  BY RefreshRule DEF Opening
<1>2. "REFab" \in Commands BY DEF Commands
<1>3. <<pc>> \in Nodes /\ Len(<<pc>>) \in 0 .. 4 BY PseudoChannels
<1>4. << <<pc>>, "REFab" >> \in Clocks BY <1>1, <1>2, <1>3, ClockOf
<1>5. T.nRFC \in Int BY <1>1, ConstraintType DEF Between
<1> QED BY <1>4, <1>5

LEMMA TickUndisturbed ==
  ASSUME NEW d \in Devices, Undisturbed(d)
  PROVE  Undisturbed(TickDevice(d))
<1> DEFINE e == TickDevice(d)
<1>1. e.open = d.open BY DEF TickDevice, Devices
<1>2. ASSUME NEW pc \in 0 .. NumPC - 1, e.since[<< <<pc>>, "REFab" >>] < T.nRFC
      PROVE  d.since[<< <<pc>>, "REFab" >>] < T.nRFC
  <2>1. PICK k : Between(k, <<pc>>, "REFab", "ACT") /\ k.lat = T.nRFC
    BY RefreshRule DEF Opening
  <2>2. "REFab" \in Commands BY DEF Commands
  <2>3. k.lat \in Int BY <2>1, ConstraintType DEF Between
  <2>4. /\ d.since[<< <<pc>>, "REFab" >>] \in Nat /\ e.since[<< <<pc>>, "REFab" >>] \in Nat
        /\ \/ e.since[<< <<pc>>, "REFab" >>] = d.since[<< <<pc>>, "REFab" >>] + 1
           \/ e.since[<< <<pc>>, "REFab" >>] >= k.lat
    BY <2>1, <2>2, PseudoChannels, Aged
  <2> HIDE DEF e
  <2> QED BY <1>2, <2>1, <2>3, <2>4
<1> HIDE DEF e
<1>3. Undisturbed(e) BY <1>1, <1>2 DEF Undisturbed
<1> QED BY <1>3 DEF e

\* A refresh is issued only when every bank is closed.
LEMMA RefreshCommand ==
  ASSUME NEW d, NEW r, CommandOf(d, r) = "REFab"
  PROVE  \A b \in Banks : d.open[b] = {}
BY DEF CommandOf, GetPreqCommand, RequireRowOpen

\* A command that opens rows has asked the pseudo channel of its address, and
\* opens banks of no other one: ACT, or any command if there is only one.
LEMMA IssueUndisturbed ==
  ASSUME NEW d, NEW c, NEW first, NEW p, Round(d, c, first, p), Undisturbed(d),
         NumPC = 1 \/ (p.found => Chosen(p).type \notin {"MAC_AB", "MAC_SB", "MAC_PB"})
  PROVE  Undisturbed(Issue(d, p))
<1> SUFFICES ASSUME p.found PROVE Undisturbed(Issue(d, p))
  BY DEF Issue
<1> DEFINE r == Chosen(p)
           e == IssueCommand(d, p.cmd, r.path, r.row)
<1>1. Issue(d, p) = e BY DEF Issue
<1>2. p.cmd = CommandOf(d, r) /\ CheckReady(d, p.cmd, r.path) BY DEF Round, FromQueues, Fitting
<1>3. e.open = UpdateStates(d.open, p.cmd, r.path, r.row) BY DEF IssueCommand
<1>4. d \in Devices BY DEF Round
<1>5. r \in Held
  <2>1. p.at \in 1 .. Len(p.ctl.buf[p.from]) /\ p.from \in Buffers /\ Good(p.ctl)
    BY DEF Round, Sound
  <2>2. p.ctl.buf[p.from] \in Seq(Held) BY <2>1, GoodBuffer
  <2> QED BY <2>1, <2>2 DEF Chosen
<1> HIDE DEF r, e
<1>6. CASE p.cmd \in Opening
  <2>1. r \in Requests /\ r.path \in Banks /\ r.row \in Rows /\ r.path[1] \in 0 .. NumPC - 1
    <3>1. r \in Requests BY <1>2, <1>5, <1>6, OpeningIsRequest
    <3>2. r.path \in Banks /\ r.row \in Rows BY <1>5, <3>1, HeldFacts
    <3> QED BY <3>1, <3>2, BankFacts
  <2>2. PICK k : Between(k, <<r.path[1]>>, "REFab", p.cmd) /\ k.lat = T.nRFC
    BY <1>6, <2>1, RefreshRule
  <2>3. <<r.path[1]>> \in Checked(p.cmd, r.path) BY <1>6, <2>1, BankFacts DEF Checked, ChannelScope, Opening
  <2>4. Len(<<r.path[1]>>) = 1 /\ <<r.path[1]>> \in Nodes BY <2>1, PseudoChannels
  <2>5. d.since[<< <<r.path[1]>>, "REFab" >>] >= T.nRFC
    <3>1. p.cmd \in Commands BY <1>6 DEF Commands
    <3> DEFINE n == <<r.path[1]>>
    <3>2. n \in Checked(p.cmd, r.path) /\ Len(n) \in 0 .. 4 BY <2>3, <2>4
    <3>3. Between(k, n, "REFab", p.cmd) BY <2>2
    <3> HIDE DEF n
    <3>4. d.since[<<n, "REFab">>] >= k.lat BY <1>2, <3>1, <3>2, <3>3, Waited
    <3> QED BY <2>2, <3>4 DEF n
  <2>6. ASSUME NEW pc \in 0 .. NumPC - 1, e.since[<< <<pc>>, "REFab" >>] < T.nRFC,
               NEW b \in Banks, b[1] = pc
        PROVE  e.open[b] = {}
    <3>1. e.since[<< <<pc>>, "REFab" >>] = d.since[<< <<pc>>, "REFab" >>]
          /\ d.since[<< <<pc>>, "REFab" >>] \in Nat /\ T.nRFC \in Int
      <4>1. << <<pc>>, "REFab" >> \in Clocks /\ T.nRFC \in Int BY RefreshClock
      <4>2. d.since[<< <<pc>>, "REFab" >>] \in Nat BY <1>4, <4>1 DEF Devices
      <4>3. p.cmd # "REFab" BY <1>6 DEF Opening
      <4> QED BY <4>1, <4>2, <4>3, IssuedSince DEF e
    <3>2. d.since[<< <<pc>>, "REFab" >>] < T.nRFC BY <2>6, <3>1
    <3>3. r.path[1] # pc BY <2>1, <2>5, <3>1, <3>2
    <3>4. d.open[b] = {} BY <2>6, <3>2 DEF Undisturbed
    <3>5. NumPC # 1 BY <2>1, <3>3
    <3>6. p.cmd = "ACT"
      <4>1. r.type \in MemTypes \cup PIMTypes BY <2>1, <1>5, HeldFacts
      <4>2. r.type \notin {"MAC_AB", "MAC_SB", "MAC_PB"} BY <3>5 DEF r
      <4>3. CASE r.type \in MemTypes
        BY <1>2, <1>6, <4>3, CommandsOfTypes DEF MemTypes, Opening
      <4>4. CASE r.type \in PIMTypes
        BY <1>2, <1>6, <4>2, <4>4, CommandsOfTypes DEF Opening, Moves
      <4> QED BY <4>1, <4>3, <4>4
    <3>7. b # r.path BY <2>6, <3>3
    <3>8. ActsOn(p.cmd, r.path) = {r.path} BY <3>6 DEF ActsOn
    <3> QED BY <1>3, <3>4, <3>7, <3>8 DEF UpdateStates
  <2> QED BY <2>6 DEF Undisturbed, e, Issue, r
<1>7. CASE p.cmd \notin Opening
  <2>1. \A b \in Banks : e.open[b] \in {{}, d.open[b]}
    BY <1>3, <1>7 DEF UpdateStates
  <2>2. CASE p.cmd = "REFab"
    <3>1. \A b \in Banks : d.open[b] = {} BY <1>2, <2>2, RefreshCommand
    <3>2. \A b \in Banks : e.open[b] = {} BY <2>1, <3>1
    <3> QED BY <1>1, <3>2 DEF Undisturbed
  <2>3. CASE p.cmd # "REFab"
    <3>1. ASSUME NEW pc \in 0 .. NumPC - 1
          PROVE  e.since[<< <<pc>>, "REFab" >>] = d.since[<< <<pc>>, "REFab" >>]
      <4>1. << <<pc>>, "REFab" >> \in Clocks BY RefreshClock
      <4> QED BY <2>3, <4>1, IssuedSince DEF e
    <3>2. Undisturbed(e) BY <2>1, <3>1 DEF Undisturbed
    <3> QED BY <1>1, <3>2
  <2> QED BY <2>2, <2>3
<1> QED BY <1>6, <1>7

NoMACs == \A m \in Menu : m.type \notin {"MAC_AB", "MAC_SB", "MAC_PB"}

RefreshInv == AskedInv /\ Undisturbed(dev)

LEMMA InitRefreshInv == Init => RefreshInv
<1> SUFFICES ASSUME Init PROVE RefreshInv
  OBVIOUS
<1>1. AskedInv BY InitAsked
<1>2. \A b \in Banks : dev.open[b] = {} BY DEF Init, InitDevice
<1> QED BY <1>1, <1>2 DEF RefreshInv, Undisturbed

LEMMA NextRefreshInv ==
  ASSUME NumPC = 1 \/ NoMACs
  PROVE  RefreshInv /\ [Next]_vars => RefreshInv'
<1> SUFFICES ASSUME RefreshInv, [Next]_vars PROVE RefreshInv'
  OBVIOUS
<1>1. AskedInv' BY NextAsked DEF RefreshInv
<1>2. CASE dev' = dev BY <1>1, <1>2 DEF RefreshInv, Undisturbed
<1>3. ASSUME Tick PROVE Undisturbed(dev')
  <2> DEFINE d == TickDevice(dev)
             c == Ticked(ctl)
  <2>1. /\ dev \in Devices /\ d \in Devices /\ Good(c) /\ Good(ctl)
        /\ Throw(d, c) \/ Rounds(d, c, dev', ctl')
    BY <1>3, TickRounds DEF RefreshInv, AskedInv, IInv, TypeOK
  <2>2. Within(c, Asked) /\ Undisturbed(d)
    BY <2>1, TickedWithin, RefreshesAsked, TickUndisturbed DEF RefreshInv, AskedInv
  <2> HIDE DEF d, c
  <2>3. ASSUME Rounds(d, c, dev', ctl') PROVE Undisturbed(dev')
    <3>1. PICK p, q, first :
            /\ Round(d, c, "any", p) /\ Round(Issue(d, p), AfterIssue(p), first, q)
            /\ dev' = Issue(Issue(d, p), q)
      BY <2>3 DEF Rounds
    <3>2. Within(AfterIssue(p), Asked) /\ (p.found => Chosen(p) \in Asked)
      BY <2>2, <3>1, RoundWithin
    <3>3. q.found => Chosen(q) \in Asked BY <3>1, <3>2, RoundWithin
    <3>4. ASSUME NEW r \in Asked, NumPC # 1
          PROVE  r.type \notin {"MAC_AB", "MAC_SB", "MAC_PB"}
      BY <3>4 DEF NoMACs, Asked
    <3>5. Undisturbed(Issue(d, p)) BY <2>2, <3>1, <3>2, <3>4, IssueUndisturbed
    <3>6. Undisturbed(Issue(Issue(d, p), q)) BY <3>1, <3>3, <3>4, <3>5, IssueUndisturbed
    <3> QED BY <3>1, <3>6
  <2> QED BY <2>1, <2>2, <2>3 DEF Throw
<1> QED BY <1>1, <1>2, <1>3 DEF Next, Send, vars, RefreshInv

\* RefreshesUndisturbed: no bank of a pseudo channel opens within nRFC cycles
\* of its refresh, whatever the requests are if the controller has one pseudo
\* channel, and with any number of them if no request opens rows elsewhere than
\* at its own address: the controller waits for the pseudo channel of the
\* address only.
THEOREM RefreshesUndisturbed ==
  ASSUME NumPC = 1 \/ NoMACs
  PROVE  Spec => []RefreshUndisturbed
<1>1. RefreshInv => RefreshUndisturbed
  BY DEF RefreshInv, Undisturbed, RefreshUndisturbed
<1> QED BY <1>1, InitRefreshInv, NextRefreshInv, PTL DEF Spec

----------------------------------------------------------------------------
(* The data bus of a controller with one pseudo channel.                   *)

\* A departure whose burst is still to come.
Coming(e) == ~e.fwd /\ e.wait > 0

Spaced(line) ==
  \A i, j \in DOMAIN line :
    (i < j /\ Coming(line[i]) /\ ~line[j].fwd) => line[j].wait >= line[i].wait + T.nBL

\* The last read was issued s cycles ago: less than nBL, and no departure is
\* further away than the one of that read; or more, and another read could
\* depart nBL after them all.
Behind(line, s) ==
  \A i \in DOMAIN line : Coming(line[i]) =>
    \/ s < T.nBL /\ line[i].wait + s <= ReadLatency
    \/ s >= T.nBL /\ line[i].wait + T.nBL <= ReadLatency

ReadClock == << <<0>>, "RD" >>

Bus(d, c) == NumPC = 1 => Spaced(c.pending) /\ Behind(c.pending, d.since[ReadClock])

LEMMA ReadRule ==
  /\ \E k : Between(k, <<0>>, "RD", "RD") /\ k.lat = T.nBL
  /\ <<0>> \in Nodes /\ Len(<<0>>) \in 0 .. 4
  /\ ReadClock \in Clocks /\ T.nBL \in Nat /\ ReadLatency \in Nat
<1> DEFINE k == [level |-> 1, prev |-> "RD", next |-> "RD", lat |-> T.nBL]
<1>1. k \in Constraints BY LatencyFacts DEF Rule, Path
<1>2. <<0>> \in Nodes /\ Len(<<0>>) = 1
  <2>1. 0 \in 0 .. NumPC - 1 BY DeviceAssumption
  <2> QED BY <2>1, PseudoChannels
<1>3. Between(k, <<0>>, "RD", "RD") /\ k.lat = T.nBL BY <1>1, <1>2 DEF Between
<1>4. "RD" \in Commands BY DEF Commands, Access
<1> HIDE DEF k
<1>5. <<0>> \in Nodes /\ Len(<<0>>) \in 0 .. 4 BY <1>2
<1>6. << <<0>>, "RD" >> \in Clocks BY <1>3, <1>4, <1>5, ClockOf
<1>7. T.nBL \in Nat /\ ReadLatency \in Nat BY ControllerAssumption DEF ReadLatency
<1> QED BY <1>3, <1>5, <1>6, <1>7 DEF ReadClock

LEMMA DepartureFields ==
  ASSUME NEW c, Good(c)
  PROVE  /\ c.pending \in Seq(Departures) /\ Len(c.pending) \in Nat
         /\ DOMAIN c.pending = 1 .. Len(c.pending)
         /\ \A i \in 1 .. Len(c.pending) : /\ c.pending[i] \in Departures
                                           /\ c.pending[i].wait \in Nat
                                           /\ c.pending[i].fwd \in BOOLEAN
<1>1. c.pending \in Seq(Departures) BY DEF Good, Controllers
<1>2. /\ Len(c.pending) \in Nat /\ DOMAIN c.pending = 1 .. Len(c.pending)
      /\ \A i \in 1 .. Len(c.pending) : c.pending[i] \in Departures
  BY <1>1
<1> QED BY <1>1, <1>2 DEF Departures

LEMMA TickBus ==
  ASSUME NEW d \in Devices, NEW c, Good(c), Bus(d, c)
  PROVE  Bus(TickDevice(d), TickClock(c))
<1> SUFFICES ASSUME NumPC = 1 PROVE Bus(TickDevice(d), TickClock(c))
  BY DEF Bus
<1> DEFINE line == c.pending
           next == TickClock(c).pending
           s == d.since[ReadClock]
           t == TickDevice(d).since[ReadClock]
<1>1. /\ T.nBL \in Nat /\ ReadLatency \in Nat /\ s \in Nat /\ t \in Nat
      /\ t = s + 1 \/ (s + 1 >= T.nBL /\ t >= T.nBL)
  <2>1. PICK k : Between(k, <<0>>, "RD", "RD") /\ k.lat = T.nBL BY ReadRule
  <2>2. "RD" \in Commands BY DEF Commands, Access
  <2>3. /\ s \in Nat /\ t \in Nat
        /\ t = s + 1 \/ (s + 1 >= k.lat /\ t >= k.lat)
    BY <2>1, <2>2, ReadRule, Aged DEF ReadClock
  <2> QED BY <2>1, <2>3, ReadRule
<1>2. /\ Len(line) \in Nat /\ DOMAIN line = 1 .. Len(line) /\ DOMAIN next = 1 .. Len(line)
      /\ \A i \in 1 .. Len(line) : line[i].wait \in Nat /\ next[i].wait \in Nat
  <2>1. Good(TickClock(c)) BY TickClockGood
  <2>2. Len(next) = Len(line) BY TickClockFields
  <2> HIDE DEF line, next
  <2> QED BY <2>1, <2>2, DepartureFields DEF line, next
<1>3. \A i \in 1 .. Len(line) :
        /\ next[i].fwd = line[i].fwd
        /\ next[i].wait = IF line[i].wait > 0 THEN line[i].wait - 1 ELSE 0
  BY TickClockFields
<1>4. Spaced(line) /\ Behind(line, s) BY DEF Bus
<1> HIDE DEF line, next, s, t
<1>5. \A i \in 1 .. Len(line) : Coming(next[i]) =>
        Coming(line[i]) /\ next[i].wait = line[i].wait - 1
  BY <1>2, <1>3 DEF Coming
<1>6. Spaced(next)
  <2> SUFFICES ASSUME NEW i \in 1 .. Len(line), NEW j \in 1 .. Len(line),
                      i < j, Coming(next[i]), ~next[j].fwd
               PROVE  next[j].wait >= next[i].wait + T.nBL
    BY <1>2 DEF Spaced
  <2>1. /\ line[i].wait \in Nat /\ line[j].wait \in Nat
        /\ next[i].wait = line[i].wait - 1 /\ ~line[j].fwd /\ Coming(line[i])
        /\ next[j].wait = IF line[j].wait > 0 THEN line[j].wait - 1 ELSE 0
    BY <1>2, <1>3, <1>5
  <2>2. line[i].wait > 0 BY <2>1 DEF Coming
  <2>3. line[j].wait >= line[i].wait + T.nBL BY <1>2, <1>4, <2>1 DEF Spaced
  <2> QED BY <1>1, <2>1, <2>2, <2>3
<1>7. Behind(next, t)
  <2> SUFFICES ASSUME NEW i \in 1 .. Len(line), Coming(next[i])
               PROVE  \/ t < T.nBL /\ next[i].wait + t <= ReadLatency
                      \/ t >= T.nBL /\ next[i].wait + T.nBL <= ReadLatency
    BY <1>2 DEF Behind
  <2>1. line[i].wait \in Nat /\ next[i].wait = line[i].wait - 1 /\ Coming(line[i])
    BY <1>2, <1>5
  <2>2. \/ s < T.nBL /\ line[i].wait + s <= ReadLatency
        \/ s >= T.nBL /\ line[i].wait + T.nBL <= ReadLatency
    BY <1>2, <1>4, <2>1 DEF Behind
  <2> DEFINE n == T.nBL
             w == line[i].wait
  <2>3. w \in Nat /\ n \in Nat /\ next[i].wait = w - 1 BY <1>1, <2>1
  <2>4. \/ s < n /\ w + s <= ReadLatency
        \/ s >= n /\ w + n <= ReadLatency
    BY <2>2
  <2> HIDE DEF n, w
  <2>5. \/ t < n /\ (w - 1) + t <= ReadLatency
        \/ t >= n /\ (w - 1) + n <= ReadLatency
    <3>1. /\ s \in Nat /\ t \in Nat /\ ReadLatency \in Nat
          /\ t = s + 1 \/ (s + 1 >= n /\ t >= n)
      BY <1>1 DEF n
    <3> QED BY <2>3, <2>4, <3>1
  <2> QED BY <2>3, <2>5 DEF n
<1> QED BY <1>6, <1>7 DEF Bus, next, t

LEMMA ServeBus ==
  ASSUME NEW d, NEW c, Good(c), Bus(d, c), NEW e,
         \/ e.pending = c.pending
         \/ c.pending # <<>> /\ e.pending = Tail(c.pending)
  PROVE  Bus(d, e)
<1>1. CASE e.pending = c.pending BY <1>1 DEF Bus
<1>2. CASE c.pending # <<>> /\ e.pending = Tail(c.pending)
  <2> DEFINE line == c.pending
             rest == Tail(c.pending)
  <2>1. line \in Seq(Departures) BY DepartureFields
  <2>2. /\ Len(line) \in Nat /\ DOMAIN line = 1 .. Len(line)
        /\ DOMAIN rest = 1 .. Len(line) - 1
        /\ \A i \in 1 .. Len(line) - 1 : rest[i] = line[i + 1]
    BY <1>2, <2>1
  <2> HIDE DEF line, rest
  <2>3. ASSUME Spaced(line) PROVE Spaced(rest)
    <3> SUFFICES ASSUME NEW i \in 1 .. Len(line) - 1, NEW j \in 1 .. Len(line) - 1,
                        i < j, Coming(rest[i]), ~rest[j].fwd
                 PROVE  rest[j].wait >= rest[i].wait + T.nBL
      BY <2>2 DEF Spaced
    <3>1. rest[i] = line[i + 1] /\ rest[j] = line[j + 1] BY <2>2
    <3>2. i + 1 \in DOMAIN line /\ j + 1 \in DOMAIN line /\ i + 1 < j + 1 BY <2>2
    <3> QED BY <2>3, <3>1, <3>2 DEF Spaced
  <2>4. ASSUME NEW s, Behind(line, s) PROVE Behind(rest, s)
    <3>1. \A i \in DOMAIN rest : i + 1 \in DOMAIN line /\ rest[i] = line[i + 1] BY <2>2
    <3> QED BY <2>4, <3>1 DEF Behind
  <2> QED BY <1>2, <2>3, <2>4 DEF Bus, line, rest
<1> QED BY <1>1, <1>2

\* Appending a forwarded read, or one whose data is ReadLatency away while all
\* others are at least nBL nearer.
LEMMA AppendBus ==
  ASSUME NEW d, NEW c, Good(c), Bus(d, c), NEW x \in Departures, NEW e, NEW d2,
         e.pending = Append(c.pending, x),
         \/ x.fwd /\ d2 = d
         \/ /\ x.wait = ReadLatency /\ d.since[ReadClock] \in Nat
            /\ NumPC = 1 => d.since[ReadClock] >= T.nBL
            /\ d2.since[ReadClock] = 0
  PROVE  Bus(d2, e)
<1> SUFFICES ASSUME NumPC = 1 PROVE Bus(d2, e)
  BY DEF Bus
<1> DEFINE line == c.pending
           more == Append(c.pending, x)
           s == d.since[ReadClock]
<1>1. /\ line \in Seq(Departures) /\ Len(line) \in Nat /\ DOMAIN line = 1 .. Len(line)
      /\ \A i \in 1 .. Len(line) : line[i].wait \in Nat
  BY DepartureFields
<1>2. /\ DOMAIN more = 1 .. Len(line) + 1 /\ more[Len(line) + 1] = x
      /\ \A i \in 1 .. Len(line) : more[i] = line[i]
  BY <1>1
<1>3. Spaced(line) /\ Behind(line, s) BY DEF Bus
<1>4. T.nBL \in Nat /\ ReadLatency \in Nat BY ReadRule
<1> HIDE DEF line, more, s
<1>5. ASSUME ~x.fwd
      PROVE  \A i \in 1 .. Len(line) : Coming(line[i]) => line[i].wait + T.nBL <= x.wait
  <2>1. s >= T.nBL /\ s \in Nat BY <1>5 DEF s
  <2>2. ~(s < T.nBL) BY <1>4, <2>1
  <2>3. \A i \in 1 .. Len(line) : Coming(line[i]) => line[i].wait + T.nBL <= ReadLatency
    BY <1>1, <1>3, <2>2 DEF Behind
  <2> QED BY <1>5, <2>3
<1>6. Spaced(more)
  <2> SUFFICES ASSUME NEW i \in 1 .. Len(line) + 1, NEW j \in 1 .. Len(line) + 1,
                      i < j, Coming(more[i]), ~more[j].fwd
               PROVE  more[j].wait >= more[i].wait + T.nBL
    BY <1>2 DEF Spaced
  <2>1. i \in 1 .. Len(line) /\ more[i] = line[i] BY <1>1, <1>2
  <2>2. CASE j \in 1 .. Len(line)
    <3>1. more[j] = line[j] BY <1>2, <2>2
    <3>2. Coming(line[i]) /\ ~line[j].fwd BY <2>1, <3>1
    <3>3. line[j].wait >= line[i].wait + T.nBL
      BY <1>1, <1>3, <2>1, <2>2, <3>2 DEF Spaced
    <3> QED BY <2>1, <3>1, <3>3
  <2>3. CASE j = Len(line) + 1
    <3>1. more[j] = x BY <1>2, <2>3
    <3>2. ~x.fwd /\ Coming(line[i]) BY <2>1, <3>1
    <3>3. line[i].wait + T.nBL <= x.wait BY <1>5, <2>1, <3>2
    <3> QED BY <2>1, <3>1, <3>3
  <2>4. j \in 1 .. Len(line) \/ j = Len(line) + 1
    <3>1. Len(line) \in Nat BY <1>1
    <3> QED BY <3>1, LastOrBefore
  <2> QED BY <2>2, <2>3, <2>4
<1>7. Behind(more, d2.since[ReadClock])
  <2> SUFFICES ASSUME NEW i \in 1 .. Len(line) + 1, Coming(more[i])
               PROVE  \/ d2.since[ReadClock] < T.nBL
                         /\ more[i].wait + d2.since[ReadClock] <= ReadLatency
                      \/ d2.since[ReadClock] >= T.nBL /\ more[i].wait + T.nBL <= ReadLatency
    BY <1>2 DEF Behind
  <2>1. CASE x.fwd /\ d2 = d
    <3>1. i \in 1 .. Len(line) /\ more[i] = line[i] BY <1>1, <1>2, <2>1 DEF Coming
    <3>2. d2.since[ReadClock] = s BY <2>1 DEF s
    <3> QED BY <1>1, <1>3, <3>1, <3>2 DEF Behind
  <2>2. CASE ~x.fwd
    <3>1. x.wait = ReadLatency /\ d2.since[ReadClock] = 0 BY <2>2
    <3>2. more[i].wait \in Nat /\ more[i].wait <= ReadLatency
      <4>1. CASE i = Len(line) + 1 BY <1>2, <1>4, <3>1, <4>1
      <4>2. CASE i \in 1 .. Len(line)
        <5>1. line[i].wait + T.nBL <= ReadLatency BY <1>2, <1>5, <2>2, <3>1, <4>2
        <5> QED BY <1>1, <1>2, <1>4, <4>2, <5>1
      <4> QED BY <1>1, <4>1, <4>2
    <3>3. CASE T.nBL = 0 BY <1>4, <3>1, <3>2, <3>3
    <3>4. CASE T.nBL > 0 BY <1>4, <3>1, <3>2, <3>4
    <3> QED BY <1>4, <3>3, <3>4
  <2>3. CASE x.fwd /\ d2 # d
    <3>1. i \in 1 .. Len(line) /\ more[i] = line[i] BY <1>1, <1>2, <2>3 DEF Coming
    <3>2. d2.since[ReadClock] = 0 /\ s >= T.nBL /\ s \in Nat BY <2>3 DEF s
    <3>3. line[i].wait + T.nBL <= ReadLatency /\ line[i].wait \in Nat
      <4>1. ~(s < T.nBL) BY <1>4, <3>2
      <4> QED BY <1>1, <1>2, <1>3, <3>1, <4>1 DEF Behind
    <3>4. CASE T.nBL = 0 BY <1>4, <3>1, <3>2, <3>3, <3>4
    <3>5. CASE T.nBL > 0 BY <1>4, <3>1, <3>2, <3>3, <3>5
    <3> QED BY <1>4, <3>4, <3>5
  <2> QED BY <2>1, <2>2, <2>3
<1> QED BY <1>6, <1>7 DEF Bus, more

LEMMA FoundHeld ==
  ASSUME NEW d, NEW c, NEW first, NEW p, Round(d, c, first, p), p.found
  PROVE  /\ Chosen(p) \in Held /\ p.cmd = CommandOf(d, Chosen(p)) /\ p.cmd \in Commands
         /\ CheckReady(d, p.cmd, Chosen(p).path)
<1>1. p.at \in 1 .. Len(p.ctl.buf[p.from]) /\ p.from \in Buffers /\ Good(p.ctl)
  BY DEF Round, Sound
<1>2. p.ctl.buf[p.from] \in Seq(Held) BY <1>1, GoodBuffer
<1>3. Chosen(p) \in Held BY <1>1, <1>2 DEF Chosen
<1>4. p.cmd = CommandOf(d, Chosen(p)) /\ CheckReady(d, p.cmd, Chosen(p).path)
  BY DEF Round, FromQueues, Fitting
<1> QED BY <1>3, <1>4, CommandsKnown

\* RD finishes a read, and nothing else does.
LEMMA ReadCommand ==
  ASSUME NEW d, NEW r \in Held, CommandOf(d, r) = "RD"
  PROVE  r.type = "Read" /\ FinalCommand[r.type] = "RD" /\ r \in Requests
<1>1. r.type = "Read"
  <2>1. r.type \in MemTypes \cup PIMTypes \cup {"REF"} BY HeldFacts DEF Held
  <2>2. CASE r.type \in {"Write", "REF", "MAC_AB", "MAC_SB", "MAC_PB"}
    BY <2>2, CommandsOfTypes
  <2>3. CASE r.type \in PIMTypes \ {"MAC_AB", "MAC_SB", "MAC_PB"}
    BY <2>3, CommandsOfTypes DEF Moves
  <2> QED BY <2>1, <2>2, <2>3 DEF MemTypes
<1>2. FinalCommand["Read"] = "RD" BY DEF FinalCommand, ReqTypes, MemTypes
<1> QED BY <1>1, <1>2, HeldFacts DEF Held

LEMMA RoundBus ==
  ASSUME NEW d, NEW c, NEW first, NEW p, Round(d, c, first, p), Bus(d, c)
  PROVE  Bus(Issue(d, p), AfterIssue(p))
<1> DEFINE e == AfterIssue(p)
           f == Issue(d, p)
           r == Chosen(p)
<1>1. Good(c) /\ Good(p.ctl) /\ Sound(p) /\ d \in Devices /\ p.ctl.pending = c.pending
  BY DEF Round, Sound, FromQueues, SameQueues
<1>2. Bus(d, p.ctl) BY <1>1 DEF Bus
<1>3. d.since[ReadClock] \in Nat BY <1>1, ReadRule DEF Devices
<1>4. CASE Finishes(p) /\ r.type = "Read"
  <2>1. p.found /\ p.cmd = "RD"
    BY <1>4 DEF Finishes, FinalCommand, ReqTypes, MemTypes
  <2>2. r \in Held /\ CheckReady(d, "RD", r.path) /\ r.path \in Banks
    <3>1. r \in Held /\ CheckReady(d, "RD", r.path) BY <2>1, FoundHeld
    <3>2. r \in Requests BY <1>4, <3>1 DEF Held, Refreshes, RefreshRequest
    <3> QED BY <3>1, <3>2, HeldFacts
  <2>3. <<r.path[1]>> \in Prefixes(r.path) /\ r.path[1] \in 0 .. NumPC - 1
    BY <2>2, BankFacts
  <2> HIDE DEF e, f, r
  <2>4. NumPC = 1 => d.since[ReadClock] >= T.nBL
    <3> SUFFICES ASSUME NumPC = 1 PROVE d.since[ReadClock] >= T.nBL
      OBVIOUS
    <3>1. <<r.path[1]>> = <<0>> BY <2>3
    <3>2. <<0>> \in Checked("RD", r.path)
      BY <2>3, <3>1 DEF Checked, ChannelScope
    <3>3. PICK k : Between(k, <<0>>, "RD", "RD") /\ k.lat = T.nBL BY ReadRule
    <3>4. Len(<<0>>) \in 0 .. 4 BY ReadRule
    <3> DEFINE n == <<0>>
    <3>5. n \in Checked("RD", r.path) /\ Len(n) \in 0 .. 4 /\ Between(k, n, "RD", "RD")
      BY <3>2, <3>3, <3>4
    <3>6. "RD" \in Commands BY DEF Commands, Access
    <3> HIDE DEF n
    <3>7. d.since[<<n, "RD">>] >= k.lat BY <2>2, <3>5, <3>6, Waited
    <3> QED BY <3>3, <3>7 DEF n, ReadClock
  <2>5. e.pending = Append(p.ctl.pending, Departure(r))
    BY <1>1, <1>4, FinishEffect DEF Finished, e, r
  <2>6. Departure(r) \in Departures /\ Departure(r).wait = ReadLatency
    <3>1. r.id \in Nat BY <2>2 DEF Held, Requests, Refreshes, RefreshRequest
    <3> QED BY <3>1, ReadRule DEF Departures, Departure
  <2>7. NumPC = 1 => f.since[ReadClock] = 0
    <3> SUFFICES ASSUME NumPC = 1 PROVE f.since[ReadClock] = 0
      OBVIOUS
    <3>1. f = IssueCommand(d, "RD", r.path, r.row) BY <2>1 DEF Issue, f, r
    <3>2. <<0>> \in Touched("RD", r.path) BY <2>3 DEF Touched
    <3> DEFINE n == <<0>>
    <3>3. <<n, "RD">> \in Clocks /\ n \in Touched("RD", r.path) BY <3>2, ReadRule DEF ReadClock
    <3> HIDE DEF n
    <3>4. f.since[<<n, "RD">>] = 0 BY <3>1, <3>3, IssuedSince
    <3> QED BY <3>4 DEF n, ReadClock
  <2>8. CASE NumPC = 1
    <3>1. f.since[ReadClock] = 0 /\ d.since[ReadClock] >= T.nBL BY <2>4, <2>7, <2>8
    <3>2. Bus(f, e) BY <1>1, <1>2, <1>3, <2>5, <2>6, <3>1, AppendBus
    <3> QED BY <3>2 DEF e, f
  <2>9. CASE NumPC # 1 BY <2>9 DEF Bus
  <2> QED BY <2>8, <2>9
<1>5. CASE ~(Finishes(p) /\ r.type = "Read")
  <2>1. e.pending = c.pending
    <3>1. CASE Finishes(p) BY <1>1, <1>5, <3>1, FinishEffect DEF Finished
    <3>2. CASE Activates(p) BY <1>1, <3>2, ActivateEffect DEF Activated
    <3>3. CASE ~Finishes(p) /\ ~Activates(p) BY <1>1, <3>3, NoEffect
    <3> QED BY <3>1, <3>2, <3>3
  <2>2. ~(p.found /\ p.cmd = "RD")
    <3> SUFFICES ASSUME p.found, p.cmd = "RD" PROVE FALSE
      OBVIOUS
    <3>1. r.type = "Read" /\ FinalCommand[r.type] = "RD" BY FoundHeld, ReadCommand
    <3> QED BY <1>5, <3>1 DEF Finishes
  <2>3. f.since[ReadClock] = d.since[ReadClock]
    <3>1. CASE ~p.found BY <3>1 DEF Issue
    <3>2. CASE p.found
      <4>1. f = IssueCommand(d, p.cmd, r.path, r.row) BY <3>2 DEF Issue
      <4>2. p.cmd # "RD" BY <2>2, <3>2
      <4>3. << <<0>>, "RD" >> \in Clocks BY ReadRule DEF ReadClock
      <4> HIDE DEF f, r
      <4> QED BY <4>1, <4>2, <4>3, IssuedSince DEF ReadClock
    <3> QED BY <3>1, <3>2
  <2> HIDE DEF e, f
  <2>4. Bus(f, e) BY <1>1, <2>1, <2>3 DEF Bus, Round
  <2> QED BY <2>4 DEF e, f
<1> QED BY <1>4, <1>5

BusInv == IInv /\ Bus(dev, ctl)

LEMMA NextBusInv == BusInv /\ [Next]_vars => BusInv'
<1> SUFFICES ASSUME BusInv, [Next]_vars PROVE BusInv'
  OBVIOUS
<1>1. IInv' BY NextIInv DEF BusInv
<1>2. CASE UNCHANGED vars BY <1>1, <1>2 DEF vars, BusInv, Bus
<1>3. ASSUME Tick PROVE Bus(dev', ctl')
  <2> DEFINE d == TickDevice(dev)
             c == TickClock(ctl)
             s == ServeCompletedReads(c)
  <2>1. /\ dev \in Devices /\ d \in Devices /\ Good(Ticked(ctl)) /\ Good(ctl)
        /\ Throw(d, Ticked(ctl)) \/ Rounds(d, Ticked(ctl), dev', ctl')
    BY <1>3, TickRounds DEF BusInv, IInv, TypeOK
  <2>2. Good(c) /\ Good(s) /\ Bus(d, c)
    BY <2>1, TickClockGood, ServeGood, TickBus DEF BusInv
  <2>3. Ticked(ctl) = RefreshTick(s) BY DEF Ticked
  <2> HIDE DEF d, c
  <2>4. Bus(d, s) BY <2>2, ServeFields, ServeBus
  <2> HIDE DEF s
  <2>5. Bus(d, Ticked(ctl))
    <3>1. RefreshTick(s).pending = s.pending BY <2>2, RefreshTickFields
    <3>2. Ticked(ctl).pending = s.pending BY <2>3, <3>1
    <3> QED BY <2>4, <3>2 DEF Bus
  <2>6. ASSUME Rounds(d, Ticked(ctl), dev', ctl') PROVE Bus(dev', ctl')
    <3>1. PICK p, q, first :
            /\ Round(d, Ticked(ctl), "any", p)
            /\ Round(Issue(d, p), AfterIssue(p), first, q)
            /\ dev' = Issue(Issue(d, p), q) /\ ctl' = AfterIssue(q)
      BY <2>6 DEF Rounds
    <3>2. Bus(Issue(d, p), AfterIssue(p)) BY <2>5, <3>1, RoundBus
    <3>3. Bus(Issue(Issue(d, p), q), AfterIssue(q)) BY <3>1, <3>2, RoundBus
    <3> QED BY <3>1, <3>3
  <2> QED BY <2>1, <2>5, <2>6 DEF Throw
<1>4. ASSUME NEW m \in Menu, Send(m) PROVE Bus(dev', ctl')
  <2> DEFINE x == [id |-> ctl.sent + 1, wait |-> 1, fwd |-> TRUE]
  <2>1. Good(ctl) /\ Bus(dev, ctl) BY DEF BusInv, IInv, TypeOK, BufferKinds, Good
  <2>2. ctl' = Accepted(ctl, m) /\ dev' = dev BY <1>4 DEF Send
  <2>3. x \in Departures /\ x.fwd
    <3>1. ctl.sent \in Nat BY <2>1 DEF Good, Controllers
    <3> QED BY <3>1 DEF Departures
  <2>4. ctl'.pending = ctl.pending \/ ctl'.pending = Append(ctl.pending, x)
    BY <2>1, <2>2, AcceptedFields
  <2> HIDE DEF x
  <2>5. CASE ctl'.pending = Append(ctl.pending, x)
    BY <2>1, <2>2, <2>3, <2>5, AppendBus
  <2>6. CASE ctl'.pending = ctl.pending BY <2>1, <2>2, <2>6 DEF Bus
  <2> QED BY <2>4, <2>5, <2>6
<1> QED BY <1>1, <1>2, <1>3, <1>4 DEF Next, BusInv

\* BurstsApart: on a channel of one pseudo channel the bursts of two reads
\* never overlap, whichever buffers and rounds they were picked from and
\* however long their data waits behind a forwarded read.
THEOREM BurstsApart == Spec => []DataBus
<1>1. Init => BusInv
  <2> SUFFICES ASSUME Init PROVE BusInv
    OBVIOUS
  <2>1. ctl.pending = <<>> BY DEF Init, InitController
  <2> QED BY <2>1, InitIInv DEF BusInv, Bus, Spaced, Behind
<1>2. BusInv => DataBus
  BY DEF BusInv, Bus, Spaced, Coming, DataBus
<1> QED BY <1>1, <1>2, NextBusInv, PTL DEF Spec

----------------------------------------------------------------------------
(* The rows of the banks.  Two kinds of traffic keep them in order, and    *)
(* the theorems say for each which it is: reads and writes without         *)
(* refreshes, that open and close the bank of their own address, and PIM   *)
(* requests without same-bank and per-bank MACs, that open and close all   *)
(* banks at once, with or without refreshes.                               *)

MemoryTraffic == ~Refreshing /\ \A m \in Menu : m.type \in MemTypes

AllBankTraffic ==
  \A m \in Menu : m.type \in PIMTypes \ {"MAC_SB", "MAC_PB"}

----------------------------------------------------------------------------
(* The command a read or a write needs.                                    *)

LEMMA BankIndexType ==
  ASSUME NEW b \in Banks
  PROVE  BankIndex(b) \in Nat
<1>1. /\ b[1] \in Nat /\ b[2] \in Nat /\ b[3] \in Nat /\ b[4] \in Nat
      /\ NumRank \in Nat /\ NumBG \in Nat /\ NumBank \in Nat
  BY DeviceAssumption DEF Banks
<1>2. \A x, y \in Nat : x * y \in Nat OBVIOUS
<1>3. b[1] * NumRank + b[2] \in Nat BY <1>1, <1>2
<1>4. (b[1] * NumRank + b[2]) * NumBG + b[3] \in Nat BY <1>1, <1>2, <1>3
<1>5. ((b[1] * NumRank + b[2]) * NumBG + b[3]) * NumBank + b[4] \in Nat
  BY <1>1, <1>2, <1>4
<1> QED BY <1>5 DEF BankIndex

\* A read or a write opens its bank when the bank is closed, closes it when
\* another row is open, and is served when its row is.
LEMMA MemoryCommand ==
  ASSUME NEW d, NEW r \in Requests, r.type \in MemTypes
  PROVE  LET cmd == CommandOf(d, r)
         IN  /\ cmd \in {"ACT", "PRE", FinalCommand[r.type]}
             /\ FinalCommand[r.type] \in {"RD", "WR"}
             /\ cmd = "ACT" => d.open[r.path] = {}
             /\ cmd = "PRE" => d.open[r.path] # {} /\ r.row \notin d.open[r.path]
             /\ cmd = FinalCommand[r.type] => r.row \in d.open[r.path]
<1> DEFINE cmd == CommandOf(d, r)
           last == FinalCommand[r.type]
           missing == { b \in {r.path} : r.row \notin d.open[b] }
           first == CHOOSE b \in missing : \A o \in missing : BankIndex(b) <= BankIndex(o)
<1>1. last \in {"RD", "WR"} BY DEF FinalCommand, ReqTypes, MemTypes
<1>2. cmd = IF missing = {} THEN last
            ELSE IF d.open[first] = {} THEN "ACT" ELSE "PRE"
  BY <1>1 DEF CommandOf, GetPreqCommand, RequireRowOpen
<1>3. CASE r.row \in d.open[r.path]
  <2>1. missing = {} BY <1>3
  <2> QED BY <1>1, <1>2, <1>3, <2>1
<1>4. CASE r.row \notin d.open[r.path]
  <2>1. missing = {r.path} BY <1>4
  <2>2. r.path \in Banks BY DEF Requests
  <2>3. BankIndex(r.path) <= BankIndex(r.path) BY <2>2, BankIndexType
  <2>4. first = r.path BY <2>1, <2>3
  <2> HIDE DEF missing, first
  <2> QED BY <1>1, <1>2, <1>4, <2>1, <2>4
<1> QED BY <1>3, <1>4

----------------------------------------------------------------------------
(* Reads and writes: the active buffer.                                    *)

\* Only reads and writes are queued, is_pim is not set, and every active
\* request has its row open and its bank for itself.
Holding(d, c) ==
  /\ \A b \in {"pim", "priority"} : c.buf[b] = <<>>
  /\ ~c.isPim
  /\ \A i \in DOMAIN c.buf["active"] :
       c.buf["active"][i].row \in d.open[c.buf["active"][i].path]
  /\ \A i, j \in DOMAIN c.buf["active"] :
       c.buf["active"][i].path = c.buf["active"][j].path => i = j

LEMMA MemoryHeld ==
  ASSUME MemoryTraffic, NEW r \in Asked
  PROVE  r \in Requests /\ r.type \in MemTypes /\ r.path \in Banks /\ r.row \in Rows
<1>1. r \in Held /\ r.type \in MemTypes BY DEF MemoryTraffic, Asked
<1>2. r.type # "REF" BY <1>1 DEF MemTypes
<1> QED BY <1>1, <1>2, HeldFacts DEF Held

\* The buffers after a round has scheduled, its active buffer being as before.
LEMMA HoldingKept ==
  ASSUME NEW d, NEW c, NEW first, NEW p, Round(d, c, first, p), Holding(d, c)
  PROVE  Holding(d, p.ctl) /\ p.ctl.buf = c.buf
<1>1. Good(c) /\ SameQueues(c, p.ctl) /\ (p.ctl.isPim => c.isPim \/ p.ctl.buf["pim"] # <<>>)
  BY DEF Round, FromQueues
<1>2. p.ctl.buf = c.buf
  <2>1. WithoutBarrier(c).buf = [c.buf EXCEPT !["pim"] = DropBarrier(@)]
    BY <1>1, WithoutBarrierQueues
  <2>2. DropBarrier(c.buf["pim"]) = c.buf["pim"] BY DEF DropBarrier, Holding
  <2>3. WithoutBarrier(c).buf = c.buf BY <1>1, <2>1, <2>2 DEF Good, Controllers
  <2> QED BY <1>1, <2>3 DEF SameQueues
<1> QED BY <1>1, <1>2 DEF Holding

\* What a round does to the active buffer: nothing, or take out the request it
\* has served, or add the one whose bank it has opened.
LEMMA ActiveAfter ==
  ASSUME NEW p, Sound(p)
  PROVE  LET old == p.ctl.buf["active"]
             new == AfterIssue(p).buf["active"]
         IN  \/ new = old
             \/ /\ Finishes(p) /\ p.at \in 1 .. Len(old) /\ new = RemoveAt(old, p.at)
                /\ p.from = "active"
             \/ Activates(p) /\ p.from # "active" /\ new = Append(old, Chosen(p))
             \/ Activates(p) /\ p.from = "active"
<1> DEFINE c == p.ctl
           e == AfterIssue(p)
<1>1. /\ c.buf \in [Buffers -> Seq(Held)] /\ p.from \in Buffers /\ "active" \in Buffers
  BY DEF Sound, Good, Controllers, Held, Buffers, QueueBuffers
<1>2. CASE Finishes(p)
  <2>1. e.buf = Taken(c.buf, p) BY <1>2, FinishEffect DEF Finished
  <2>2. p.at \in 1 .. Len(c.buf[p.from]) BY <1>2 DEF Finishes, Sound
  <2>3. CASE p.from = "active" BY <1>1, <1>2, <2>1, <2>2, <2>3 DEF Taken
  <2>4. CASE p.from # "active" BY <1>1, <2>1, <2>4 DEF Taken
  <2> QED BY <2>3, <2>4
<1>3. CASE Activates(p) /\ p.from # "active"
  <2>1. \/ e.buf = Taken([c.buf EXCEPT !["active"] = Append(@, Chosen(p))], p)
        \/ e.buf = Taken(c.buf, p)
    BY <1>3, ActivateEffect DEF Activated
  <2> QED BY <1>1, <1>3, <2>1 DEF Taken
<1>4. CASE ~Finishes(p) /\ ~Activates(p) BY <1>4, NoEffect
<1> QED BY <1>2, <1>3, <1>4

LEMMA EmptyAfter ==
  ASSUME NEW p, Sound(p), NEW b \in {"pim", "priority"}, p.ctl.buf[b] = <<>>
  PROVE  AfterIssue(p).buf[b] = <<>>
<1>1. /\ p.ctl.buf \in [Buffers -> Seq(Held)] /\ p.from \in Buffers /\ b \in Buffers
  BY DEF Sound, Good, Controllers, Held, Buffers, QueueBuffers
<1>2. p.found => p.from # b BY DEF Sound
<1>3. CASE Finishes(p)
  <2>1. AfterIssue(p).buf = Taken(p.ctl.buf, p) /\ p.from # b
    BY <1>2, <1>3, FinishEffect DEF Finished, Finishes
  <2> QED BY <1>1, <2>1 DEF Taken
<1>4. CASE Activates(p)
  <2>1. \/ AfterIssue(p).buf = Taken([p.ctl.buf EXCEPT !["active"] = Append(@, Chosen(p))], p)
        \/ AfterIssue(p).buf = Taken(p.ctl.buf, p)
    BY <1>4, ActivateEffect DEF Activated
  <2>2. p.from # b BY <1>2, <1>4 DEF Activates
  <2> QED BY <1>1, <2>1, <2>2 DEF Taken
<1>5. CASE ~Finishes(p) /\ ~Activates(p) BY <1>5, NoEffect
<1> QED BY <1>3, <1>4, <1>5

LEMMA MarkAfter ==
  ASSUME NEW p, Sound(p)
  PROVE  AfterIssue(p).isPim = p.ctl.isPim
BY FinishEffect, ActivateEffect, NoEffect

\* Every active request is still the only one of its bank, and keeps its row.
LEMMA RoundHolding ==
  ASSUME MemoryTraffic, NEW d, NEW c, NEW first, NEW p, Round(d, c, first, p),
         Within(c, Asked), Holding(d, c)
  PROVE  Holding(Issue(d, p), AfterIssue(p))
<1> DEFINE e == AfterIssue(p)
           f == Issue(d, p)
           r == Chosen(p)
           old == c.buf["active"]
           new == e.buf["active"]
<1>1. /\ Sound(p) /\ d \in Devices /\ Good(c) /\ p.ctl.buf = c.buf
      /\ Holding(d, p.ctl) /\ (p.found => ~Interrupts(p))
  BY HoldingKept DEF Round
<1>2. /\ e.isPim = FALSE \/ ~e.isPim
      /\ \A b \in {"pim", "priority"} : e.buf[b] = <<>>
  BY <1>1, EmptyAfter, MarkAfter DEF Holding
<1>3. /\ old \in Seq(Requests) /\ Len(old) \in Nat /\ DOMAIN old = 1 .. Len(old)
      /\ \A i \in 1 .. Len(old) : old[i].path \in Banks
  <2>1. old \in Seq(Asked) BY DEF Within, Buffers, QueueBuffers
  <2>2. Asked \subseteq Requests BY MemoryHeld
  <2> HIDE DEF old
  <2>3. old \in Seq(Requests) BY <2>1, <2>2
  <2>4. /\ Len(old) \in Nat /\ DOMAIN old = 1 .. Len(old)
        /\ \A i \in 1 .. Len(old) : old[i] \in Requests
    BY <2>3
  <2>5. \A x \in Requests : x.path \in Banks BY DEF Requests
  <2> QED BY <2>3, <2>4, <2>5
<1>4. ASSUME p.found
      PROVE  /\ r \in Requests /\ r.type \in MemTypes /\ r.path \in Banks /\ r.row \in Rows
             /\ p.cmd = CommandOf(d, r)
             /\ f.open = UpdateStates(d.open, p.cmd, r.path, r.row)
  <2>1. r \in Asked BY <1>4, RoundWithin
  <2>2. r \in Requests /\ r.type \in MemTypes /\ r.path \in Banks /\ r.row \in Rows
    BY <2>1, MemoryHeld
  <2>3. p.cmd = CommandOf(d, r) BY <1>4, FoundHeld
  <2>4. f.open = UpdateStates(d.open, p.cmd, r.path, r.row)
    BY <1>4 DEF Issue, IssueCommand
  <2> QED BY <2>2, <2>3, <2>4
<1>5. /\ \A i \in 1 .. Len(old) : old[i].row \in d.open[old[i].path]
      /\ \A i, j \in 1 .. Len(old) : old[i].path = old[j].path => i = j
  BY <1>3 DEF Holding
<1>6. d.open \in [Banks -> SUBSET Rows] BY <1>1 DEF Devices
<1> HIDE DEF e, f, r, old, new
<1>7. ASSUME p.found, p.cmd = "ACT"
      PROVE  /\ \A i \in 1 .. Len(old) : old[i].path # r.path
             /\ f.open = [d.open EXCEPT ![r.path] = {r.row}]
             /\ Activates(p) /\ p.from # "active" 
  <2>1. d.open[r.path] = {} BY <1>4, <1>7, MemoryCommand
  <2>2. \A i \in 1 .. Len(old) : old[i].path # r.path BY <1>3, <1>5, <2>1
  <2>3. p.from # "active"
    <3> SUFFICES ASSUME p.from = "active" PROVE FALSE
      OBVIOUS
    <3>1. p.at \in 1 .. Len(old) /\ r = old[p.at]
      BY <1>1, <1>7 DEF Sound, old, r, Chosen
    <3> QED BY <2>2, <3>1
  <2>4. FinalCommand[r.type] \in {"RD", "WR"} BY <1>4, <1>7, MemoryCommand
  <2>5. ~p.ctl.isPim BY <1>1 DEF Holding
  <2>6. Activates(p) BY <1>7, <2>4, <2>5 DEF Activates, Finishes, Opening, r
  <2>7. f.open = [d.open EXCEPT ![r.path] = {r.row}]
    <3>1. ActsOn(p.cmd, r.path) = {r.path} /\ p.cmd \in Opening
      BY <1>7 DEF ActsOn, Opening
    <3>2. f.open = [b \in Banks |-> IF b # r.path THEN d.open[b] ELSE d.open[b] \cup {r.row}]
      BY <1>4, <1>7, <3>1 DEF UpdateStates
    <3> QED BY <1>4, <1>6, <1>7, <2>1, <3>2
  <2> QED BY <2>2, <2>3, <2>6, <2>7
<1>8. ASSUME p.found, p.cmd = "PRE"
      PROVE  /\ \A i \in 1 .. Len(old) : old[i].path # r.path
             /\ f.open = [d.open EXCEPT ![r.path] = {}]
  <2>1. f.open = [d.open EXCEPT ![r.path] = {}]
    BY <1>4, <1>6, <1>8 DEF UpdateStates, ActsOn, Opening
  <2>2. \A i \in DOMAIN p.ctl.buf["active"] : p.ctl.buf["active"][i].path # r.path
    BY <1>1, <1>8 DEF Interrupts, Closing, r, Chosen
  <2> QED BY <1>1, <1>3, <2>1, <2>2 DEF old
<1>9. ASSUME p.found, p.cmd \notin {"ACT", "PRE"}
      PROVE  f.open = d.open /\ Finishes(p)
  <2>1. p.cmd = FinalCommand[r.type] /\ p.cmd \in {"RD", "WR"}
    BY <1>4, <1>9, MemoryCommand
  <2>2. ActsOn(p.cmd, r.path) = {} BY <2>1 DEF ActsOn
  <2>3. f.open = d.open BY <1>4, <1>6, <1>9, <2>2 DEF UpdateStates
  <2> QED BY <1>9, <2>1, <2>3 DEF Finishes, r
<1>10. ASSUME ~p.found PROVE f.open = d.open BY <1>10 DEF Issue, f
<1>11. \A i \in 1 .. Len(old) : old[i].row \in f.open[old[i].path]
  BY <1>3, <1>5, <1>6, <1>7, <1>8, <1>9, <1>10
<1>12. /\ \A i \in DOMAIN new : new[i].row \in f.open[new[i].path]
       /\ \A i, j \in DOMAIN new : new[i].path = new[j].path => i = j
  <2>1. CASE new = old BY <1>3, <1>5, <1>11, <2>1
  <2>2. CASE p.at \in 1 .. Len(old) /\ new = RemoveAt(old, p.at)
    <3>1. /\ new \in Seq(Requests) /\ Len(new) = Len(old) - 1
          /\ \A i \in 1 .. Len(old) - 1 :
               new[i] = IF i < p.at THEN old[i] ELSE old[i + 1]
      BY <1>3, <2>2, RemoveAtFacts
    <3>2. DOMAIN new = 1 .. Len(old) - 1 BY <3>1
    <3>3. \A i \in 1 .. Len(old) - 1 :
            \/ i < p.at /\ new[i] = old[i] /\ i \in 1 .. Len(old)
            \/ ~(i < p.at) /\ new[i] = old[i + 1] /\ i + 1 \in 1 .. Len(old)
      BY <1>3, <3>1
    <3>4. \A i \in DOMAIN new : new[i].row \in f.open[new[i].path]
      BY <1>11, <3>2, <3>3
    <3>5. ASSUME NEW i \in DOMAIN new, NEW j \in DOMAIN new, new[i].path = new[j].path
          PROVE  i = j
      <4> DEFINE at(k) == IF k < p.at THEN k ELSE k + 1
      <4>1. /\ at(i) \in 1 .. Len(old) /\ at(j) \in 1 .. Len(old)
            /\ new[i] = old[at(i)] /\ new[j] = old[at(j)]
        BY <3>2, <3>3, <3>5
      <4>2. at(i) = at(j) BY <1>5, <3>5, <4>1
      <4> QED BY <2>2, <3>2, <3>5, <4>2
    <3> QED BY <3>4, <3>5
  <2>3. CASE Activates(p) /\ new = Append(old, r)
    <3>1. p.found /\ p.cmd = "ACT"
      <4>1. p.found /\ p.cmd \in Opening BY <2>3 DEF Activates
      <4> QED BY <1>4, <1>9, <4>1, <2>3 DEF Activates, Opening
    <3>2. /\ r \in Requests /\ r.path \in Banks /\ r.row \in f.open[r.path]
          /\ \A i \in 1 .. Len(old) : old[i].path # r.path
      BY <1>4, <1>6, <1>7, <3>1
    <3>3. /\ DOMAIN new = 1 .. Len(old) + 1 /\ new[Len(old) + 1] = r
          /\ \A i \in 1 .. Len(old) : new[i] = old[i]
      BY <1>3, <2>3, <3>2
    <3>4. \A i \in DOMAIN new : i \in 1 .. Len(old) \/ i = Len(old) + 1 BY <1>3, <3>3
    <3> QED BY <1>5, <1>11, <3>2, <3>3, <3>4
  <2>4. CASE Activates(p) /\ p.from = "active"
    <3>1. p.found /\ p.cmd \in Opening BY <2>4 DEF Activates
    <3>2. p.cmd = "ACT"
      BY <1>4, <1>9, <3>1, <2>4 DEF Activates, Opening
    <3> QED BY <1>7, <2>4, <3>1, <3>2
  <2> QED BY <1>1, <2>1, <2>2, <2>3, <2>4, ActiveAfter DEF old, new, e, r
<1>13. Holding(f, e) BY <1>2, <1>12 DEF Holding, e, new
<1> QED BY <1>13 DEF e, f

----------------------------------------------------------------------------
(* With a slot for every bank the active buffer never overflows.           *)

LEMMA BanksFinite == IsFiniteSet(Banks)
<1> DEFINE P == (0 .. NumPC - 1) \X (0 .. NumRank - 1)
           Q == (0 .. NumBG - 1) \X (0 .. NumBank - 1)
           f == [b \in Banks |-> << <<b[1], b[2]>>, <<b[3], b[4]>> >>]
<1>1. IsFiniteSet(P) /\ IsFiniteSet(Q)
  <2>1. /\ IsFiniteSet(0 .. NumPC - 1) /\ IsFiniteSet(0 .. NumRank - 1)
        /\ IsFiniteSet(0 .. NumBG - 1) /\ IsFiniteSet(0 .. NumBank - 1)
    BY DeviceAssumption, FS_Interval
  <2> QED BY <2>1, FS_Product
<1>2. IsFiniteSet(P \X Q) BY <1>1, FS_Product
<1>3. \A b \in Banks : /\ f[b] \in P \X Q /\ b = <<b[1], b[2], b[3], b[4]>>
                       /\ f[b][1] = <<b[1], b[2]>> /\ f[b][2] = <<b[3], b[4]>>
  BY DEF Banks
<1>4. f \in [Banks -> P \X Q]
  <2>1. \A b \in Banks : << <<b[1], b[2]>>, <<b[3], b[4]>> >> \in P \X Q BY DEF Banks
  <2> HIDE DEF P, Q
  <2> QED BY <2>1
<1>5. ASSUME NEW b \in Banks, NEW o \in Banks, f[b] = f[o]
      PROVE  b = o
  <2>1. <<b[1], b[2]>> = <<o[1], o[2]>> /\ <<b[3], b[4]>> = <<o[3], o[4]>> BY <1>3, <1>5
  <2>2. b = <<b[1], b[2], b[3], b[4]>> /\ o = <<o[1], o[2], o[3], o[4]>> BY <1>3
  <2> QED BY <2>1, <2>2
<1> HIDE DEF f, P, Q
<1>6. f \in Injection(Banks, P \X Q) BY <1>4, <1>5 DEF Injection, IsInjective
<1> QED BY <1>2, <1>6, FS_Injection

\* Active requests of different banks, none of them b, leave room for b.
LEMMA RoomForOneMore ==
  ASSUME NEW s \in Seq(Requests), NEW b \in Banks,
         \A i, j \in 1 .. Len(s) : s[i].path = s[j].path => i = j,
         \A i \in 1 .. Len(s) : s[i].path # b,
         Cardinality(Banks) <= ActiveSize + 1
  PROVE  Len(s) <= ActiveSize
<1> DEFINE n == Len(s)
           others == Banks \ {b}
           f == [i \in 1 .. n |-> s[i].path]
<1>1. n \in Nat /\ \A i \in 1 .. n : s[i].path \in Banks
  <2>1. n \in Nat /\ \A i \in 1 .. n : s[i] \in Requests OBVIOUS
  <2>2. \A x \in Requests : x.path \in Banks BY DEF Requests
  <2> HIDE DEF n
  <2> QED BY <2>1, <2>2
<1>2. f \in Injection(1 .. n, others)
  <2>1. f \in [1 .. n -> others] BY <1>1
  <2>2. \A i, j \in 1 .. n : f[i] = f[j] => i = j OBVIOUS
  <2> HIDE DEF f, n, others
  <2> QED BY <2>1, <2>2 DEF Injection, IsInjective
<1>3. IsFiniteSet(others) /\ Cardinality(others) = Cardinality(Banks) - 1
      /\ Cardinality(Banks) \in Nat
  BY BanksFinite, FS_RemoveElement, FS_CardinalityType
<1> HIDE DEF f, n, others
<1>4. Cardinality(1 .. n) <= Cardinality(others) BY <1>2, <1>3, FS_Injection
<1>5. Cardinality(1 .. n) = n
  <2>1. Cardinality(1 .. n) = IF 1 > n THEN 0 ELSE n - 1 + 1 BY <1>1, FS_Interval
  <2> QED BY <1>1, <2>1
<1>6. n <= ActiveSize BY <1>1, <1>3, <1>4, <1>5, ControllerAssumption
<1> QED BY <1>6 DEF n

LEMMA RoundLost ==
  ASSUME MemoryTraffic, NEW d, NEW c, NEW first, NEW p, Round(d, c, first, p),
         Within(c, Asked), Holding(d, c),
         Cardinality(Banks) <= ActiveSize + 1
  PROVE  AfterIssue(p).lost = c.lost
<1>1. Sound(p) /\ p.ctl.buf = c.buf /\ p.ctl.lost = c.lost /\ Good(c)
  BY HoldingKept DEF Round, FromQueues, SameQueues
<1>2. CASE Finishes(p) BY <1>1, <1>2, FinishEffect DEF Finished
<1>3. CASE ~Finishes(p) /\ ~Activates(p) BY <1>1, <1>3, NoEffect
<1>4. CASE Activates(p)
  <2> DEFINE old == c.buf["active"]
             r == Chosen(p)
  <2>1. p.found /\ p.cmd \in Opening BY <1>4 DEF Activates
  <2>2. /\ r \in Requests /\ r.type \in MemTypes /\ r.path \in Banks
        /\ p.cmd = CommandOf(d, r)
    BY <2>1, RoundWithin, MemoryHeld, FoundHeld
  <2>3. old \in Seq(Requests) /\ DOMAIN old = 1 .. Len(old)
    <3>1. old \in Seq(Asked) BY DEF Within, Buffers, QueueBuffers
    <3>2. Asked \subseteq Requests BY MemoryHeld
    <3> HIDE DEF old
    <3> QED BY <3>1, <3>2
  <2> HIDE DEF r
  <2>4. d.open[r.path] = {}
    <3>1. p.cmd \in {"ACT", "PRE", FinalCommand[r.type]} /\ FinalCommand[r.type] \in {"RD", "WR"}
      BY <2>2, MemoryCommand
    <3>2. p.cmd = "ACT" BY <2>1, <3>1 DEF Opening
    <3> QED BY <2>2, <3>2, MemoryCommand
  <2>5. /\ \A i \in 1 .. Len(old) : old[i].row \in d.open[old[i].path]
        /\ \A i, j \in 1 .. Len(old) : old[i].path = old[j].path => i = j
    BY <2>3 DEF Holding
  <2> HIDE DEF old
  <2>6. \A i \in 1 .. Len(old) : old[i].path # r.path BY <2>4, <2>5
  <2>7. Len(old) <= ActiveSize BY <2>2, <2>3, <2>5, <2>6, RoomForOneMore
  <2>8. ~(Len(old) > ActiveSize)
    <3>1. Len(old) \in Nat /\ ActiveSize \in Nat BY <2>3, ControllerAssumption
    <3> QED BY <2>7, <3>1
  <2> QED BY <1>1, <1>4, <2>8, ActivateEffect DEF Activated, old
<1> QED BY <1>2, <1>3, <1>4

NoneLost(c) == Cardinality(Banks) <= ActiveSize + 1 => c.lost = {}

HoldingInv == AskedInv /\ Holding(dev, ctl) /\ NoneLost(ctl)

LEMMA NextHoldingInv ==
  ASSUME MemoryTraffic
  PROVE  HoldingInv /\ [Next]_vars => HoldingInv'
<1> SUFFICES ASSUME HoldingInv, [Next]_vars PROVE HoldingInv'
  OBVIOUS
<1>1. AskedInv' BY NextAsked DEF HoldingInv
<1>2. CASE UNCHANGED vars BY <1>1, <1>2 DEF vars, HoldingInv, Holding, NoneLost
<1>3. ASSUME Tick PROVE Holding(dev', ctl') /\ NoneLost(ctl')
  <2> DEFINE d == TickDevice(dev)
             c == Ticked(ctl)
             s == ServeCompletedReads(TickClock(ctl))
  <2>1. /\ dev \in Devices /\ d \in Devices /\ Good(c) /\ Good(ctl)
        /\ Throw(d, c) \/ Rounds(d, c, dev', ctl')
    BY <1>3, TickRounds DEF HoldingInv, AskedInv, IInv, TypeOK
  <2>2. Within(c, Asked) BY <2>1, TickedWithin, RefreshesAsked DEF HoldingInv, AskedInv
  <2>3. Holding(d, c) /\ NoneLost(c)
    <3>1. d.open = dev.open BY DEF TickDevice, Devices
    <3>2. s.buf = ctl.buf /\ s.isPim = ctl.isPim /\ s.lost = ctl.lost /\ Good(s)
      BY <2>1, TickClockFields, TickClockGood, ServeFields, ServeGood
    <3>3. c = RefreshTick(s) BY DEF Ticked
    <3> HIDE DEF s, c, d
    <3>4. c.buf = s.buf /\ c.isPim = s.isPim /\ c.lost = s.lost
      BY <3>2, <3>3, RefreshTickFields DEF MemoryTraffic
    <3> QED BY <3>1, <3>2, <3>4 DEF HoldingInv, Holding, NoneLost
  <2> HIDE DEF d, c
  <2>4. ASSUME Rounds(d, c, dev', ctl') PROVE Holding(dev', ctl') /\ NoneLost(ctl')
    <3>1. PICK p, q, first :
            /\ Round(d, c, "any", p) /\ Round(Issue(d, p), AfterIssue(p), first, q)
            /\ dev' = Issue(Issue(d, p), q) /\ ctl' = AfterIssue(q)
      BY <2>4 DEF Rounds
    <3>2. Within(AfterIssue(p), Asked) /\ Holding(Issue(d, p), AfterIssue(p))
      BY <2>2, <2>3, <3>1, RoundWithin, RoundHolding
    <3>3. Holding(Issue(Issue(d, p), q), AfterIssue(q)) BY <3>1, <3>2, RoundHolding
    <3>4. NoneLost(AfterIssue(p)) BY <2>2, <2>3, <3>1, RoundLost DEF NoneLost
    <3>5. NoneLost(AfterIssue(q)) BY <3>1, <3>2, <3>4, RoundLost DEF NoneLost
    <3> QED BY <3>1, <3>3, <3>5
  <2> QED BY <2>1, <2>3, <2>4 DEF Throw
<1>4. ASSUME NEW m \in Menu, Send(m) PROVE Holding(dev', ctl') /\ NoneLost(ctl')
  <2>1. Good(ctl) BY DEF HoldingInv, AskedInv, IInv, TypeOK, BufferKinds, Good
  <2>2. ctl' = Accepted(ctl, m) /\ dev' = dev BY <1>4 DEF Send
  <2>3. BufferOf(m.type) \in {"read", "write"} BY DEF MemoryTraffic, BufferOf, MemTypes
  <2>4. {"active", "pim", "priority"} \subseteq Buffers \ {BufferOf(m.type)}
    BY <2>3 DEF Buffers, QueueBuffers
  <2>5. /\ ctl'.isPim = ctl.isPim /\ ctl'.lost = ctl.lost
        /\ \A b \in {"active", "pim", "priority"} : ctl'.buf[b] = ctl.buf[b]
    BY <2>1, <2>2, <2>4, AcceptedOthers
  <2> QED BY <2>2, <2>5 DEF HoldingInv, Holding, NoneLost
<1> QED BY <1>1, <1>2, <1>3, <1>4 DEF Next, HoldingInv

LEMMA InitHoldingInv == Init => HoldingInv
<1> SUFFICES ASSUME Init PROVE HoldingInv
  OBVIOUS
<1>1. /\ \A b \in Buffers : ctl.buf[b] = <<>>
      /\ ctl.isPim = FALSE /\ ctl.lost = {}
  BY DEF Init, InitController
<1>2. {"active", "pim", "priority"} \subseteq Buffers BY DEF Buffers, QueueBuffers
<1>3. Holding(dev, ctl) BY <1>1, <1>2 DEF Holding
<1> QED BY <1>1, <1>3, InitAsked DEF HoldingInv, NoneLost

\* RowsHeld: with reads and writes only, a bank opened for a request keeps its
\* row until the request is served, and serves one request at a time, whatever
\* the two rounds of a tick pick.  A refresh closes banks under the requests
\* they were opened for, and so does an all-bank MAC: hence the hypothesis.
THEOREM RowsHeld == ASSUME MemoryTraffic PROVE Spec => []RowHeld
<1>1. HoldingInv => RowHeld
  BY DEF HoldingInv, Holding, RowHeld
<1> QED BY <1>1, InitHoldingInv, NextHoldingInv, PTL DEF Spec

\* NoneAreLost: with reads and writes only and a slot of the active buffer for
\* every bank, no request is dropped by an enqueue whose result is ignored.
THEOREM NoneAreLost == ASSUME MemoryTraffic PROVE Spec => []NothingLost
<1>1. HoldingInv => NothingLost
  BY DEF HoldingInv, NoneLost, NothingLost
<1> QED BY <1>1, InitHoldingInv, NextHoldingInv, PTL DEF Spec

----------------------------------------------------------------------------
(* The row cycle of a bank.                                                *)

\* The bank has been open, or closed, for as long as the last command act, or
\* pre, is ago at node n, or for longer than any constraint between the two.
CycleAt(d, b, n, act, pre) ==
  /\ d.open[b] # {} => d.age[b] >= T.nRAS \/ d.age[b] >= d.since[<<n, act>>]
  /\ d.open[b] = {} => d.age[b] >= T.nRP \/ d.age[b] >= d.since[<<n, pre>>]

\* The rules of the table that make a row cycle of act and pre at node n.
CycleRules(n, act, pre) ==
  /\ n \in Nodes /\ Len(n) \in 0 .. 4 /\ act \in Commands /\ pre \in Commands
  /\ \E k : Between(k, n, act, pre) /\ k.lat = T.nRAS
  /\ \E k : Between(k, n, pre, act) /\ k.lat = T.nRP

LEMMA CycleClocks ==
  ASSUME NEW n, NEW act, NEW pre, CycleRules(n, act, pre)
  PROVE  /\ <<n, act>> \in Clocks /\ <<n, pre>> \in Clocks
         /\ T.nRAS \in Int /\ T.nRAS <= Idle /\ T.nRP \in Int /\ T.nRP <= Idle
         /\ Idle \in Nat
<1>1. PICK k : Between(k, n, act, pre) /\ k.lat = T.nRAS BY DEF CycleRules
<1>2. PICK j : Between(j, n, pre, act) /\ j.lat = T.nRP BY DEF CycleRules
<1>3. <<n, act>> \in Clocks BY <1>1, ClockOf DEF CycleRules
<1>4. <<n, pre>> \in Clocks BY <1>2, ClockOf DEF CycleRules
<1>5. /\ k.lat \in Int /\ k.lat <= Idle /\ j.lat \in Int /\ j.lat <= Idle /\ Idle \in Nat
  BY <1>1, <1>2, ConstraintType DEF Between
<1> QED BY <1>1, <1>2, <1>3, <1>4, <1>5

LEMMA BankRules ==
  ASSUME NEW b \in Banks
  PROVE  CycleRules(b, "ACT", "PRE")
<1>1. b \in Nodes /\ Len(b) = 4 BY BankFacts DEF Nodes
<1> DEFINE k == [level |-> 4, prev |-> "ACT", next |-> "PRE", lat |-> T.nRAS]
           j == [level |-> 4, prev |-> "PRE", next |-> "ACT", lat |-> T.nRP]
<1>2. k \in Constraints /\ j \in Constraints BY LatencyFacts DEF Rule
<1>3. Between(k, b, "ACT", "PRE") /\ k.lat = T.nRAS BY <1>1, <1>2 DEF Between
<1>4. Between(j, b, "PRE", "ACT") /\ j.lat = T.nRP BY <1>1, <1>2 DEF Between
<1>5. "ACT" \in Commands /\ "PRE" \in Commands BY DEF Commands, Opening, Closing
<1> HIDE DEF k, j
<1> QED BY <1>1, <1>3, <1>4, <1>5 DEF CycleRules

LEMMA ChannelRules == CycleRules(<<>>, "ACTAB", "PREA")
<1>1. <<>> \in Nodes /\ Len(<<>>) = 0
  <2>1. <<0, 0, 0, 0>> \in Banks BY DeviceAssumption DEF Banks
  <2>2. <<>> \in Prefixes(<<0, 0, 0, 0>>) BY <2>1, BankFacts
  <2> QED BY <2>1, <2>2 DEF Nodes
<1> DEFINE k == [level |-> 0, prev |-> "ACTAB", next |-> "PREA", lat |-> T.nRAS]
           j == [level |-> 0, prev |-> "PREA", next |-> "ACTAB", lat |-> T.nRP]
<1>2. k \in Constraints /\ j \in Constraints BY LatencyFacts DEF Rule
<1>3. Between(k, <<>>, "ACTAB", "PREA") /\ k.lat = T.nRAS BY <1>1, <1>2 DEF Between
<1>4. Between(j, <<>>, "PREA", "ACTAB") /\ j.lat = T.nRP BY <1>1, <1>2 DEF Between
<1>5. "ACTAB" \in Commands /\ "PREA" \in Commands BY DEF Commands, Opening, Closing
<1> HIDE DEF k, j
<1> QED BY <1>1, <1>3, <1>4, <1>5 DEF CycleRules

LEMMA TickCycle ==
  ASSUME NEW d \in Devices, NEW b \in Banks, NEW n, NEW act, NEW pre,
         CycleRules(n, act, pre), CycleAt(d, b, n, act, pre)
  PROVE  /\ CycleAt(TickDevice(d), b, n, act, pre)
         /\ TickDevice(d).age[b] = AgeBank(d.age[b]) /\ TickDevice(d).open[b] = d.open[b]
<1> DEFINE e == TickDevice(d)
<1>1. e.age[b] = AgeBank(d.age[b]) /\ e.open[b] = d.open[b] /\ d.age[b] \in Nat
  BY DEF TickDevice, Devices
<1>2. PICK k : Between(k, n, act, pre) /\ k.lat = T.nRAS BY DEF CycleRules
<1>3. PICK j : Between(j, n, pre, act) /\ j.lat = T.nRP BY DEF CycleRules
<1>4. /\ d.since[<<n, act>>] \in Nat /\ e.since[<<n, act>>] \in Nat
      /\ \/ e.since[<<n, act>>] = d.since[<<n, act>>] + 1
         \/ d.since[<<n, act>>] + 1 >= k.lat
  BY <1>2, Aged DEF CycleRules
<1>5. /\ d.since[<<n, pre>>] \in Nat /\ e.since[<<n, pre>>] \in Nat
      /\ \/ e.since[<<n, pre>>] = d.since[<<n, pre>>] + 1
         \/ d.since[<<n, pre>>] + 1 >= j.lat
  BY <1>3, Aged DEF CycleRules
<1>6. /\ T.nRAS \in Int /\ T.nRAS <= Idle /\ T.nRP \in Int /\ T.nRP <= Idle /\ Idle \in Nat
  BY CycleClocks
<1> HIDE DEF e
<1>7. ASSUME NEW x \in Nat, NEW y \in Nat, NEW lat \in Int, lat <= Idle,
             NEW a \in Nat, a >= lat \/ a >= x, y = x + 1 \/ x + 1 >= lat
      PROVE  AgeBank(a) >= lat \/ AgeBank(a) >= y
  BY <1>6, <1>7 DEF AgeBank
<1>8. d.open[b] # {} => e.age[b] >= T.nRAS \/ e.age[b] >= e.since[<<n, act>>]
  BY <1>1, <1>2, <1>4, <1>6, <1>7 DEF CycleAt
<1>9. d.open[b] = {} => e.age[b] >= T.nRP \/ e.age[b] >= e.since[<<n, pre>>]
  BY <1>1, <1>3, <1>5, <1>6, <1>7 DEF CycleAt
<1> QED BY <1>1, <1>8, <1>9 DEF CycleAt, e

\* What a command may do to a bank.
Rests(d, e, b) == e.open[b] = d.open[b] /\ e.age[b] = d.age[b]

Opens(d, e, b) == /\ d.open[b] = {} /\ d.age[b] >= T.nRP
                  /\ \E row \in Rows : e.open[b] = {row}
                  /\ e.age[b] = 0

Closes(d, e, b) == /\ d.open[b] # {} /\ d.age[b] >= T.nRAS
                   /\ e.open[b] = {}
                   /\ e.age[b] = 0

\* A bank opens with act and closes with pre, both ready at node n; otherwise
\* neither of them is seen there, and the bank rests.
LEMMA IssueCycle ==
  ASSUME NEW d \in Devices, NEW b \in Banks, NEW n, NEW act, NEW pre,
         CycleRules(n, act, pre), CycleAt(d, b, n, act, pre),
         NEW cmd, NEW path, NEW row, CheckReady(d, cmd, path),
         \/ /\ cmd = act /\ d.open[b] = {} /\ row \in Rows /\ n \in Checked(cmd, path) \cap Touched(cmd, path)
            /\ act \in Opening /\ b \in ActsOn(cmd, path)
         \/ /\ cmd = pre /\ d.open[b] # {} /\ n \in Checked(cmd, path) \cap Touched(cmd, path)
            /\ pre \notin Opening /\ b \in ActsOn(cmd, path)
         \/ /\ b \notin ActsOn(cmd, path)
            /\ cmd \in {act, pre} => n \notin Touched(cmd, path),
         act # pre
  PROVE  LET e == IssueCommand(d, cmd, path, row)
         IN  /\ CycleAt(e, b, n, act, pre)
             /\ Rests(d, e, b) \/ Opens(d, e, b) \/ Closes(d, e, b)
             /\ b \notin ActsOn(cmd, path) => Rests(d, e, b)
<1> DEFINE e == IssueCommand(d, cmd, path, row)
<1>1. /\ e.open[b] = IF b \notin ActsOn(cmd, path) THEN d.open[b]
                     ELSE IF cmd \in Opening THEN d.open[b] \cup {row} ELSE {}
      /\ e.age[b] = IF (e.open[b] = {}) # (d.open[b] = {}) THEN 0 ELSE d.age[b]
  BY DEF IssueCommand, UpdateStates
<1>2. /\ <<n, act>> \in Clocks /\ <<n, pre>> \in Clocks
      /\ T.nRAS \in Int /\ T.nRP \in Int
  BY CycleClocks
<1>3. \A c \in {act, pre} : e.since[<<n, c>>] =
        IF c = cmd /\ n \in Touched(cmd, path) THEN 0 ELSE d.since[<<n, c>>]
  BY <1>2, IssuedSince
<1>4. d.age[b] \in Nat /\ d.since[<<n, act>>] \in Nat /\ d.since[<<n, pre>>] \in Nat
  BY <1>2 DEF Devices
<1>5. Len(n) \in 0 .. 4 /\ act \in Commands /\ pre \in Commands BY DEF CycleRules
<1> HIDE DEF e
<1>6. CASE /\ cmd = act /\ d.open[b] = {} /\ row \in Rows /\ n \in Checked(cmd, path) \cap Touched(cmd, path)
           /\ act \in Opening /\ b \in ActsOn(cmd, path)
  <2>1. PICK j : Between(j, n, pre, act) /\ j.lat = T.nRP BY DEF CycleRules
  <2>2. d.since[<<n, pre>>] >= T.nRP BY <1>5, <1>6, <2>1, Waited
  <2>3. d.age[b] >= T.nRP BY <1>2, <1>4, <1>6, <2>2 DEF CycleAt
  <2>4. e.open[b] = {row} /\ e.age[b] = 0 BY <1>1, <1>6
  <2>5. e.since[<<n, act>>] = 0 BY <1>3, <1>6
  <2>6. CycleAt(e, b, n, act, pre) BY <2>4, <2>5 DEF CycleAt
  <2>7. Opens(d, e, b) BY <1>6, <2>3, <2>4 DEF Opens
  <2> QED BY <1>6, <2>6, <2>7 DEF e
<1>7. CASE /\ cmd = pre /\ d.open[b] # {} /\ n \in Checked(cmd, path) \cap Touched(cmd, path)
           /\ pre \notin Opening /\ b \in ActsOn(cmd, path)
  <2>1. PICK k : Between(k, n, act, pre) /\ k.lat = T.nRAS BY DEF CycleRules
  <2>2. d.since[<<n, act>>] >= T.nRAS BY <1>5, <1>7, <2>1, Waited
  <2>3. d.age[b] >= T.nRAS BY <1>2, <1>4, <1>7, <2>2 DEF CycleAt
  <2>4. e.open[b] = {} /\ e.age[b] = 0 BY <1>1, <1>7
  <2>5. e.since[<<n, pre>>] = 0 BY <1>3, <1>7
  <2>6. CycleAt(e, b, n, act, pre) BY <2>4, <2>5 DEF CycleAt
  <2>7. Closes(d, e, b) BY <1>7, <2>3, <2>4 DEF Closes
  <2> QED BY <1>7, <2>6, <2>7 DEF e
<1>8. CASE /\ b \notin ActsOn(cmd, path)
           /\ cmd \in {act, pre} => n \notin Touched(cmd, path)
  <2>1. e.open[b] = d.open[b] /\ e.age[b] = d.age[b] BY <1>1, <1>8
  <2>2. /\ e.since[<<n, act>>] = d.since[<<n, act>>]
        /\ e.since[<<n, pre>>] = d.since[<<n, pre>>]
    BY <1>3, <1>8
  <2>3. CycleAt(e, b, n, act, pre) BY <2>1, <2>2 DEF CycleAt
  <2> QED BY <2>1, <2>3 DEF Rests, e
<1> QED BY <1>6, <1>7, <1>8

----------------------------------------------------------------------------
(* All-bank traffic: the banks open and close together.                    *)

Lock(d) == \/ \A b \in Banks : d.open[b] = {}
           \/ \E row \in Rows : \A b \in Banks : d.open[b] = {row}

LEMMA FirstBank ==
  LET first == CHOOSE b \in Banks : \A o \in Banks : BankIndex(b) <= BankIndex(o)
  IN  first \in Banks
<1> DEFINE z == <<0, 0, 0, 0>>
<1>1. z \in Banks BY DeviceAssumption DEF Banks
<1>2. BankIndex(z) = 0
  <2>1. NumRank \in Nat /\ NumBG \in Nat /\ NumBank \in Nat BY DeviceAssumption
  <2>2. \A x \in Nat : 0 * x = 0 OBVIOUS
  <2>3. 0 * NumRank = 0 /\ 0 * NumBG = 0 /\ 0 * NumBank = 0 BY <2>1, <2>2
  <2> QED BY <2>3 DEF BankIndex
<1>3. \A o \in Banks : BankIndex(z) <= BankIndex(o) BY <1>2, BankIndexType
<1> HIDE DEF z
<1> QED BY <1>1, <1>3

\* A MAC or a refresh opens all banks when they are closed, and closes them
\* all when they are open.
LEMMA AllBankCommand ==
  ASSUME AllBankTraffic, NEW d, Lock(d), NEW r \in Asked
  PROVE  LET cmd == CommandOf(d, r)
         IN  \/ /\ cmd = "ACTAB" /\ \A b \in Banks : d.open[b] = {}
                /\ r \in Requests /\ r.row \in Rows /\ r.path \in Banks
             \/ cmd = "PREA" /\ \A b \in Banks : d.open[b] # {}
             \/ /\ cmd \in {"MACAB", "REFab", "SETM", "SETH", "BARRIER"} \cup Moves
                /\ ActsOn(cmd, r.path) = {}
<1> DEFINE cmd == CommandOf(d, r)
           rest == {"MACAB", "REFab", "SETM", "SETH", "BARRIER"} \cup Moves
           first == CHOOSE b \in Banks : \A o \in Banks : BankIndex(b) <= BankIndex(o)
<1>1. r \in Held /\ r.type \in (PIMTypes \ {"MAC_SB", "MAC_PB"}) \cup {"REF"}
  BY DEF AllBankTraffic, Asked
<1>2. \A c \in rest : ActsOn(c, r.path) = {} BY DEF ActsOn, Moves
<1>3. CASE r.type \in PIMTypes \ {"MAC_AB", "MAC_SB", "MAC_PB"}
  BY <1>2, <1>3, CommandsOfTypes
<1>4. CASE r.type = "REF"
  <2>1. cmd = IF \A b \in Banks : d.open[b] = {} THEN "REFab" ELSE "PREA"
    BY <1>4 DEF CommandOf, GetPreqCommand, FinalCommand, ReqTypes
  <2>2. CASE \A b \in Banks : d.open[b] = {} BY <1>2, <2>1, <2>2
  <2>3. CASE \E row \in Rows : \A b \in Banks : d.open[b] = {row}
    <3>1. \A b \in Banks : d.open[b] # {} BY <2>3
    <3>2. first \in Banks BY FirstBank
    <3> QED BY <2>1, <3>1, <3>2
  <2> QED BY <2>2, <2>3 DEF Lock
<1>5. CASE r.type = "MAC_AB"
  <2> DEFINE missing == { b \in Banks : r.row \notin d.open[b] }
  <2>1. r \in Requests /\ r.row \in Rows /\ r.path \in Banks
    BY <1>1, <1>5, HeldFacts DEF Held
  <2>2. cmd = RequireRowOpen(d, "MACAB", Banks, r.row, "ACTAB", "PREA")
    BY <1>5 DEF CommandOf, GetPreqCommand, FinalCommand, ReqTypes, PIMTypes
  <2>3. first \in Banks BY FirstBank
  <2>4. CASE missing = {}
    <3>1. cmd = "MACAB" BY <2>2, <2>4 DEF RequireRowOpen
    <3> QED BY <1>2, <3>1
  <2>5. CASE missing = Banks
    <3>1. Banks # {} BY <2>3
    <3>2. cmd = IF d.open[first] = {} THEN "ACTAB" ELSE "PREA"
      BY <2>2, <2>5, <3>1 DEF RequireRowOpen
    <3> HIDE DEF first, cmd
    <3>3. CASE \A b \in Banks : d.open[b] = {} BY <2>1, <2>3, <3>2, <3>3 DEF cmd
    <3>4. CASE \E row \in Rows : \A b \in Banks : d.open[b] = {row}
      <4>1. \A b \in Banks : d.open[b] # {} BY <3>4
      <4> QED BY <2>3, <3>2, <4>1 DEF cmd
    <3> QED BY <3>3, <3>4 DEF Lock
  <2>6. missing = {} \/ missing = Banks
    <3>1. CASE \A b \in Banks : d.open[b] = {} BY <3>1
    <3>2. CASE \E row \in Rows : \A b \in Banks : d.open[b] = {row} BY <3>2
    <3> QED BY <3>1, <3>2 DEF Lock
  <2> QED BY <2>4, <2>5, <2>6
<1> QED BY <1>1, <1>3, <1>4, <1>5

LEMMA RoundLock ==
  ASSUME AllBankTraffic, NEW d, NEW c, NEW first, NEW p, Round(d, c, first, p),
         Within(c, Asked), Lock(d)
  PROVE  Lock(Issue(d, p))
<1> SUFFICES ASSUME p.found PROVE Lock(Issue(d, p))
  BY DEF Issue
<1> DEFINE r == Chosen(p)
           f == Issue(d, p)
<1>1. r \in Asked /\ p.cmd = CommandOf(d, r) BY RoundWithin, FoundHeld
<1>2. f.open = UpdateStates(d.open, p.cmd, r.path, r.row) BY DEF Issue, IssueCommand
<1> HIDE DEF f, r
<1>3. CASE p.cmd = "ACTAB" /\ (\A b \in Banks : d.open[b] = {}) /\ r.row \in Rows
  <2>1. \A b \in Banks : f.open[b] = {r.row}
    BY <1>2, <1>3 DEF UpdateStates, ActsOn, Opening
  <2> QED BY <1>3, <2>1 DEF Lock, f
<1>4. CASE p.cmd = "PREA"
  <2>1. \A b \in Banks : f.open[b] = {} BY <1>2, <1>4 DEF UpdateStates, ActsOn, Opening
  <2> QED BY <2>1 DEF Lock, f
<1>5. CASE ActsOn(p.cmd, r.path) = {}
  <2>1. \A b \in Banks : f.open[b] = d.open[b] BY <1>2, <1>5 DEF UpdateStates
  <2> QED BY <2>1 DEF Lock, f
<1> QED BY <1>1, <1>3, <1>4, <1>5, AllBankCommand

----------------------------------------------------------------------------
(* The row cycle is kept by either traffic.                                *)

Cycling(d) ==
  \/ MemoryTraffic /\ \A b \in Banks : CycleAt(d, b, b, "ACT", "PRE")
  \/ AllBankTraffic /\ Lock(d) /\ \A b \in Banks : CycleAt(d, b, <<>>, "ACTAB", "PREA")

\* Nothing happens to a bank without a row command.
Cycled(d, e, p) ==
  /\ \A b \in Banks : Rests(d, e, b) \/ Opens(d, e, b) \/ Closes(d, e, b)
  /\ (p.found /\ p.cmd \in RowCommands) \/ \A b \in Banks : Rests(d, e, b)

LEMMA OtherBank ==
  ASSUME NEW b \in Banks, NEW path \in Banks, b \in Prefixes(path)
  PROVE  b = path
<1>1. PICK l \in 0 .. Len(path) : b = SubSeq(path, 1, l) BY DEF Prefixes
<1>2. path \in Seq(Int) /\ Len(path) = 4 /\ Len(b) = 4 BY BankFacts
<1>3. Len(SubSeq(path, 1, l)) = l BY <1>1, <1>2
<1>4. l = 4 BY <1>1, <1>2, <1>3
<1> QED BY <1>1, <1>2, <1>4, SubSeqFull

LEMMA MemoryCycle ==
  ASSUME MemoryTraffic, NEW d, NEW c, NEW first, NEW p, Round(d, c, first, p),
         Within(c, Asked), \A b \in Banks : CycleAt(d, b, b, "ACT", "PRE")
  PROVE  /\ \A b \in Banks : CycleAt(Issue(d, p), b, b, "ACT", "PRE")
         /\ Cycled(d, Issue(d, p), p)
<1>1. CASE ~p.found BY <1>1 DEF Issue, Cycled, Rests
<1>2. CASE p.found
  <2> DEFINE r == Chosen(p)
             f == Issue(d, p)
  <2>1. /\ r \in Requests /\ r.type \in MemTypes /\ r.path \in Banks /\ r.row \in Rows
        /\ p.cmd = CommandOf(d, r) /\ CheckReady(d, p.cmd, r.path) /\ d \in Devices
    BY <1>2, RoundWithin, MemoryHeld, FoundHeld DEF Round
  <2>2. f = IssueCommand(d, p.cmd, r.path, r.row) BY <1>2 DEF Issue
  <2>3. /\ p.cmd \in {"ACT", "PRE", "RD", "WR"}
        /\ p.cmd = "ACT" => d.open[r.path] = {}
        /\ p.cmd = "PRE" => d.open[r.path] # {}
    BY <2>1, MemoryCommand
  <2>4. ActsOn(p.cmd, r.path) = IF p.cmd \in {"ACT", "PRE"} THEN {r.path} ELSE {}
    BY <2>3 DEF ActsOn
  <2>5. /\ Checked(p.cmd, r.path) = Prefixes(r.path)
        /\ Touched(p.cmd, r.path) = Prefixes(r.path)
    BY <2>3 DEF Checked, ChannelScope, Touched, Broadcast
  <2> HIDE DEF r, f
  <2>6. ASSUME NEW b \in Banks
        PROVE  /\ CycleAt(f, b, b, "ACT", "PRE")
               /\ Rests(d, f, b) \/ Opens(d, f, b) \/ Closes(d, f, b)
               /\ b \notin ActsOn(p.cmd, r.path) => Rests(d, f, b)
    <3>1. CycleRules(b, "ACT", "PRE") /\ CycleAt(d, b, b, "ACT", "PRE") BY BankRules
    <3>2. "ACT" # "PRE" /\ "ACT" \in Opening /\ "PRE" \notin Opening BY DEF Opening
    <3>3. CASE b = r.path /\ p.cmd \in {"ACT", "PRE"}
      <4>1. b \in Checked(p.cmd, r.path) \cap Touched(p.cmd, r.path) /\ b \in ActsOn(p.cmd, r.path)
        BY <2>4, <2>5, <3>3, BankFacts
      <4>2. \/ p.cmd = "ACT" /\ d.open[b] = {} /\ r.row \in Rows
            \/ p.cmd = "PRE" /\ d.open[b] # {}
        BY <2>1, <2>3, <3>3
      <4> QED BY <2>1, <2>2, <3>1, <3>2, <4>1, <4>2, IssueCycle
    <3>4. CASE b # r.path \/ p.cmd \notin {"ACT", "PRE"}
      <4>1. b \notin ActsOn(p.cmd, r.path) BY <2>4, <3>4
      <4>2. p.cmd \in {"ACT", "PRE"} => b \notin Touched(p.cmd, r.path)
        BY <2>1, <2>5, <3>4, OtherBank
      <4> QED BY <2>1, <2>2, <3>1, <3>2, <4>1, <4>2, IssueCycle
    <3> QED BY <3>3, <3>4
  <2>7. p.cmd \in RowCommands \/ \A b \in Banks : Rests(d, f, b)
    BY <2>3, <2>4, <2>6 DEF RowCommands, Opening
  <2> QED BY <1>2, <2>6, <2>7 DEF Cycled, f
<1> QED BY <1>1, <1>2

LEMMA AllBankCycle ==
  ASSUME AllBankTraffic, NEW d, NEW c, NEW first, NEW p, Round(d, c, first, p),
         Within(c, Asked), Lock(d), \A b \in Banks : CycleAt(d, b, <<>>, "ACTAB", "PREA")
  PROVE  /\ \A b \in Banks : CycleAt(Issue(d, p), b, <<>>, "ACTAB", "PREA")
         /\ Cycled(d, Issue(d, p), p)
<1>1. CASE ~p.found BY <1>1 DEF Issue, Cycled, Rests
<1>2. CASE p.found
  <2> DEFINE r == Chosen(p)
             f == Issue(d, p)
             n == <<>>
  <2>1. /\ r \in Asked /\ r \in Held
        /\ p.cmd = CommandOf(d, r) /\ CheckReady(d, p.cmd, r.path) /\ d \in Devices
    BY <1>2, RoundWithin, FoundHeld DEF Round
  <2>2. f = IssueCommand(d, p.cmd, r.path, r.row) BY <1>2 DEF Issue
  <2>3. n \in Prefixes(r.path)
    <3>1. CASE r \in Requests BY <2>1, <3>1, HeldFacts, BankFacts
    <3>2. CASE r \in Refreshes
      <4>1. PICK pc \in 0 .. NumPC - 1 : r.path = <<pc>> BY <3>2 DEF Refreshes, RefreshRequest
      <4>2. SubSeq(<<pc>>, 1, 0) = <<>> /\ 0 \in 0 .. Len(<<pc>>) OBVIOUS
      <4> HIDE DEF r
      <4> QED BY <4>1, <4>2 DEF Prefixes
    <3> QED BY <2>1, <3>1, <3>2 DEF Held
  <2>4. /\ CycleRules(n, "ACTAB", "PREA") /\ "ACTAB" # "PREA"
        /\ "ACTAB" \in Opening /\ "PREA" \notin Opening
    BY ChannelRules DEF Opening
  <2> HIDE DEF r, f
  <2>5. CASE /\ p.cmd = "ACTAB" /\ \A b \in Banks : d.open[b] = {}
             /\ r \in Requests /\ r.row \in Rows /\ r.path \in Banks
    <3>1. n \in Checked(p.cmd, r.path) \cap Touched(p.cmd, r.path)
      BY <2>3, <2>5 DEF Checked, ChannelScope, Touched
    <3>2. ActsOn(p.cmd, r.path) = Banks BY <2>5 DEF ActsOn
    <3> HIDE DEF n
    <3>3. ASSUME NEW b \in Banks
          PROVE  /\ CycleAt(f, b, n, "ACTAB", "PREA")
                 /\ Rests(d, f, b) \/ Opens(d, f, b) \/ Closes(d, f, b)
      <4>1. CycleAt(d, b, n, "ACTAB", "PREA") BY DEF n
      <4> QED BY <2>1, <2>2, <2>4, <2>5, <3>1, <3>2, <4>1, IssueCycle
    <3> QED BY <1>2, <2>5, <3>3 DEF Cycled, f, n, RowCommands, Opening
  <2>6. CASE p.cmd = "PREA" /\ \A b \in Banks : d.open[b] # {}
    <3>1. n \in Checked(p.cmd, r.path) \cap Touched(p.cmd, r.path)
      BY <2>3, <2>6 DEF Checked, ChannelScope, Touched
    <3>2. ActsOn(p.cmd, r.path) = Banks BY <2>6 DEF ActsOn
    <3> HIDE DEF n
    <3>3. ASSUME NEW b \in Banks
          PROVE  /\ CycleAt(f, b, n, "ACTAB", "PREA")
                 /\ Rests(d, f, b) \/ Opens(d, f, b) \/ Closes(d, f, b)
      <4>1. CycleAt(d, b, n, "ACTAB", "PREA") BY DEF n
      <4> QED BY <2>1, <2>2, <2>4, <2>6, <3>1, <3>2, <4>1, IssueCycle
    <3> QED BY <1>2, <2>6, <3>3 DEF Cycled, f, n, RowCommands
  <2>7. CASE /\ p.cmd \in {"MACAB", "REFab", "SETM", "SETH", "BARRIER"} \cup Moves
             /\ ActsOn(p.cmd, r.path) = {}
    <3>1. p.cmd \notin {"ACTAB", "PREA"} BY <2>7 DEF Moves
    <3> HIDE DEF n
    <3>2. ASSUME NEW b \in Banks
          PROVE  CycleAt(f, b, n, "ACTAB", "PREA") /\ Rests(d, f, b)
      <4>1. CycleAt(d, b, n, "ACTAB", "PREA") BY DEF n
      <4> QED BY <2>1, <2>2, <2>4, <2>7, <3>1, <4>1, IssueCycle
    <3> QED BY <3>2 DEF Cycled, f, n
  <2> QED BY <2>1, <2>5, <2>6, <2>7, AllBankCommand
<1> QED BY <1>1, <1>2

LEMMA RoundCycling ==
  ASSUME NEW d, NEW c, NEW first, NEW p, Round(d, c, first, p), Within(c, Asked),
         Cycling(d)
  PROVE  Cycling(Issue(d, p)) /\ Cycled(d, Issue(d, p), p)
<1>1. CASE MemoryTraffic /\ \A b \in Banks : CycleAt(d, b, b, "ACT", "PRE")
  <2>1. /\ \A b \in Banks : CycleAt(Issue(d, p), b, b, "ACT", "PRE")
        /\ Cycled(d, Issue(d, p), p)
    BY <1>1, MemoryCycle
  <2> QED BY <1>1, <2>1 DEF Cycling
<1>2. CASE /\ AllBankTraffic /\ Lock(d)
           /\ \A b \in Banks : CycleAt(d, b, <<>>, "ACTAB", "PREA")
  <2>1. /\ \A b \in Banks : CycleAt(Issue(d, p), b, <<>>, "ACTAB", "PREA")
        /\ Cycled(d, Issue(d, p), p)
    BY <1>2, AllBankCycle
  <2>2. Lock(Issue(d, p)) BY <1>2, RoundLock
  <2> QED BY <1>2, <2>1, <2>2 DEF Cycling
<1> QED BY <1>1, <1>2 DEF Cycling

LEMMA TickCycling ==
  ASSUME NEW d \in Devices, Cycling(d)
  PROVE  Cycling(TickDevice(d))
<1>1. CASE MemoryTraffic /\ \A b \in Banks : CycleAt(d, b, b, "ACT", "PRE")
  <2>1. \A b \in Banks : CycleAt(TickDevice(d), b, b, "ACT", "PRE")
    BY <1>1, BankRules, TickCycle
  <2> QED BY <1>1, <2>1 DEF Cycling
<1>2. CASE /\ AllBankTraffic /\ Lock(d)
           /\ \A b \in Banks : CycleAt(d, b, <<>>, "ACTAB", "PREA")
  <2>1. \A b \in Banks : CycleAt(TickDevice(d), b, <<>>, "ACTAB", "PREA")
    BY <1>2, ChannelRules, TickCycle
  <2>2. \A b \in Banks : TickDevice(d).open[b] = d.open[b] BY DEF TickDevice
  <2>3. Lock(TickDevice(d))
    BY <1>2, <2>2 DEF Lock
  <2> QED BY <1>2, <2>1, <2>3 DEF Cycling
<1> QED BY <1>1, <1>2 DEF Cycling

\* Two row commands never go together.
LEMMA OneRowCommand ==
  ASSUME NEW d, NEW c, NEW p, NEW e, NEW f, NEW q, NEW first \in FirstCommands(p),
         Round(d, c, "any", p), Round(e, f, first, q),
         p.found, p.cmd \in RowCommands, q.found
  PROVE  q.cmd \notin RowCommands
<1>1. Differs(first, q.cmd) BY DEF Round, FromQueues
<1>2. first \in {p.cmd, "none"} BY DEF FirstCommands
<1>3. RowCommands \cap ColCommands = {} /\ "none" \notin RowCommands \cup ColCommands
      /\ "any" \notin RowCommands
  BY DEF RowCommands, ColCommands, Opening, Access, Moves
<1> QED BY <1>1, <1>2, <1>3 DEF Differs

\* What the two rounds together do to a bank is what one of them does.
LEMMA RoundsCycle ==
  ASSUME NEW d, NEW c, NEW d2, NEW c2, Rounds(d, c, d2, c2), Within(c, Asked),
         Cycling(d)
  PROVE  /\ Cycling(d2)
         /\ \A b \in Banks : Rests(d, d2, b) \/ Opens(d, d2, b) \/ Closes(d, d2, b)
<1>1. PICK p, q, first :
        /\ Round(d, c, "any", p) /\ first \in FirstCommands(p)
        /\ Round(Issue(d, p), AfterIssue(p), first, q)
        /\ d2 = Issue(Issue(d, p), q) /\ c2 = AfterIssue(q)
  BY DEF Rounds
<1> DEFINE e == Issue(d, p)
<1>2. Cycling(e) /\ Cycled(d, e, p) BY <1>1, RoundCycling
<1>3. Within(AfterIssue(p), Asked) BY <1>1, RoundWithin
<1>4. Cycling(d2) /\ Cycled(e, d2, q) BY <1>1, <1>2, <1>3, RoundCycling
<1> HIDE DEF e
<1>5. CASE p.found /\ p.cmd \in RowCommands
  <2>1. \A b \in Banks : Rests(e, d2, b)
    BY <1>1, <1>4, <1>5, OneRowCommand DEF Cycled
  <2> QED BY <1>2, <1>4, <2>1 DEF Cycled, Rests, Opens, Closes
<1>6. CASE \A b \in Banks : Rests(d, e, b)
  BY <1>4, <1>6 DEF Cycled, Rests, Opens, Closes
<1> QED BY <1>2, <1>5, <1>6 DEF Cycled

CycleInv == AskedInv /\ Cycling(dev)

LEMMA InitCycleInv ==
  ASSUME MemoryTraffic \/ AllBankTraffic
  PROVE  Init => CycleInv
<1> SUFFICES ASSUME Init PROVE CycleInv
  OBVIOUS
<1>1. /\ \A b \in Banks : dev.open[b] = {} /\ dev.age[b] = Idle
  BY DEF Init, InitDevice
<1>2. ASSUME NEW n, NEW act, NEW pre, CycleRules(n, act, pre), NEW b \in Banks
      PROVE  CycleAt(dev, b, n, act, pre)
  <2>1. T.nRP \in Int /\ T.nRP <= Idle /\ Idle \in Nat BY <1>2, CycleClocks
  <2> QED BY <1>1, <2>1 DEF CycleAt
<1>3. Lock(dev) BY <1>1 DEF Lock
<1>4. Cycling(dev)
  <2>1. CASE MemoryTraffic
    <3>1. \A b \in Banks : CycleAt(dev, b, b, "ACT", "PRE") BY <1>2, BankRules
    <3> QED BY <2>1, <3>1 DEF Cycling
  <2>2. CASE AllBankTraffic
    <3>1. \A b \in Banks : CycleAt(dev, b, <<>>, "ACTAB", "PREA") BY <1>2, ChannelRules
    <3> QED BY <1>3, <2>2, <3>1 DEF Cycling
  <2> QED BY <2>1, <2>2
<1> QED BY <1>4, InitAsked DEF CycleInv

\* Every step is a cycle of the protocol, or leaves the banks alone.
LEMMA NextCycleInv ==
  ASSUME CycleInv, [Next]_vars
  PROVE  CycleInv' /\ [Protocol!Next]_(Protocol!vars)
<1>1. AskedInv' BY NextAsked DEF CycleInv
<1>2. CASE UNCHANGED vars
  <2>1. dev' = dev BY <1>2 DEF vars
  <2> QED BY <1>1, <2>1 DEF CycleInv, Cycling, Protocol!vars, CycleAt, Lock
<1>3. CASE Tick
  <2> DEFINE d == TickDevice(dev)
             c == Ticked(ctl)
  <2>1. /\ dev \in Devices /\ d \in Devices /\ Good(c) /\ Good(ctl)
        /\ Throw(d, c) \/ Rounds(d, c, dev', ctl')
    BY <1>3, TickRounds DEF CycleInv, AskedInv, IInv, TypeOK
  <2>2. Within(c, Asked) BY <2>1, TickedWithin, RefreshesAsked DEF CycleInv, AskedInv
  <2>3. Cycling(d) BY <2>1, TickCycling DEF CycleInv
  <2>4. \A b \in Banks : d.open[b] = dev.open[b] /\ d.age[b] = AgeBank(dev.age[b])
    BY <2>1 DEF TickDevice, Devices
  <2> HIDE DEF d, c
  <2>5. /\ Cycling(dev')
        /\ \A b \in Banks : Rests(d, dev', b) \/ Opens(d, dev', b) \/ Closes(d, dev', b)
    <3>1. CASE Throw(d, c)
      <4>1. dev' = d BY <3>1 DEF Throw
      <4> QED BY <2>3, <4>1 DEF Rests
    <3>2. CASE Rounds(d, c, dev', ctl') BY <2>2, <2>3, <3>2, RoundsCycle
    <3> QED BY <2>1, <3>1, <3>2
  <2>6. ASSUME NEW b \in Banks
        PROVE  Protocol!Rest(b) \/ Protocol!Activate(b) \/ Protocol!Precharge(b)
    <3>1. d.age[b] = Protocol!Older(b) /\ d.open[b] = dev.open[b]
      BY <2>4 DEF AgeBank, Protocol!Older
    <3>2. Rests(d, dev', b) => Protocol!Rest(b) BY <3>1 DEF Rests, Protocol!Rest
    <3>3. Opens(d, dev', b) => Protocol!Activate(b) BY <3>1 DEF Opens, Protocol!Activate
    <3>4. Closes(d, dev', b) => Protocol!Precharge(b) BY <3>1 DEF Closes, Protocol!Precharge
    <3> QED BY <2>5, <3>2, <3>3, <3>4
  <2>7. Protocol!Next BY <2>6 DEF Protocol!Next
  <2> QED BY <1>1, <2>5, <2>7 DEF CycleInv
<1>4. ASSUME NEW m \in Menu, Send(m) PROVE CycleInv' /\ UNCHANGED Protocol!vars
  <2>1. dev' = dev BY <1>4 DEF Send
  <2> QED BY <1>1, <2>1 DEF CycleInv, Cycling, Protocol!vars, CycleAt, Lock
<1> QED BY <1>2, <1>3, <1>4 DEF Next

\* RowCyclesKept: the controller implements the row cycle of BankProtocol bank
\* by bank: whatever the two rounds of a tick pick, a bank opens one row nRP or
\* more cycles after it closed and closes nRAS or more cycles after it opened.
\* Where an ACT of one bank meets a PREA it does not: the table puts the nRAS
\* between them on the pseudo channel, and PREA is looked up at the channel.
THEOREM RowCyclesKept ==
  ASSUME MemoryTraffic \/ AllBankTraffic
  PROVE  Spec => RowCycle
<1>1. Init => Protocol!Init
  BY DEF Init, InitDevice, Protocol!Init
<1>2. CycleInv /\ [Next]_vars => CycleInv' /\ [Protocol!Next]_(Protocol!vars)
  BY NextCycleInv
<1> QED BY <1>1, <1>2, InitCycleInv, PTL DEF Spec, RowCycle, Protocol!Spec

\* BanksInStep: with all-bank MACs and the requests that move data, the banks
\* of the channel open, close and refresh together, one row at a time, even
\* when a refresh closes them between the activation and the MAC.
THEOREM BanksInStep == ASSUME AllBankTraffic PROVE Spec => []LockStep
<1> DEFINE LockInv == AskedInv /\ Lock(dev)
<1>1. Init => LockInv BY InitAsked DEF Init, InitDevice, Lock
<1>2. LockInv /\ [Next]_vars => LockInv'
  <2> SUFFICES ASSUME LockInv, [Next]_vars PROVE LockInv'
    OBVIOUS
  <2>1. AskedInv' BY NextAsked
  <2>2. CASE UNCHANGED vars BY <2>1, <2>2 DEF vars, Lock
  <2>3. CASE Tick
    <3> DEFINE d == TickDevice(dev)
               c == Ticked(ctl)
    <3>1. /\ Good(ctl)
          /\ Throw(d, c) \/ Rounds(d, c, dev', ctl')
      BY <2>3, TickRounds DEF AskedInv
    <3>2. Within(c, Asked) BY <3>1, TickedWithin, RefreshesAsked DEF AskedInv
    <3>3. Lock(d) BY DEF Lock, TickDevice
    <3> HIDE DEF d, c
    <3>4. CASE Throw(d, c) BY <2>1, <3>3, <3>4 DEF Throw, Lock
    <3>5. ASSUME Rounds(d, c, dev', ctl') PROVE Lock(dev')
      <4>1. PICK p, q, first :
              /\ Round(d, c, "any", p) /\ Round(Issue(d, p), AfterIssue(p), first, q)
              /\ dev' = Issue(Issue(d, p), q)
        BY <3>5 DEF Rounds
      <4>2. Lock(Issue(d, p)) /\ Within(AfterIssue(p), Asked)
        BY <3>2, <3>3, <4>1, RoundLock, RoundWithin
      <4> QED BY <4>1, <4>2, RoundLock
    <3> QED BY <2>1, <3>1, <3>4, <3>5 DEF Lock
  <2>4. ASSUME NEW m \in Menu, Send(m) PROVE Lock(dev')
    BY <2>4 DEF Send, Lock
  <2> QED BY <2>1, <2>2, <2>3, <2>4 DEF Next, Lock
<1>3. LockInv => LockStep
  <2>1. Cardinality({}) = 0 /\ \A row : Cardinality({row}) = 1
    BY FS_EmptySet, FS_Singleton
  <2>2. 0 <= 1 /\ 1 <= 1 OBVIOUS
  <2>3. CASE \A b \in Banks : dev.open[b] = {} BY <2>1, <2>2, <2>3 DEF LockStep
  <2>4. CASE \E row \in Rows : \A b \in Banks : dev.open[b] = {row}
    BY <2>1, <2>2, <2>4 DEF LockStep
  <2> QED BY <2>3, <2>4 DEF Lock
<1> QED BY <1>1, <1>2, <1>3, PTL DEF Spec

----------------------------------------------------------------------------
(* The pass of get_best_request.                                           *)

\* What the pass has after looking at a view, from what it had before.
Better(views, hits, best, i) ==
  LET barrier == best.barrier \/ views[i].barrier
      wins    == ~Compare(hits, views[best.at], views[i])
  IN  [at |-> IF (~barrier \/ views[i].moves) /\ wins THEN i ELSE best.at,
       barrier |-> barrier]

\* A function that is a pass over the first n views.
IsPass(f, views, hits, n) ==
  \A i \in 1 .. n :
    f[i] = IF i = 1 THEN [at |-> 1, barrier |-> FALSE]
           ELSE Better(views, hits, f[i-1], i)

LEMMA PassExists ==
  ASSUME NEW views, NEW hits, NEW n \in Nat
  PROVE  \E f : f = [i \in 1 .. n |-> f[i]] /\ IsPass(f, views, hits, n)
<1> DEFINE P(m) == \E f : f = [i \in 1 .. m |-> f[i]] /\ IsPass(f, views, hits, m)
           S == { m \in Nat : P(m) }
<1>1. 0 \in S
  <2>1. P(0)
    <3> DEFINE f == [i \in 1 .. 0 |-> 0]
    <3>1. f = [i \in 1 .. 0 |-> f[i]] OBVIOUS
    <3>2. IsPass(f, views, hits, 0) BY DEF IsPass
    <3> HIDE DEF f
    <3> QED BY <3>1, <3>2
  <2> QED BY <2>1
<1>2. ASSUME NEW m \in Nat, P(m) PROVE P(m + 1)
  <2>1. PICK f : f = [i \in 1 .. m |-> f[i]] /\ IsPass(f, views, hits, m)
    BY <1>2
  <2> DEFINE last == IF m = 0 THEN [at |-> 1, barrier |-> FALSE]
                     ELSE Better(views, hits, f[m], m + 1)
             g == [i \in 1 .. m + 1 |-> IF i <= m THEN f[i] ELSE last]
  <2>2. \A i \in 1 .. m + 1 : g[i] = IF i <= m THEN f[i] ELSE last OBVIOUS
  <2>3. g = [i \in 1 .. m + 1 |-> g[i]] OBVIOUS
  <2> HIDE DEF g
  <2>4. ASSUME NEW i \in 1 .. m + 1
        PROVE  g[i] = IF i = 1 THEN [at |-> 1, barrier |-> FALSE]
                      ELSE Better(views, hits, g[i-1], i)
    <3>1. CASE i \in 1 .. m
      <4>1. g[i] = f[i] /\ (i # 1 => i - 1 \in 1 .. m /\ g[i-1] = f[i-1])
        BY <2>2, <3>1
      <4>2. f[i] = IF i = 1 THEN [at |-> 1, barrier |-> FALSE]
                   ELSE Better(views, hits, f[i-1], i)
        BY <2>1, <3>1 DEF IsPass
      <4> QED BY <4>1, <4>2
    <3>2. CASE i = m + 1
      <4>1. g[i] = last /\ (i = 1 <=> m = 0) BY <2>2, <3>2
      <4>2. i # 1 => i - 1 = m /\ g[i-1] = f[m] BY <2>2, <3>2
      <4> QED BY <3>2, <4>1, <4>2
    <3> QED BY <3>1, <3>2
  <2>5. IsPass(g, views, hits, m + 1) BY <2>4 DEF IsPass
  <2> QED BY <2>3, <2>5
<1>3. \A m \in Nat : m \in S => m + 1 \in S BY <1>2
<1> HIDE DEF S
<1>4. Nat \subseteq S BY <1>1, <1>3, NatSetInduction
<1> QED BY <1>4 DEF S

\* Best is what such a pass ends with.
LEMMA BestIsPass ==
  ASSUME NEW S, NEW views \in Seq(S), NEW hits
  PROVE  \E f : /\ IsPass(f, views, hits, Len(views))
                /\ Best(views, hits) = { i \in DOMAIN views : i = f[Len(views)].at }
<1> DEFINE body(f, i) == IF i = 1 THEN [at |-> 1, barrier |-> FALSE]
                         ELSE Better(views, hits, f[i-1], i)
           scan == CHOOSE f : f = [i \in DOMAIN views |-> body(f, i)]
<1>1. DOMAIN views = 1 .. Len(views) /\ Len(views) \in Nat OBVIOUS
<1>2. PICK g : g = [i \in 1 .. Len(views) |-> g[i]] /\ IsPass(g, views, hits, Len(views))
  BY <1>1, PassExists
<1>3. g = [i \in DOMAIN views |-> body(g, i)] BY <1>1, <1>2 DEF IsPass
<1>4. scan = [i \in DOMAIN views |-> body(scan, i)] BY <1>3, Zenon
<1>5. Best(views, hits) = { i \in DOMAIN views : i = scan[Len(views)].at }
  BY Zenon DEF Best, Better
<1> HIDE DEF scan
<1>6. IsPass(scan, views, hits, Len(views)) BY <1>1, <1>4 DEF IsPass
<1> QED BY <1>5, <1>6

\* Views in order of arrival.
InOrder(views) ==
  /\ \A i \in 1 .. Len(views) :
       /\ views[i].ready \in BOOLEAN /\ views[i].hit \in BOOLEAN
       /\ views[i].barrier \in BOOLEAN /\ views[i].moves \in BOOLEAN
  /\ \A i, j \in 1 .. Len(views) : i < j => views[i].arrive <= views[j].arrive

\* Of two views the pass has in order of arrival the second one wins only if
\* it is ready, the first is not, and it takes nobody's row.
LEMMA WinsRule ==
  ASSUME NEW S, NEW views \in Seq(S), InOrder(views),
         NEW i \in 1 .. Len(views), NEW j \in 1 .. Len(views), i < j
  PROVE  ~Compare(HitBanks(views), views[i], views[j])
           <=> views[j].ready /\ ~views[i].ready /\ ~Steals(views, j)
<1> DEFINE hits == HitBanks(views)
           v1 == views[i]
           v2 == views[j]
<1>1. /\ v1.ready \in BOOLEAN /\ v2.ready \in BOOLEAN /\ v2.hit \in BOOLEAN
      /\ v1.arrive <= v2.arrive
  BY DEF InOrder
<1>2. Steals(views, j) <=> ~v2.hit /\ v2.path \in hits
  BY DEF Steals, HitBanks
<1>3. Compare(hits, v1, v2) <=>
        IF v1.ready # v2.ready THEN v1.ready \/ (~v2.hit /\ v2.path \in hits)
        ELSE v1.arrive <= v2.arrive
  BY DEF Compare
<1> HIDE DEF hits, v1, v2
<1>4. CASE v1.ready = v2.ready BY <1>1, <1>3, <1>4 DEF hits, v1, v2
<1>5. CASE v1.ready # v2.ready
  <2>1. Compare(hits, v1, v2) <=> v1.ready \/ Steals(views, j) BY <1>2, <1>3, <1>5
  <2>2. v1.ready <=> ~v2.ready BY <1>1, <1>5
  <2> QED BY <2>1, <2>2 DEF hits, v1, v2
<1> QED BY <1>4, <1>5

\* What the pass has found after i views.
FoundBy(views, best, i) ==
  /\ best.at \in 1 .. i
  /\ best.barrier <=> \E j \in 2 .. i : views[j].barrier
  /\ \A e \in Eligible(views) : e <= i => best.at \in Eligible(views) /\ best.at <= e
  /\ best.at = 1 \/ best.at \in Eligible(views)

LEMMA PassFinds ==
  ASSUME NEW S, NEW views \in Seq(S), InOrder(views),
         NEW f, IsPass(f, views, HitBanks(views), Len(views))
  PROVE  \A i \in 1 .. Len(views) : FoundBy(views, f[i], i)
<1> DEFINE n == Len(views)
           hits == HitBanks(views)
           Done == { m \in Nat : m \in 1 .. n => FoundBy(views, f[m], m) }
<1>1. n \in Nat /\ DOMAIN views = 1 .. n OBVIOUS
<1>2. 0 \in Done OBVIOUS
<1>3. ASSUME NEW m \in Nat, m \in Done PROVE m + 1 \in Done
  <2> DEFINE k == m + 1
  <2> SUFFICES ASSUME k \in 1 .. n PROVE FoundBy(views, f[k], k)
    BY <1>3
  <2>1. CASE m = 0
    <3>1. f[k] = [at |-> 1, barrier |-> FALSE] /\ k = 1 BY <2>1 DEF IsPass
    <3>2. \A e \in Eligible(views) : e <= 1 => e = 1 BY <1>1 DEF Eligible
    <3> QED BY <3>1, <3>2 DEF FoundBy
  <2>2. CASE m # 0
    <3> DEFINE best == f[m]
               a == best.at
    <3>1. m \in 1 .. n /\ FoundBy(views, best, m) /\ k # 1 /\ k - 1 = m
      BY <1>1, <1>3, <2>2
    <3>2. f[k] = Better(views, hits, best, k)
      BY <3>1 DEF IsPass
    <3>3. a \in 1 .. m /\ a < k /\ a \in 1 .. n BY <1>1, <3>1 DEF FoundBy
    <3>4. ~Compare(hits, views[a], views[k])
            <=> views[k].ready /\ ~views[a].ready /\ ~Steals(views, k)
      BY <3>3, WinsRule
    <3> DEFINE barrier == best.barrier \/ views[k].barrier
    <3>5. /\ f[k].at = IF (~barrier \/ views[k].moves) /\ ~Compare(hits, views[a], views[k])
                         THEN k ELSE a
          /\ f[k].barrier = barrier
      BY <3>2 DEF Better
    <3> HIDE DEF best, a, k, barrier, hits, n
    <3>6. barrier <=> \E j \in 2 .. k : views[j].barrier
      <4>1. best.barrier <=> \E j \in 2 .. m : views[j].barrier BY <3>1 DEF FoundBy
      <4>2. \A j \in 2 .. k : j \in 2 .. m \/ j = k BY <3>1 DEF k
      <4>3. k \in 2 .. k /\ \A j \in 2 .. m : j \in 2 .. k BY <3>1 DEF k
      <4> QED BY <4>1, <4>2, <4>3 DEF barrier
    <3>7. Competes(views, k) <=> ~barrier \/ views[k].moves
      BY <3>6 DEF Competes
    <3>8. k \in Eligible(views) <=>
            views[k].ready /\ (~barrier \/ views[k].moves) /\ ~Steals(views, k)
      BY <1>1, <3>1, <3>7 DEF Eligible, n, k
    <3>9. a \in Eligible(views) => views[a].ready BY DEF Eligible
    <3>10. a = 1 => (a \in Eligible(views) <=> views[a].ready)
      BY <1>1, <3>3 DEF Eligible
    <3>11. \A e \in Eligible(views) : e \in Nat /\ (e <= k => e <= m \/ e = k)
      BY <1>1 DEF Eligible, k
    <3>12. CASE a \in Eligible(views)
      <4>1. f[k].at = a BY <3>4, <3>5, <3>9, <3>12
      <4>2. \A e \in Eligible(views) : e <= k => a <= e
        BY <3>1, <3>3, <3>11 DEF FoundBy, a
      <4>3. a \in 1 .. k BY <3>3 DEF k
      <4> QED BY <3>5, <3>6, <3>12, <4>1, <4>2, <4>3 DEF FoundBy
    <3>13. CASE a \notin Eligible(views)
      <4>1. a = 1 /\ \A e \in Eligible(views) : ~(e <= m)
        BY <3>1, <3>13 DEF FoundBy, a
      <4>2. ~views[a].ready BY <3>10, <3>13, <4>1
      <4>3. f[k].at = IF k \in Eligible(views) THEN k ELSE 1
        BY <3>4, <3>5, <3>8, <4>1, <4>2
      <4>4. \A e \in Eligible(views) : e <= k => e = k BY <3>11, <4>1
      <4>5. k \in 1 .. k /\ 1 \in 1 .. k /\ k <= k BY <3>1 DEF k
      <4> QED BY <3>5, <3>6, <4>3, <4>4, <4>5 DEF FoundBy
    <3> QED BY <3>12, <3>13 DEF k
  <2> QED BY <2>1, <2>2
<1> HIDE DEF Done
<1>4. \A m \in Nat : m \in Done => m + 1 \in Done BY <1>3
<1>5. Nat \subseteq Done BY <1>2, <1>4, NatSetInduction
<1> QED BY <1>1, <1>5 DEF Done

\* The rule, for a buffer of any length.
LEMMA FirstReadyRule ==
  ASSUME NEW S, NEW views \in Seq(S), InOrder(views)
  PROVE  FirstReady(views)
<1> SUFFICES ASSUME views # <<>>
             PROVE  BestOf(views) =
                      { IF Eligible(views) = {} THEN 1 ELSE Min(Eligible(views)) }
  BY DEF FirstReady
<1> DEFINE n == Len(views)
<1>1. n \in Nat /\ n \in 1 .. n /\ DOMAIN views = 1 .. n
  <2>1. n # 0 BY EmptySeq
  <2> QED BY <2>1
<1>2. PICK f : /\ IsPass(f, views, HitBanks(views), n)
               /\ BestOf(views) = { i \in DOMAIN views : i = f[n].at }
  BY BestIsPass DEF BestOf
<1>3. FoundBy(views, f[n], n) BY <1>1, <1>2, PassFinds
<1>4. \A e \in Eligible(views) : e \in 1 .. n /\ e <= n BY <1>1 DEF Eligible
<1> HIDE DEF n
<1>5. BestOf(views) = {f[n].at} BY <1>1, <1>2, <1>3 DEF FoundBy
<1>6. CASE Eligible(views) = {} BY <1>3, <1>5, <1>6 DEF FoundBy
<1>7. CASE Eligible(views) # {}
  <2>1. f[n].at \in Eligible(views) /\ \A e \in Eligible(views) : f[n].at <= e
    BY <1>3, <1>4, <1>7 DEF FoundBy
  <2>2. Min(Eligible(views)) = f[n].at BY <1>4, <2>1 DEF Min
  <2> QED BY <1>5, <1>7, <2>2
<1> QED BY <1>6, <1>7

----------------------------------------------------------------------------
(* The read, write and PIM buffers stay in order of arrival.               *)

Lines == {"read", "write", "pim"}

\* The requests of s came one after the other, the last no later than n and
\* none after cycle t.
InLine(s, n, t) ==
  /\ \A i \in 1 .. Len(s) :
       /\ s[i].id \in Nat /\ s[i].arrive \in Nat
       /\ s[i].id <= n /\ s[i].arrive <= n /\ (t # 0 => s[i].arrive <= t)
  /\ \A i, j \in 1 .. Len(s) :
       i < j => s[i].id < s[j].id /\ s[i].arrive <= s[j].arrive

Arrived(c) == /\ c.stamp <= c.sent
              /\ \A b \in Lines : InLine(c.buf[b], c.sent, c.stamp)

LEMMA LinesFacts == Lines \subseteq Buffers /\ Lines \subseteq QueueBuffers
                    /\ "active" \notin Lines /\ "priority" \notin Lines
BY DEF Lines, Buffers, QueueBuffers

LEMMA HeldNumbers ==
  ASSUME NEW r \in Held
  PROVE  r.id \in Nat /\ r.arrive \in Nat
BY DEF Held, Requests, Refreshes, RefreshRequest

LEMMA RemovedInLine ==
  ASSUME NEW s \in Seq(Held), NEW k \in 1 .. Len(s), NEW n, NEW t, InLine(s, n, t)
  PROVE  InLine(RemoveAt(s, k), n, t)
<1> DEFINE u == RemoveAt(s, k)
           at(i) == IF i < k THEN i ELSE i + 1
<1>0. Len(s) \in Nat OBVIOUS
<1>1. /\ Len(u) = Len(s) - 1
      /\ \A i \in 1 .. Len(s) - 1 : u[i] = IF i < k THEN s[i] ELSE s[i + 1]
  BY RemoveAtFacts
<1> HIDE DEF u
<1>2. \A i \in 1 .. Len(u) : u[i] = s[at(i)] /\ at(i) \in 1 .. Len(s) BY <1>0, <1>1
<1>3. \A i, j \in 1 .. Len(u) : i < j => at(i) < at(j) BY <1>0, <1>1
<1> HIDE DEF at
<1>4. InLine(u, n, t) BY <1>2, <1>3 DEF InLine
<1> QED BY <1>4 DEF u

LEMMA DroppedInLine ==
  ASSUME NEW s \in Seq(Held), NEW n, NEW t, InLine(s, n, t)
  PROVE  InLine(DropBarrier(s), n, t)
<1>1. CASE s # <<>>
  <2> DEFINE u == Tail(s)
  <2>1. /\ Len(u) = Len(s) - 1 /\ Len(s) \in Nat
        /\ \A i \in 1 .. Len(s) - 1 : u[i] = s[i + 1]
    BY <1>1, TailFacts
  <2> HIDE DEF u
  <2>2. \A i \in 1 .. Len(u) : u[i] = s[i + 1] /\ i + 1 \in 1 .. Len(s) BY <2>1
  <2>3. \A i, j \in 1 .. Len(u) : i < j => i + 1 < j + 1 BY <2>1
  <2>4. InLine(u, n, t) BY <2>2, <2>3 DEF InLine
  <2> QED BY <2>4 DEF DropBarrier, u
<1>2. CASE s = <<>> BY <1>2 DEF DropBarrier
<1> QED BY <1>1, <1>2

LEMMA AppendedInLine ==
  ASSUME NEW s \in Seq(Held), NEW n \in Nat, NEW t \in Nat, t <= n, InLine(s, n, t),
         NEW r \in Held, r.id = n + 1, r.arrive = IF t = 0 THEN n + 1 ELSE t
  PROVE  InLine(Append(s, r), n + 1, r.arrive)
<1> DEFINE u == Append(s, r)
<1>1. /\ Len(u) = Len(s) + 1 /\ Len(s) \in Nat /\ u[Len(s) + 1] = r
      /\ \A i \in 1 .. Len(s) : u[i] = s[i]
  OBVIOUS
<1> HIDE DEF u
<1>2. \A i \in 1 .. Len(s) :
        /\ u[i] = s[i] /\ u[i].id \in Nat /\ u[i].arrive \in Nat
        /\ u[i].id <= n /\ u[i].arrive <= r.arrive /\ u[i].arrive <= n
  BY <1>1 DEF InLine
<1>3. \A i \in 1 .. Len(u) : i \in 1 .. Len(s) \/ i = Len(s) + 1 BY <1>1
<1>4. r.id \in Nat /\ r.arrive \in Nat /\ r.arrive <= n + 1 BY HeldNumbers
<1>5. ASSUME NEW i \in 1 .. Len(u)
      PROVE  /\ u[i].id \in Nat /\ u[i].arrive \in Nat
             /\ u[i].id <= n + 1 /\ u[i].arrive <= n + 1 /\ u[i].arrive <= r.arrive
  <2>1. CASE i \in 1 .. Len(s) BY <1>2, <2>1
  <2>2. CASE i = Len(s) + 1 BY <1>1, <1>4, <2>2
  <2> QED BY <1>3, <2>1, <2>2
<1>6. ASSUME NEW i \in 1 .. Len(u), NEW j \in 1 .. Len(u), i < j
      PROVE  u[i].id < u[j].id /\ u[i].arrive <= u[j].arrive
  <2>1. i \in 1 .. Len(s) BY <1>1, <1>3, <1>6
  <2>2. CASE j \in 1 .. Len(s) BY <1>2, <1>6, <2>1, <2>2 DEF InLine
  <2>3. CASE j = Len(s) + 1 BY <1>1, <1>2, <2>1, <2>3
  <2> QED BY <1>3, <2>2, <2>3
<1>7. InLine(u, n + 1, r.arrive) BY <1>5, <1>6 DEF InLine
<1> QED BY <1>7 DEF u

\* Without new requests: each line is what it was, or lost one request.
LEMMA SameArrived ==
  ASSUME NEW c, Good(c), Arrived(c), NEW e, e.sent = c.sent,
         e.stamp = c.stamp \/ e.stamp = 0,
         \A b \in Lines : \/ e.buf[b] = c.buf[b]
                          \/ e.buf[b] = DropBarrier(c.buf[b])
                          \/ \E k \in 1 .. Len(c.buf[b]) : e.buf[b] = RemoveAt(c.buf[b], k)
  PROVE  Arrived(e)
<1>1. c.sent \in Nat /\ e.stamp <= e.sent BY DEF Good, Controllers, Arrived
<1>2. ASSUME NEW b \in Lines PROVE InLine(e.buf[b], c.sent, c.stamp)
  <2>1. c.buf[b] \in Seq(Held) /\ InLine(c.buf[b], c.sent, c.stamp)
    BY GoodBuffer, LinesFacts DEF Arrived
  <2> QED BY <2>1, RemovedInLine, DroppedInLine
<1>3. \A b \in Lines : InLine(e.buf[b], e.sent, e.stamp)
  BY <1>2 DEF InLine
<1> QED BY <1>1, <1>3 DEF Arrived

LEMMA TickedArrived ==
  ASSUME NEW c, Good(c), Arrived(c)
  PROVE  Arrived(Ticked(c))
<1> DEFINE c1 == TickClock(c)
           c2 == ServeCompletedReads(c1)
           c3 == RefreshTick(c2)
<1>1. Good(c1) /\ Good(c2) BY TickClockGood, ServeGood
<1>2. c1.buf = c.buf /\ c1.sent = c.sent /\ c1.stamp = 0 BY TickClockFields
<1>3. c2.buf = c1.buf /\ c2.sent = c1.sent /\ c2.stamp = c1.stamp BY <1>1, ServeFields
<1>4. c3.sent = c2.sent /\ c3.stamp = c2.stamp BY <1>1, RefreshTickFields
<1>5. \A b \in Lines : c3.buf[b] = c2.buf[b]
  <2>1. \/ c3.buf = c2.buf
        \/ c3.buf = [c2.buf EXCEPT !["priority"] = @ \o Burst]
    BY <1>1, RefreshTickFields
  <2>2. c2.buf \in [Buffers -> Seq(Held)] BY <1>1 DEF Good, Controllers, Held
  <2> HIDE DEF c3, c2
  <2> QED BY <2>1, <2>2, LinesFacts
<1>6. Ticked(c) = c3 BY DEF Ticked
<1> HIDE DEF c1, c2, c3
<1> QED BY <1>2, <1>3, <1>4, <1>5, <1>6, SameArrived

LEMMA RoundArrived ==
  ASSUME NEW d, NEW c, NEW first, NEW p, Round(d, c, first, p), Arrived(c)
  PROVE  Arrived(p.ctl) /\ Arrived(AfterIssue(p))
<1> DEFINE e == p.ctl
           f == AfterIssue(p)
<1>1. Good(c) /\ Good(e) /\ SameQueues(c, e) /\ Sound(p) /\ p.from \in Buffers
  BY DEF Round, FromQueues, Sound
<1>2. Arrived(e)
  <2>1. e.sent = c.sent /\ e.stamp = c.stamp BY <1>1 DEF SameQueues
  <2>2. \A b \in Lines : e.buf[b] = c.buf[b] \/ e.buf[b] = DropBarrier(c.buf[b])
    <3>1. CASE e.buf = c.buf BY <3>1
    <3>2. CASE e.buf = WithoutBarrier(c).buf
      <4>1. e.buf = [c.buf EXCEPT !["pim"] = DropBarrier(@)]
        BY <1>1, <3>2, WithoutBarrierQueues
      <4>2. c.buf \in [Buffers -> Seq(Held)] BY <1>1 DEF Good, Controllers, Held
      <4> HIDE DEF e
      <4> QED BY <4>1, <4>2, LinesFacts
    <3> QED BY <1>1, <3>1, <3>2 DEF SameQueues
  <2> HIDE DEF e
  <2> QED BY <1>1, <2>1, <2>2, SameArrived
<1>3. f.sent = e.sent /\ f.stamp = e.stamp
  BY <1>1, FinishEffect, ActivateEffect, NoEffect
<1>4. ASSUME NEW b \in Lines
      PROVE  \/ f.buf[b] = e.buf[b]
             \/ \E k \in 1 .. Len(e.buf[b]) : f.buf[b] = RemoveAt(e.buf[b], k)
  <2>1. e.buf \in [Buffers -> Seq(Held)] /\ b \in Buffers /\ b # "active"
    BY <1>1, LinesFacts DEF Good, Controllers, Held
  <2>2. p.found => p.at \in 1 .. Len(e.buf[p.from]) BY <1>1 DEF Sound
  <2>3. CASE ~Finishes(p) /\ ~Activates(p) BY <2>3, NoEffect
  <2>4. CASE Finishes(p) \/ Activates(p)
    <3>1. p.found BY <2>4 DEF Finishes, Activates
    <3>2. \/ f.buf = Taken(e.buf, p)
          \/ f.buf = Taken([e.buf EXCEPT !["active"] = Append(@, Chosen(p))], p)
      BY <1>1, <2>4, FinishEffect, ActivateEffect DEF Finished, Activated
    <3>3. f.buf[b] = IF b = p.from THEN RemoveAt(e.buf[b], p.at) ELSE e.buf[b]
      <4> HIDE DEF e, f
      <4> QED BY <2>1, <3>2 DEF Taken
    <3> QED BY <2>2, <3>1, <3>3
  <2> QED BY <2>3, <2>4
<1> HIDE DEF e, f
<1>5. Arrived(f) BY <1>1, <1>2, <1>3, <1>4, SameArrived
<1> QED BY <1>2, <1>5 DEF e, f

LEMMA AcceptedArrived ==
  ASSUME NEW c, Good(c), Arrived(c), NEW m \in Menu
  PROVE  Arrived(Accepted(c, m))
<1> DEFINE e == Accepted(c, m)
<1>1. /\ c.sent \in Nat /\ c.stamp \in Nat /\ c.stamp <= c.sent
      /\ c.buf \in [Buffers -> Seq(Held)]
  BY DEF Good, Controllers, Held, Arrived
<1>2. e.sent = c.sent + 1 BY AcceptedFields
<1>3. ASSUME NEW s, NEW t \in Nat, InLine(s, c.sent, c.stamp),
             c.stamp # 0 => t = c.stamp, c.stamp = 0 => t = c.sent + 1 \/ t = 0
      PROVE  InLine(s, e.sent, t)
  <2> HIDE DEF e
  <2>1. ASSUME NEW i \in 1 .. Len(s)
        PROVE  /\ s[i].id \in Nat /\ s[i].arrive \in Nat
               /\ s[i].id <= e.sent /\ s[i].arrive <= e.sent
               /\ t # 0 => s[i].arrive <= t
    <3>1. /\ s[i].id \in Nat /\ s[i].arrive \in Nat
          /\ s[i].id <= c.sent /\ s[i].arrive <= c.sent
          /\ c.stamp # 0 => s[i].arrive <= c.stamp
      BY <1>3 DEF InLine
    <3> QED BY <1>1, <1>2, <1>3, <3>1
  <2> QED BY <1>3, <2>1 DEF InLine
<1>4. CASE e.buf = c.buf /\ e.stamp = c.stamp
  <2>1. \A b \in Lines : InLine(e.buf[b], e.sent, e.stamp)
    BY <1>1, <1>3, <1>4 DEF Arrived
  <2>2. e.stamp <= e.sent BY <1>1, <1>2, <1>4
  <2> QED BY <2>1, <2>2 DEF Arrived
<1>5. CASE ~(e.buf = c.buf /\ e.stamp = c.stamp)
  <2>1. \E now \in Nat :
          LET b == BufferOf(m.type)
              r == [id |-> c.sent + 1, type |-> m.type, path |-> m.path,
                    row |-> m.row, col |-> m.col, arrive |-> now]
          IN  /\ e.pending = c.pending /\ e.stamp = now
              /\ now = IF c.stamp = 0 THEN c.sent + 1 ELSE c.stamp
              /\ b \in {"read", "write", "pim"} /\ m.type \in Kept(b)
              /\ r \in Requests
              /\ e.buf = [c.buf EXCEPT ![b] = Append(@, r)]
    BY <1>5, AcceptedFields
  <2> HIDE DEF e
  <2>2. PICK now \in Nat, b \in Lines, r \in Requests :
          /\ e.stamp = now /\ now = IF c.stamp = 0 THEN c.sent + 1 ELSE c.stamp
          /\ r.id = c.sent + 1 /\ r.arrive = now
          /\ e.buf = [c.buf EXCEPT ![b] = Append(@, r)]
    BY <2>1 DEF Lines
  <2>3. e.stamp <= e.sent BY <1>1, <1>2, <2>2
  <2>4. ASSUME NEW a \in Lines PROVE InLine(e.buf[a], e.sent, e.stamp)
    <3>1. a \in Buffers /\ b \in Buffers /\ r \in Held BY LinesFacts DEF Held
    <3>2. InLine(c.buf[a], c.sent, c.stamp) /\ c.buf[a] \in Seq(Held)
      BY <1>1, <3>1 DEF Arrived
    <3>3. CASE a = b
      <4>1. e.buf[a] = Append(c.buf[a], r) BY <1>1, <2>2, <3>1, <3>3
      <4>2. InLine(Append(c.buf[a], r), c.sent + 1, r.arrive)
        BY <1>1, <2>2, <3>1, <3>2, AppendedInLine
      <4> QED BY <1>2, <2>2, <4>1, <4>2
    <3>4. CASE a # b
      <4>1. e.buf[a] = c.buf[a] BY <1>1, <2>2, <3>1, <3>4
      <4> QED BY <1>1, <1>3, <2>2, <3>2, <4>1
    <3> QED BY <3>3, <3>4
  <2> QED BY <2>3, <2>4 DEF Arrived, e
<1> QED BY <1>4, <1>5

ArrivedInv == IInv /\ Arrived(ctl)

LEMMA InitArrived == Init => ArrivedInv
<1> SUFFICES ASSUME Init PROVE ArrivedInv
  OBVIOUS
<1>1. /\ ctl.sent = 0 /\ ctl.stamp = 0 /\ \A b \in Buffers : ctl.buf[b] = <<>>
  BY DEF Init, InitController
<1>2. \A b \in Lines : InLine(ctl.buf[b], ctl.sent, ctl.stamp)
  BY <1>1, LinesFacts DEF InLine
<1> QED BY <1>1, <1>2, InitIInv DEF ArrivedInv, Arrived

LEMMA NextArrived == ArrivedInv /\ [Next]_vars => ArrivedInv'
<1> SUFFICES ASSUME ArrivedInv, [Next]_vars PROVE ArrivedInv'
  OBVIOUS
<1>1. IInv' /\ Good(ctl)
  BY NextIInv DEF ArrivedInv, IInv, TypeOK, BufferKinds, Good
<1>2. CASE UNCHANGED vars BY <1>1, <1>2 DEF vars, ArrivedInv, Arrived, InLine
<1>3. ASSUME Tick PROVE Arrived(ctl')
  <2> DEFINE d == TickDevice(dev)
             c == Ticked(ctl)
  <2>1. Throw(d, c) \/ Rounds(d, c, dev', ctl') BY <1>3, TickRounds DEF ArrivedInv
  <2>2. Arrived(c) BY <1>1, TickedArrived DEF ArrivedInv
  <2> HIDE DEF d, c
  <2>3. ASSUME Rounds(d, c, dev', ctl') PROVE Arrived(ctl')
    <3>1. PICK p, q, first :
            /\ Round(d, c, "any", p) /\ Round(Issue(d, p), AfterIssue(p), first, q)
            /\ ctl' = AfterIssue(q)
      BY <2>3 DEF Rounds
    <3>2. Arrived(AfterIssue(p)) BY <2>2, <3>1, RoundArrived
    <3> QED BY <3>1, <3>2, RoundArrived
  <2> QED BY <2>1, <2>2, <2>3 DEF Throw
<1>4. ASSUME NEW m \in Menu, Send(m) PROVE Arrived(ctl')
  BY <1>1, <1>4, AcceptedArrived DEF Send, ArrivedInv
<1> QED BY <1>1, <1>2, <1>3, <1>4 DEF Next, ArrivedInv

LEMMA ViewsInOrder ==
  ASSUME NEW d, NEW s \in Seq(Held), NEW n, NEW t, InLine(s, n, t)
  PROVE  /\ Views(d, s) \in Seq({ Views(d, s)[i] : i \in 1 .. Len(s) })
         /\ Len(Views(d, s)) = Len(s) /\ InOrder(Views(d, s))
<1> DEFINE views == Views(d, s)
           S == { views[i] : i \in 1 .. Len(s) }
<1>1. DOMAIN s = 1 .. Len(s) /\ Len(s) \in Nat OBVIOUS
<1>2. views = [i \in 1 .. Len(s) |-> ViewWith(d, s[i], CommandOf(d, s[i]))]
  BY <1>1 DEF Views
<1>3. ASSUME NEW i \in 1 .. Len(s)
      PROVE  /\ views[i].ready \in BOOLEAN /\ views[i].hit \in BOOLEAN
             /\ views[i].barrier \in BOOLEAN /\ views[i].moves \in BOOLEAN
             /\ views[i].arrive = s[i].arrive
  <2> DEFINE r == s[i]
             cmd == CommandOf(d, r)
  <2>1. views[i] = ViewWith(d, r, cmd) BY <1>2
  <2> HIDE DEF views, cmd, r
  <2>2. /\ CheckReady(d, cmd, r.path) \in BOOLEAN
        /\ CheckRowbufferHit(d, cmd, r.path, r.row) \in BOOLEAN
    BY Zenon DEF CheckReady, CheckRowbufferHit
  <2>3. (r.type = "BARRIER") \in BOOLEAN /\ (cmd \in Opening \cup Closing) \in BOOLEAN
    OBVIOUS
  <2> DEFINE ready == CheckReady(d, cmd, r.path)
             hit == CheckRowbufferHit(d, cmd, r.path, r.row)
             barrier == r.type = "BARRIER"
             moves == cmd \in Opening \cup Closing
  <2>4. views[i] = [path |-> r.path, arrive |-> r.arrive, barrier |-> barrier,
                    moves |-> moves, ready |-> ready, hit |-> hit]
    BY <2>1 DEF ViewWith, View
  <2>5. ready \in BOOLEAN /\ hit \in BOOLEAN /\ barrier \in BOOLEAN /\ moves \in BOOLEAN
    BY <2>2, <2>3
  <2> HIDE DEF ready, hit, barrier, moves
  <2>6. /\ views[i].ready = ready /\ views[i].hit = hit
        /\ views[i].barrier = barrier /\ views[i].moves = moves
        /\ views[i].arrive = r.arrive
    BY <2>4
  <2> QED BY <2>5, <2>6 DEF r
<1>4. /\ views \in Seq(S) /\ Len(views) = Len(s)
  <2>1. views \in [1 .. Len(s) -> S] BY <1>2
  <2> HIDE DEF views, S
  <2> QED BY <1>1, <2>1
<1> HIDE DEF views
<1>5. InOrder(views) BY <1>3, <1>4 DEF InOrder, InLine
<1> QED BY <1>4, <1>5 DEF views, S

\* FirstReadyServed: in every reachable state the pass over each of the three
\* buffers, whatever their length, serves the head if it is ready, else the
\* first ready request that is not behind a barrier, unless it opens or closes
\* rows, and takes no open row from another.  It rests on the buffers being in
\* order of arrival at all times, though requests leave from their middle.
THEOREM FirstReadyServed == Spec => []FirstReadyWins
<1>1. ArrivedInv => FirstReadyWins
  <2> SUFFICES ASSUME ArrivedInv, NEW b \in Lines
               PROVE  FirstReady(Views(dev, DropBarrier(ctl.buf[b])))
    BY DEF FirstReadyWins, Lines
  <2> DEFINE s == DropBarrier(ctl.buf[b])
  <2>1. ctl.buf[b] \in Seq(Held) /\ InLine(ctl.buf[b], ctl.sent, ctl.stamp)
    BY GoodBuffer, LinesFacts DEF ArrivedInv, Arrived, IInv, TypeOK, BufferKinds, Good
  <2>2. s \in Seq(Held) /\ InLine(s, ctl.sent, ctl.stamp)
    BY <2>1, DroppedInLine, TailFacts DEF DropBarrier
  <2> HIDE DEF s
  <2> DEFINE views == Views(dev, s)
             S == { views[i] : i \in 1 .. Len(s) }
  <2>3. views \in Seq(S) /\ InOrder(views) BY <2>2, ViewsInOrder
  <2> HIDE DEF views, S
  <2>4. FirstReady(views) BY <2>3, FirstReadyRule
  <2> QED BY <2>4 DEF views, s
<1> QED BY <1>1, InitArrived, NextArrived, PTL DEF Spec

----------------------------------------------------------------------------
(* The requests a controller owes its front end.                           *)

\* A line holds what a front end waits for; pending holds reads.
Entry(c, b, i) ==
  IF b = "pending" THEN [id |-> c.pending[i].id, kind |-> "mem"]
  ELSE [id |-> c.buf[b][i].id, kind |-> Kind(c.buf[b][i].type)]

Owed(c, b) == { Entry(c, b, i) : i \in 1 .. Len(Line(c, b)) }

WaitingOf(c) == UNION { Owed(c, b) : b \in Places }

LEMMA WaitingIsOwed ==
  ASSUME Good(ctl)
  PROVE  Waiting = WaitingOf(ctl)
<1> DEFINE F(b) == { [id |-> r.id, kind |-> Kind(r.type)] : r \in Range(ctl.buf[b]) }
           G == { [id |-> e.id, kind |-> "mem"] : e \in Range(ctl.pending) }
<1>1. ASSUME NEW b \in Places
      PROVE  Range(Line(ctl, b)) = { Line(ctl, b)[i] : i \in 1 .. Len(Line(ctl, b)) }
  <2>1. DOMAIN Line(ctl, b) = 1 .. Len(Line(ctl, b)) BY LineFacts
  <2> QED BY <2>1 DEF Range
<1>2. ASSUME NEW b \in QueueBuffers PROVE F(b) = Owed(ctl, b)
  <2> DEFINE s == ctl.buf[b]
  <2>1. b \in Places /\ b # "pending" /\ Line(ctl, b) = s
    BY PlacesFacts DEF Line
  <2>2. Range(s) = { s[i] : i \in 1 .. Len(s) } BY <1>1, <2>1
  <2>3. Owed(ctl, b) = { [id |-> s[i].id, kind |-> Kind(s[i].type)] : i \in 1 .. Len(s) }
    BY <2>1 DEF Owed, Entry
  <2> HIDE DEF s
  <2>4. { [id |-> r.id, kind |-> Kind(r.type)] : r \in Range(s) }
          = { [id |-> s[i].id, kind |-> Kind(s[i].type)] : i \in 1 .. Len(s) }
    BY <2>2
  <2> QED BY <2>3, <2>4 DEF s
<1>3. G = Owed(ctl, "pending")
  <2> DEFINE s == ctl.pending
  <2>1. "pending" \in Places /\ Line(ctl, "pending") = s
    BY PlacesFacts DEF Line
  <2>2. Range(s) = { s[i] : i \in 1 .. Len(s) } BY <1>1, <2>1
  <2>3. Owed(ctl, "pending") = { [id |-> s[i].id, kind |-> "mem"] : i \in 1 .. Len(s) }
    BY <2>1 DEF Owed, Entry
  <2> HIDE DEF s
  <2>4. { [id |-> e.id, kind |-> "mem"] : e \in Range(s) }
          = { [id |-> s[i].id, kind |-> "mem"] : i \in 1 .. Len(s) }
    BY <2>2
  <2> QED BY <2>3, <2>4 DEF s
<1>4. Waiting = (UNION { F(b) : b \in QueueBuffers }) \cup G BY DEF Waiting
<1> HIDE DEF F, G
<1> DEFINE U == UNION { F(b) : b \in QueueBuffers }
           P == Owed(ctl, "pending")
           W == WaitingOf(ctl)
<1>5. ASSUME NEW x PROVE x \in W <=> x \in U \/ x \in P
  <2>1. x \in W <=> \E b \in Places : x \in Owed(ctl, b) BY DEF WaitingOf
  <2>2. x \in U <=> \E b \in QueueBuffers : x \in F(b) OBVIOUS
  <2>3. Places = QueueBuffers \cup {"pending"} BY DEF Places
  <2> HIDE DEF U, W
  <2> QED BY <1>2, <2>1, <2>2, <2>3, Zenon
<1> HIDE DEF U, P, W
<1>6. W = U \cup P BY <1>5
<1> QED BY <1>3, <1>4, <1>6 DEF U, P, W

LEMMA WaitingSame ==
  ASSUME NEW c, NEW e,
         \A b \in Places : /\ Len(Line(e, b)) = Len(Line(c, b))
                           /\ \A i \in 1 .. Len(Line(c, b)) : Entry(e, b, i) = Entry(c, b, i)
  PROVE  WaitingOf(e) = WaitingOf(c)
<1>1. \A b \in Places : Owed(e, b) = Owed(c, b) BY DEF Owed
<1> QED BY <1>1 DEF WaitingOf

LEMMA WaitingSameLines ==
  ASSUME NEW c, NEW e, e.pending = c.pending, \A b \in QueueBuffers : e.buf[b] = c.buf[b]
  PROVE  WaitingOf(e) = WaitingOf(c)
<1>1. \A b \in Places : /\ Line(e, b) = Line(c, b)
                        /\ \A i : Entry(e, b, i) = Entry(c, b, i)
  BY DEF Line, Entry, Places
<1> QED BY <1>1, WaitingSame

\* Line a of c with its entry k removed.
LEMMA WaitingTaken ==
  ASSUME NEW c, Good(c), Whole(c), NEW e, NEW a \in Places, NEW k,
         Shorter(Line(c, a), Line(e, a), k), SameBut(c, e, a)
  PROVE  /\ WaitingOf(e) = WaitingOf(c) \ {Entry(c, a, k)}
         /\ Entry(c, a, k) \in WaitingOf(c)
<1> DEFINE x == Entry(c, a, k)
           s == Line(c, a)
           t == Line(e, a)
<1>1. /\ k \in 1 .. Len(s) /\ Len(t) = Len(s) - 1 /\ Len(s) \in Nat
      /\ \A i \in 1 .. Len(s) - 1 : t[i] = IF i < k THEN s[i] ELSE s[i + 1]
  BY LineFacts DEF Shorter
<1>2. \A b \in Places : \A i \in 1 .. Len(Line(c, b)) :
        Entry(c, b, i).id = x.id => b = a /\ i = k
  <2>1. ASSUME NEW b \in Places, NEW i \in 1 .. Len(Line(c, b))
        PROVE  Entry(c, b, i).id = Ids(c)[b][i] /\ i \in DOMAIN Ids(c)[b]
    BY LineFacts DEF Entry, Line
  <2>2. x.id = Ids(c)[a][k] /\ k \in DOMAIN Ids(c)[a] BY <1>1, <2>1
  <2> HIDE DEF x
  <2> QED BY <1>1, <2>1, <2>2 DEF Whole, Partition
<1>3. \A b \in Places \ {a} : Owed(e, b) = Owed(c, b)
  BY DEF SameBut, Owed, Entry, Line
<1>4. \A i \in 1 .. Len(s) - 1 :
        Entry(e, a, i) = Entry(c, a, IF i < k THEN i ELSE i + 1)
  <2> SUFFICES ASSUME NEW i \in 1 .. Len(s) - 1
               PROVE  Entry(e, a, i) = Entry(c, a, IF i < k THEN i ELSE i + 1)
    OBVIOUS
  <2>1. t[i] = s[IF i < k THEN i ELSE i + 1] BY <1>1
  <2> QED BY <2>1 DEF Entry, Line
<1> HIDE DEF x, s, t
<1>5. Owed(e, a) = Owed(c, a) \ {x}
  <2>1. ASSUME NEW y \in Owed(e, a) PROVE y \in Owed(c, a) \ {x}
    <3>1. PICK i \in 1 .. Len(s) - 1 : y = Entry(e, a, i)
      BY <1>1 DEF Owed, s, t
    <3> DEFINE j == IF i < k THEN i ELSE i + 1
    <3>2. j \in 1 .. Len(s) /\ j # k /\ y = Entry(c, a, j) BY <1>1, <1>4, <3>1
    <3> HIDE DEF j
    <3>3. y # x BY <1>2, <3>2 DEF s
    <3> QED BY <3>2, <3>3 DEF Owed, s
  <2>2. ASSUME NEW y \in Owed(c, a), y # x PROVE y \in Owed(e, a)
    <3>1. PICK j \in 1 .. Len(s) : y = Entry(c, a, j) BY DEF Owed, s
    <3>2. j # k BY <2>2, <3>1 DEF x
    <3> DEFINE i == IF j < k THEN j ELSE j - 1
    <3>3. i \in 1 .. Len(s) - 1 /\ (IF i < k THEN i ELSE i + 1) = j BY <1>1, <3>2
    <3> HIDE DEF i
    <3>4. y = Entry(e, a, i) BY <1>4, <3>1, <3>3
    <3> QED BY <1>1, <3>3, <3>4 DEF Owed, t
  <2> QED BY <2>1, <2>2
<1>6. \A b \in Places \ {a} : x \notin Owed(c, b) BY <1>2 DEF Owed
<1>7. x \in Owed(c, a) BY <1>1 DEF Owed, x, s
<1>8. \A b \in Places : Owed(e, b) = Owed(c, b) \ {x} BY <1>3, <1>5, <1>6
<1> QED BY <1>7, <1>8 DEF WaitingOf, x

\* t is s with r at its end.
Extends(s, t, r) ==
  /\ Len(s) \in Nat /\ Len(t) = Len(s) + 1 /\ t[Len(s) + 1] = r
  /\ \A i \in 1 .. Len(s) : t[i] = s[i]

LEMMA AppendExtends ==
  ASSUME NEW S, NEW s \in Seq(S), NEW r
  PROVE  Extends(s, Append(s, r), r)
<1> DEFINE t == Append(s, r)
<1>1. /\ Len(s) \in Nat /\ Len(t) = Len(s) + 1 /\ t[Len(s) + 1] = r
      /\ \A i \in 1 .. Len(s) : t[i] = s[i]
  OBVIOUS
<1> HIDE DEF t
<1>2. Extends(s, t, r) BY <1>1 DEF Extends
<1> QED BY <1>2 DEF t

LEMMA RemoveAtExtends ==
  ASSUME NEW S, NEW s \in Seq(S), NEW k \in 1 .. Len(s), NEW r \in S
  PROVE  Extends(RemoveAt(s, k), RemoveAt(Append(s, r), k), r)
<1> DEFINE t == Append(s, r)
           t1 == RemoveAt(t, k)
           s1 == RemoveAt(s, k)
<1>1. /\ t \in Seq(S) /\ Len(t) = Len(s) + 1 /\ Len(s) \in Nat
      /\ t[Len(s) + 1] = r
      /\ \A i \in 1 .. Len(s) : t[i] = s[i]
  OBVIOUS
<1>2. /\ Len(s1) = Len(s) - 1
      /\ \A i \in 1 .. Len(s) - 1 : s1[i] = IF i < k THEN s[i] ELSE s[i + 1]
  BY RemoveAtFacts
<1> HIDE DEF t
<1>3. k \in 1 .. Len(t) BY <1>1
<1>4. /\ Len(t1) = Len(t) - 1
      /\ \A i \in 1 .. Len(t) - 1 : t1[i] = IF i < k THEN t[i] ELSE t[i + 1]
  BY <1>1, <1>3, RemoveAtFacts
<1> HIDE DEF t1, s1
<1>5. Extends(s1, t1, r) BY <1>1, <1>2, <1>3, <1>4 DEF Extends
<1> QED BY <1>5 DEF s1, t1, t

\* Line a of c with one more entry.
LEMMA WaitingAdded ==
  ASSUME NEW c, NEW e, NEW a \in Places, NEW r,
         Extends(Line(c, a), Line(e, a), r), SameBut(c, e, a)
  PROVE  WaitingOf(e) = WaitingOf(c) \cup {Entry(e, a, Len(Line(e, a)))}
<1> DEFINE n == Len(Line(c, a))
           x == Entry(e, a, n + 1)
<1>1. n \in Nat /\ Len(Line(e, a)) = n + 1 BY DEF Extends
<1>2. \A b \in Places \ {a} : Owed(e, b) = Owed(c, b)
  BY DEF SameBut, Owed, Entry, Line
<1>3. \A i \in 1 .. n : Entry(e, a, i) = Entry(c, a, i)
  BY DEF Extends, Entry, Line
<1> HIDE DEF n
<1>4. 1 .. n + 1 = (1 .. n) \cup {n + 1} BY <1>1
<1>5. Owed(e, a) = { Entry(e, a, i) : i \in 1 .. n + 1 } BY <1>1 DEF Owed
<1>6. Owed(c, a) = { Entry(e, a, i) : i \in 1 .. n } BY <1>3 DEF Owed, n
<1> HIDE DEF x
<1>7. Owed(e, a) = Owed(c, a) \cup {x} BY <1>4, <1>5, <1>6 DEF x
<1>8. WaitingOf(e) = WaitingOf(c) \cup {x} BY <1>2, <1>7 DEF WaitingOf
<1> QED BY <1>1, <1>8 DEF x

----------------------------------------------------------------------------
(* What every part of a tick does for the front end: it retires some of    *)
(* the requests, none across a barrier.                                    *)

NoneCrossed(waiting, some) ==
  \A r1 \in some, r2 \in waiting \ some : ~Service!Crosses(r1, r2)

Retired(c, e) ==
  \E some \in SUBSET WaitingOf(c) :
    /\ NoneCrossed(WaitingOf(c), some)
    /\ WaitingOf(e) = WaitingOf(c) \ some
    /\ e.done = c.done \cup { r.id : r \in some }
    /\ e.sent = c.sent

LEMMA RetiredNone ==
  ASSUME NEW c, NEW e, WaitingOf(e) = WaitingOf(c), e.done = c.done, e.sent = c.sent
  PROVE  Retired(c, e)
<1>1. {} \in SUBSET WaitingOf(c) /\ NoneCrossed(WaitingOf(c), {}) BY DEF NoneCrossed
<1>2. { r.id : r \in {} } = {} OBVIOUS
<1> QED BY <1>1, <1>2 DEF Retired

LEMMA RetiredOne ==
  ASSUME NEW c, NEW e, NEW x \in WaitingOf(c),
         \A r \in WaitingOf(c) : ~Service!Crosses(x, r),
         WaitingOf(e) = WaitingOf(c) \ {x}, e.done = c.done \cup {x.id}, e.sent = c.sent
  PROVE  Retired(c, e)
<1>1. {x} \in SUBSET WaitingOf(c) /\ NoneCrossed(WaitingOf(c), {x}) BY DEF NoneCrossed
<1>2. { r.id : r \in {x} } = {x.id} OBVIOUS
<1> QED BY <1>1, <1>2 DEF Retired

LEMMA RetiredTwice ==
  ASSUME NEW c, NEW e, NEW f, Retired(c, e), Retired(e, f)
  PROVE  Retired(c, f)
<1> DEFINE W == WaitingOf(c)
<1>1. PICK A \in SUBSET W : /\ NoneCrossed(W, A) /\ WaitingOf(e) = W \ A
                            /\ e.done = c.done \cup { r.id : r \in A } /\ e.sent = c.sent
  BY DEF Retired
<1>2. PICK B \in SUBSET (W \ A) :
        /\ NoneCrossed(W \ A, B) /\ WaitingOf(f) = (W \ A) \ B
        /\ f.done = e.done \cup { r.id : r \in B } /\ f.sent = e.sent
  BY <1>1 DEF Retired
<1> HIDE DEF W
<1>3. A \cup B \in SUBSET W /\ (W \ A) \ B = W \ (A \cup B) OBVIOUS
<1>4. NoneCrossed(W, A \cup B) BY <1>1, <1>2 DEF NoneCrossed
<1>5. { r.id : r \in A } \cup { r.id : r \in B } = { r.id : r \in A \cup B } OBVIOUS
<1>6. f.done = c.done \cup { r.id : r \in A \cup B }
  BY <1>1, <1>2, <1>5
<1> QED BY <1>1, <1>2, <1>3, <1>4, <1>6 DEF Retired, W

LEMMA MemoryCrossesNothing ==
  ASSUME NEW x, x.kind = "mem"
  PROVE  \A r : ~Service!Crosses(x, r)
BY DEF Service!Crosses

\* The line of an entry.
LEMMA EntryIn ==
  ASSUME NEW c, NEW x \in WaitingOf(c)
  PROVE  \E b \in Places : \E i \in 1 .. Len(Line(c, b)) : x = Entry(c, b, i)
BY DEF WaitingOf, Owed

\* Only the PIM buffer holds entries of another kind.
LEMMA EntryKind ==
  ASSUME NEW c, Good(c), NEW b \in Places, NEW i \in 1 .. Len(Line(c, b))
  PROVE  /\ b # "pim" => Entry(c, b, i).kind = "mem"
         /\ b = "pim" => Entry(c, b, i).id = c.buf["pim"][i].id /\ i \in 1 .. Len(c.buf["pim"])
         /\ b = "pim" => (Entry(c, b, i).kind = "barrier" <=> c.buf["pim"][i].type = "BARRIER")
<1>1. CASE b = "pending" BY <1>1 DEF Entry
<1>2. CASE b \in {"active", "read", "write"}
  <2>1. b \in Buffers /\ b # "pending" /\ b # "pim" /\ Line(c, b) = c.buf[b]
    BY <1>2, PlacesFacts DEF Line
  <2>2. DOMAIN c.buf[b] = 1 .. Len(c.buf[b]) BY <2>1, GoodBuffer
  <2>3. c.buf[b][i].type \in MemTypes
    BY <1>2, <2>1, <2>2, KeptFacts DEF Good, Sorted, MemTypes
  <2> QED BY <2>1, <2>3 DEF Entry, Kind
<1>3. CASE b = "pim"
  <2>1. b \in Buffers /\ b # "pending" /\ Line(c, b) = c.buf[b]
    BY <1>3, PlacesFacts DEF Line
  <2>2. DOMAIN c.buf[b] = 1 .. Len(c.buf[b]) BY <2>1, GoodBuffer
  <2>3. c.buf[b][i].type \in PIMTypes
    BY <1>3, <2>1, <2>2, KeptFacts DEF Good, Sorted
  <2>4. c.buf[b][i].type \notin MemTypes BY <2>3 DEF MemTypes, PIMTypes
  <2> QED BY <1>3, <2>1, <2>4 DEF Entry, Kind
<1> QED BY <1>1, <1>2, <1>3, PlacesFacts DEF Places

LEMMA TickedRetired ==
  ASSUME NEW c, Good(c), Whole(c)
  PROVE  Retired(c, Ticked(c))
<1> DEFINE c1 == TickClock(c)
           c2 == ServeCompletedReads(c1)
           c3 == RefreshTick(c2)
<1>1. Good(c1) /\ Good(c2) /\ Whole(c1) BY TickClockGood, ServeGood, TickClockWhole
<1>2. Retired(c, c1)
  <2>1. /\ c1.buf = c.buf /\ c1.done = c.done /\ c1.sent = c.sent
        /\ Len(c1.pending) = Len(c.pending)
        /\ \A i \in 1 .. Len(c.pending) : c1.pending[i].id = c.pending[i].id
    BY TickClockFields
  <2> HIDE DEF c1
  <2>2. ASSUME NEW b \in Places
        PROVE  /\ Len(Line(c1, b)) = Len(Line(c, b))
               /\ \A i \in 1 .. Len(Line(c, b)) : Entry(c1, b, i) = Entry(c, b, i)
    BY <2>1 DEF Line, Entry
  <2>3. WaitingOf(c1) = WaitingOf(c) BY <2>2, WaitingSame
  <2> QED BY <2>1, <2>3, RetiredNone
<1>3. Retired(c1, c2)
  <2>1. /\ c2.buf = c1.buf /\ c2.sent = c1.sent
        /\ \/ c2.pending = c1.pending /\ c2.done = c1.done
           \/ /\ c1.pending # <<>>
              /\ c2.pending = Tail(c1.pending) /\ c2.done = c1.done \cup {c1.pending[1].id}
    BY <1>1, ServeFields
  <2>2. c1.pending \in Seq(Departures) BY <1>1 DEF Good, Controllers
  <2> HIDE DEF c1, c2
  <2>3. CASE c2.pending = c1.pending /\ c2.done = c1.done
    <3>1. WaitingOf(c2) = WaitingOf(c1) BY <2>1, <2>3, WaitingSameLines
    <3> QED BY <2>1, <2>3, <3>1, RetiredNone
  <2>4. CASE /\ c1.pending # <<>>
             /\ c2.pending = Tail(c1.pending) /\ c2.done = c1.done \cup {c1.pending[1].id}
    <3> DEFINE a == "pending"
               x == Entry(c1, a, 1)
    <3>1. a \in Places /\ Line(c1, a) = c1.pending /\ Line(c2, a) = c2.pending
      BY PlacesFacts DEF Line
    <3>2. Shorter(Line(c1, a), Line(c2, a), 1) BY <2>2, <2>4, <3>1, TailShorter
    <3>3. SameBut(c1, c2, a) BY <2>1 DEF SameBut, Line
    <3>4. WaitingOf(c2) = WaitingOf(c1) \ {x} /\ x \in WaitingOf(c1)
      BY <1>1, <3>1, <3>2, <3>3, WaitingTaken
    <3>5. x.id = c1.pending[1].id /\ x.kind = "mem" BY DEF Entry
    <3> HIDE DEF x
    <3> QED BY <2>1, <2>4, <3>4, <3>5, MemoryCrossesNothing, RetiredOne
  <2> QED BY <2>1, <2>3, <2>4
<1>4. Retired(c2, c3)
  <2>1. /\ c3.sent = c2.sent /\ c3.done = c2.done /\ c3.pending = c2.pending
        /\ c3.buf = c2.buf \/ c3.buf = [c2.buf EXCEPT !["priority"] = @ \o Burst]
    BY <1>1, RefreshTickFields
  <2>2. c2.buf \in [Buffers -> Seq(Held)] BY <1>1 DEF Good, Controllers, Held
  <2> HIDE DEF c2, c3
  <2>3. \A b \in QueueBuffers : c3.buf[b] = c2.buf[b] BY <2>1, <2>2, PlacesFacts
  <2>4. WaitingOf(c3) = WaitingOf(c2) BY <2>1, <2>3, WaitingSameLines
  <2> QED BY <2>1, <2>4, RetiredNone
<1>5. Ticked(c) = c3 BY DEF Ticked
<1> HIDE DEF c1, c2, c3
<1> QED BY <1>2, <1>3, <1>4, <1>5, RetiredTwice

\* A barrier at the head of the PIM buffer is older than all that wait there.
LEMMA ScheduleRetired ==
  ASSUME NEW c, Good(c), Whole(c), Arrived(c), NEW e, SameQueues(c, e)
  PROVE  Retired(c, e)
<1> DEFINE s == c.buf["pim"]
<1>1. "pim" \in Buffers /\ "pim" \in Places /\ "pim" \in Lines /\ "pim" \in QueueBuffers
  BY PlacesFacts DEF Lines
<1>2. s \in Seq(Held) /\ InLine(s, c.sent, c.stamp) /\ Len(s) \in Nat
  <2>1. s \in Seq(Held) /\ InLine(s, c.sent, c.stamp) BY <1>1, GoodBuffer DEF Arrived
  <2> HIDE DEF s
  <2> QED BY <2>1
<1>3. e.pending = c.pending /\ e.sent = c.sent BY DEF SameQueues
<1>4. CASE e.buf = c.buf /\ e.done = c.done
  <2>1. WaitingOf(e) = WaitingOf(c) BY <1>3, <1>4, WaitingSameLines
  <2> QED BY <1>3, <1>4, <2>1, RetiredNone
<1>5. CASE e.buf = WithoutBarrier(c).buf /\ e.done = WithoutBarrier(c).done
  <2>1. /\ e.buf = [c.buf EXCEPT !["pim"] = DropBarrier(s)]
        /\ e.done = IF s = DropBarrier(s) THEN c.done ELSE c.done \cup {s[1].id}
    BY <1>5, WithoutBarrierQueues
  <2>2. c.buf \in [Buffers -> Seq(Held)] BY DEF Good, Controllers, Held
  <2>3. /\ \A b \in Buffers \ {"pim"} : e.buf[b] = c.buf[b]
        /\ e.buf["pim"] = DropBarrier(s)
    BY <1>1, <2>1, <2>2
  <2>4. CASE s = DropBarrier(s)
    <3>1. \A b \in QueueBuffers : e.buf[b] = c.buf[b] BY <2>3, <2>4, PlacesFacts
    <3>2. WaitingOf(e) = WaitingOf(c) BY <1>3, <3>1, WaitingSameLines
    <3> QED BY <1>3, <2>1, <2>4, <3>2, RetiredNone
  <2>5. CASE s # DropBarrier(s)
    <3> DEFINE x == Entry(c, "pim", 1)
    <3>1. s # <<>> /\ DropBarrier(s) = Tail(s) BY <2>5 DEF DropBarrier
    <3>2. Line(c, "pim") = s /\ Line(e, "pim") = Tail(s)
      BY <2>3, <3>1 DEF Line
    <3>3. Shorter(Line(c, "pim"), Line(e, "pim"), 1) BY <1>2, <3>1, <3>2, TailShorter
    <3>4. SameBut(c, e, "pim")
      BY <1>3, <2>3, PlacesFacts DEF SameBut, Line, Places
    <3>5. WaitingOf(e) = WaitingOf(c) \ {x} /\ x \in WaitingOf(c)
      BY <1>1, <3>3, <3>4, WaitingTaken
    <3>6. x.id = s[1].id BY DEF Entry
    <3> HIDE DEF x
    <3>7. ASSUME NEW r \in WaitingOf(c) PROVE ~Service!Crosses(x, r)
      <4>1. PICK b \in Places : \E i \in 1 .. Len(Line(c, b)) : r = Entry(c, b, i)
        BY EntryIn
      <4>2. PICK i \in 1 .. Len(Line(c, b)) : r = Entry(c, b, i) BY <4>1
      <4>3. CASE b = "pim"
        <5>1. r.id = s[i].id /\ i \in 1 .. Len(s) BY <4>2, <4>3, EntryKind
        <5> HIDE DEF s
        <5>2. s[1].id <= s[i].id /\ s[1].id \in Nat /\ s[i].id \in Nat
          BY <1>2, <5>1 DEF InLine
        <5>3. ~(r.id < x.id) BY <3>6, <5>1, <5>2
        <5> QED BY <5>3 DEF Service!Crosses
      <4>4. CASE b # "pim"
        <5>1. r.kind = "mem" BY <4>2, <4>4, EntryKind
        <5> QED BY <5>1 DEF Service!Crosses
      <4> QED BY <4>3, <4>4
    <3>8. e.done = c.done \cup {x.id} BY <2>1, <2>5, <3>6
    <3> QED BY <1>3, <3>5, <3>7, <3>8, RetiredOne
  <2> QED BY <2>4, <2>5
<1> QED BY <1>4, <1>5 DEF SameQueues

\* A barrier never waits: no timing constraint ends in it.
LEMMA BarrierReady ==
  ASSUME NEW d, NEW r, r.type = "BARRIER"
  PROVE  CommandOf(d, r) = "BARRIER" /\ CheckReady(d, CommandOf(d, r), r.path)
<1>1. FinalCommand["BARRIER"] = "BARRIER" BY DEF FinalCommand, ReqTypes, PIMTypes
<1>2. CommandOf(d, r) = "BARRIER" BY <1>1 DEF CommandOf, GetPreqCommand
<1>3. \A k \in Constraints : k.next # "BARRIER"
  <2>1. \A k \in PIMConstraints : k.next # "BARRIER"
    BY DEF PIMConstraints, Rule, Path, Moves
  <2>2. \A k \in DRAMConstraints : k.next # "BARRIER"
    BY DEF DRAMConstraints, Rule
  <2> QED BY <2>1, <2>2 DEF Constraints
<1>4. "BARRIER" \in Commands BY DEF Commands
<1>5. ASSUME NEW n \in {<<>>}, NEW k \in Before[Len(n)]["BARRIER"]
      PROVE  FALSE
  <2>1. Len(n) \in Levels BY DEF Levels
  <2> QED BY <1>3, <1>4, <1>5, <2>1 DEF Before
<1>6. CheckReady(d, "BARRIER", r.path) BY <1>5 DEF CheckReady, Checked, ChannelScope
<1> QED BY <1>2, <1>6

LEMMA FinalMovesNoRow ==
  ASSUME NEW t \in ReqTypes
  PROVE  FinalCommand[t] \notin Opening \cup Closing
BY DEF FinalCommand, ReqTypes, MemTypes, PIMTypes, Opening, Closing

\* A PIM request whose last command is found has no barrier before it, nor is
\* it a barrier with requests before it.
LEMMA NothingCrossed ==
  ASSUME NEW d, NEW c, NEW first, NEW p, Round(d, c, first, p), Arrived(p.ctl),
         p.from = "pim", Finishes(p)
  PROVE  LET s == p.ctl.buf["pim"]
         IN  p.at = 1 \/ \A j \in 1 .. p.at : s[j].type # "BARRIER"
<1> DEFINE s == p.ctl.buf["pim"]
           views == Views(d, s)
           r == Chosen(p)
           S == { views[i] : i \in 1 .. Len(s) }
<1>1. /\ Good(p.ctl) /\ p.found /\ p.at \in 1 .. Len(s) /\ r = s[p.at]
      /\ p.at \in BestRequest(d, s) /\ p.cmd = CommandOf(d, r)
      /\ p.cmd = FinalCommand[r.type]
  <2>1. p.found BY DEF Finishes
  <2>2. "pim" \in QueueBuffers BY DEF QueueBuffers
  <2> QED BY <2>1, <2>2 DEF Round, FromQueues, Sound, Best1, Fitting, Chosen, Finishes
<1>2. s \in Seq(Held) /\ InLine(s, p.ctl.sent, p.ctl.stamp) /\ Len(s) \in Nat
  <2>1. "pim" \in Buffers /\ "pim" \in Lines BY LinesFacts DEF Lines
  <2>2. s \in Seq(Held) /\ InLine(s, p.ctl.sent, p.ctl.stamp)
    BY <1>1, <2>1, GoodBuffer DEF Arrived
  <2> HIDE DEF s
  <2> QED BY <2>2
<1>3. r.type \in ReqTypes
  <2>1. r \in Held BY <1>1, <1>2
  <2> QED BY <2>1 DEF Held, Requests, Refreshes, RefreshRequest, ReqTypes
<1> HIDE DEF s, r
<1>4. views \in Seq(S) /\ Len(views) = Len(s) /\ InOrder(views)
  BY <1>2, ViewsInOrder
<1>5. \A i \in 1 .. Len(s) :
        /\ views[i].barrier = (s[i].type = "BARRIER")
        /\ views[i].ready = CheckReady(d, CommandOf(d, s[i]), s[i].path)
        /\ views[i].moves = (CommandOf(d, s[i]) \in Opening \cup Closing)
  BY <1>2 DEF Views, ViewWith, View
<1> HIDE DEF views, S
<1>6. FirstReady(views) BY <1>4, FirstReadyRule
<1>7. BestOf(views) = { IF Eligible(views) = {} THEN 1 ELSE Min(Eligible(views)) }
  <2>1. views # <<>> BY <1>1, <1>2, <1>4
  <2> QED BY <1>6, <2>1 DEF FirstReady
<1>8. p.at = IF Eligible(views) = {} THEN 1 ELSE Min(Eligible(views))
  BY <1>1, <1>7 DEF BestRequest, views
<1>9. DOMAIN views = 1 .. Len(s) BY <1>2, <1>4
<1>10. CASE p.at # 1
  <2>1. Eligible(views) # {} /\ p.at = Min(Eligible(views)) BY <1>8, <1>10
  <2>2. Eligible(views) \subseteq 1 .. Len(s) BY <1>9 DEF Eligible
  <2>3. p.at \in Eligible(views) /\ \A e \in Eligible(views) : p.at <= e
    BY <2>1, <2>2, LeastOf
  <2>4. 1 \notin Eligible(views) BY <1>1, <1>2, <1>10, <2>3
  <2>5. ~views[1].ready /\ 1 \in 1 .. Len(s) BY <1>1, <1>2, <1>9, <2>4 DEF Eligible
  <2>6. s[1].type # "BARRIER" BY <1>5, <2>5, BarrierReady
  <2>7. ~views[p.at].moves BY <1>1, <1>3, <1>5, FinalMovesNoRow
  <2>8. \A j \in 2 .. p.at : ~views[j].barrier
    BY <1>10, <2>3, <2>7 DEF Eligible, Competes
  <2>9. \A j \in 1 .. p.at : j \in 1 .. Len(s) /\ (j = 1 \/ j \in 2 .. p.at)
    BY <1>1, <1>2
  <2>10. \A j \in 1 .. p.at : s[j].type # "BARRIER" BY <1>5, <2>6, <2>8, <2>9
  <2> QED BY <2>10 DEF s
<1> QED BY <1>10 DEF s

\* What erasing a request from its queue takes from the requests owed.
LEMMA EraseWaiting ==
  ASSUME NEW p, Sound(p), p.found, Whole(p.ctl), p.from \in QueueBuffers
  PROVE  LET c == p.ctl
             e == Erase(c, p)
             x == [id |-> Chosen(p).id, kind |-> Kind(Chosen(p).type)]
         IN  /\ WaitingOf(e) = WaitingOf(c) \ {x} /\ x \in WaitingOf(c)
             /\ x = Entry(c, p.from, p.at) /\ p.at \in 1 .. Len(Line(c, p.from))
             /\ e.buf = Taken(c.buf, p) /\ e.pending = c.pending
<1> DEFINE c == p.ctl
           e == Erase(c, p)
           a == p.from
           k == p.at
           x == Entry(c, a, k)
<1>1. /\ c \in Controllers /\ Good(c) /\ k \in 1 .. Len(c.buf[a])
      /\ a \in Buffers /\ a \in Places /\ a # "pending"
  BY PlacesFacts DEF Sound, Good
<1>2. /\ e.pending = c.pending /\ e.buf[a] = RemoveAt(c.buf[a], k)
      /\ \A b \in Buffers \ {a} : e.buf[b] = c.buf[b]
  BY <1>1, EraseFields
<1>3. e.buf = Taken(c.buf, p) BY <1>1 DEF Erase, Controllers, Taken
<1>4. Line(c, a) = c.buf[a] /\ Line(e, a) = e.buf[a] BY <1>1 DEF Line
<1>5. SameBut(c, e, a) BY <1>2, PlacesFacts DEF SameBut, Line, Places
<1>6. c.buf[a] \in Seq(Held) BY <1>1, GoodBuffer
<1>7. x = [id |-> Chosen(p).id, kind |-> Kind(Chosen(p).type)]
  BY <1>1 DEF Entry, Chosen
<1> HIDE DEF e, x
<1>8. Shorter(Line(c, a), Line(e, a), k)
  <2> DEFINE s == c.buf[a]
             t == RemoveAt(s, k)
  <2>1. k \in 1 .. Len(s) /\ s \in Seq(Held) BY <1>1, <1>6
  <2> HIDE DEF s
  <2>3. /\ Len(t) = Len(s) - 1
        /\ \A i \in 1 .. Len(s) - 1 : t[i] = IF i < k THEN s[i] ELSE s[i + 1]
    BY <2>1, RemoveAtFacts
  <2> HIDE DEF t
  <2>2. Shorter(s, t, k) BY <2>1, <2>3 DEF Shorter
  <2> QED BY <1>2, <1>4, <2>2 DEF s, t
<1>9. WaitingOf(e) = WaitingOf(c) \ {x} /\ x \in WaitingOf(c)
  BY <1>1, <1>5, <1>8, WaitingTaken DEF x
<1> QED BY <1>1, <1>2, <1>3, <1>4, <1>7, <1>9 DEF e, x

LEMMA FinishRetired ==
  ASSUME NEW d, NEW c, NEW first, NEW p, Round(d, c, first, p),
         Whole(p.ctl), Arrived(p.ctl), Finishes(p)
  PROVE  Retired(p.ctl, AfterIssue(p))
<1> DEFINE b == p.ctl
           g == AfterIssue(p)
           e == Erase(b, p)
           r == Chosen(p)
           x == [id |-> r.id, kind |-> Kind(r.type)]
           a == p.from
<1>1. /\ Sound(p) /\ Good(b) /\ p.found /\ a \in Buffers
      /\ p.at \in 1 .. Len(b.buf[a]) /\ r.type \in Kept(a)
      /\ b.buf \in [Buffers -> Seq(Held)] /\ b.pending \in Seq(Departures)
  <2>1. Sound(p) /\ p.found BY DEF Round, Finishes
  <2>2. Good(b) /\ a \in Buffers /\ p.at \in 1 .. Len(b.buf[a]) BY <2>1 DEF Sound
  <2>3. r.type \in Kept(a) BY <2>2, GoodBuffer DEF Good, Sorted, Chosen
  <2> QED BY <2>1, <2>2, <2>3 DEF Good, Controllers, Held
<1>2. Finished(b, g, r, p) /\ g.sent = b.sent BY <1>1, FinishEffect
<1>3. CASE a = "priority"
  <2>1. r.type = "REF" BY <1>1, <1>3, KeptFacts
  <2>2. g.pending = b.pending /\ g.done = b.done /\ g.buf = Taken(b.buf, p)
    BY <1>2, <2>1 DEF Finished
  <2> HIDE DEF g, b
  <2>3. \A q \in QueueBuffers : g.buf[q] = b.buf[q]
    BY <1>1, <1>3, <2>2, PlacesFacts DEF Taken
  <2>4. WaitingOf(g) = WaitingOf(b) BY <2>2, <2>3, WaitingSameLines
  <2> QED BY <1>2, <2>2, <2>4, RetiredNone DEF g, b
<1>4. CASE a # "priority"
  <2>1. a \in QueueBuffers BY <1>1, <1>4 DEF Buffers
  <2>2. /\ WaitingOf(e) = WaitingOf(b) \ {x} /\ x \in WaitingOf(b)
        /\ x = Entry(b, a, p.at) /\ p.at \in 1 .. Len(Line(b, a))
        /\ e.buf = Taken(b.buf, p) /\ e.pending = b.pending
    BY <1>1, <2>1, EraseWaiting
  <2>3. g.buf = e.buf BY <1>2, <2>2 DEF Finished
  <2>4. r.type # "REF"
    BY <1>1, <2>1, KeptFacts DEF QueueBuffers, MemTypes, PIMTypes
  <2> HIDE DEF b, g, e, x, r
  <2>5. CASE r.type = "Read"
    <3>1. g.pending = Append(b.pending, Departure(r)) /\ g.done = b.done
      BY <1>2, <2>5 DEF Finished
    <3>2. Extends(b.pending, g.pending, Departure(r)) BY <1>1, <3>1, AppendExtends
    <3>3. Line(e, "pending") = b.pending /\ Line(g, "pending") = g.pending
      BY <2>2 DEF Line
    <3>4. SameBut(e, g, "pending") BY <2>3 DEF SameBut, Line
    <3> DEFINE y == Entry(g, "pending", Len(Line(g, "pending")))
    <3>5. WaitingOf(g) = WaitingOf(e) \cup {y}
      BY <3>2, <3>3, <3>4, PlacesFacts, WaitingAdded
    <3>6. y = x
      <4>1. g.pending[Len(g.pending)] = Departure(r) BY <3>2 DEF Extends
      <4>2. y = [id |-> r.id, kind |-> "mem"] BY <3>3, <4>1 DEF Entry, Departure
      <4> QED BY <2>5, <4>2 DEF x, Kind, MemTypes
    <3> HIDE DEF y
    <3>7. WaitingOf(g) = WaitingOf(b) BY <2>2, <3>5, <3>6
    <3> QED BY <1>2, <3>1, <3>7, RetiredNone DEF b, g
  <2>6. CASE r.type # "Read"
    <3>1. g.pending = b.pending /\ g.done = b.done \cup {r.id}
      BY <1>2, <2>4, <2>6 DEF Finished
    <3>2. WaitingOf(g) = WaitingOf(e) BY <2>2, <2>3, <3>1, WaitingSameLines
    <3>3. ASSUME NEW y \in WaitingOf(b) PROVE ~Service!Crosses(x, y)
      <4>1. CASE a # "pim"
        <5>1. x.kind = "mem" BY <1>1, <2>1, <2>2, <4>1, EntryKind, PlacesFacts
        <5> QED BY <5>1, MemoryCrossesNothing
      <4>2. CASE a = "pim"
        <5> DEFINE s == b.buf["pim"]
        <5>1. p.at = 1 \/ \A j \in 1 .. p.at : s[j].type # "BARRIER"
          BY <4>2, NothingCrossed DEF b
        <5>2. /\ x.id = s[p.at].id /\ p.at \in 1 .. Len(s)
              /\ x.kind = "barrier" <=> s[p.at].type = "BARRIER"
          BY <1>1, <2>1, <2>2, <4>2, EntryKind, PlacesFacts
        <5>3. PICK q \in Places : \E i \in 1 .. Len(Line(b, q)) : y = Entry(b, q, i)
          BY EntryIn
        <5>4. PICK i \in 1 .. Len(Line(b, q)) : y = Entry(b, q, i) BY <5>3
        <5>5. CASE q # "pim"
          <6>1. y.kind = "mem" BY <1>1, <5>4, <5>5, EntryKind
          <6> QED BY <6>1 DEF Service!Crosses
        <5>6. CASE q = "pim"
          <6>1. /\ y.id = s[i].id /\ i \in 1 .. Len(s)
                /\ y.kind = "barrier" <=> s[i].type = "BARRIER"
            BY <1>1, <5>4, <5>6, EntryKind
          <6>2. InLine(s, b.sent, b.stamp) BY DEF Arrived, Lines, b
          <6> HIDE DEF s
          <6>3. s[i].id \in Nat /\ s[p.at].id \in Nat BY <5>2, <6>1, <6>2 DEF InLine
          <6>4. CASE p.at <= i
            <7>1. s[p.at].id <= s[i].id
              <8>1. p.at < i => s[p.at].id < s[i].id BY <5>2, <6>1, <6>2 DEF InLine
              <8>2. p.at = i \/ p.at < i BY <5>2, <6>1, <6>4
              <8> QED BY <6>3, <8>1, <8>2
            <7> QED BY <5>2, <6>1, <6>3, <7>1 DEF Service!Crosses
          <6>5. CASE i < p.at
            <7>1. i \in 1 .. p.at /\ p.at \in 1 .. p.at /\ p.at # 1
              BY <5>2, <6>1, <6>5
            <7>2. x.kind # "barrier" /\ y.kind # "barrier"
              BY <5>1, <5>2, <6>1, <7>1
            <7> QED BY <7>2 DEF Service!Crosses
          <6> QED BY <5>2, <6>1, <6>4, <6>5
        <5> QED BY <5>5, <5>6
      <4> QED BY <4>1, <4>2
    <3>4. x.id = r.id BY DEF x
    <3>5. WaitingOf(g) = WaitingOf(b) \ {x} BY <2>2, <3>2
    <3> QED BY <1>2, <2>2, <3>1, <3>3, <3>4, <3>5, RetiredOne DEF b, g
  <2> QED BY <2>5, <2>6
<1> QED BY <1>3, <1>4

\* A request that moves to the active buffer is still owed; one that is
\* dropped there would not be.
LEMMA ActivateRetired ==
  ASSUME NEW p, Sound(p), Whole(p.ctl), Activates(p), AfterIssue(p).lost = {}
  PROVE  Retired(p.ctl, AfterIssue(p))
<1> DEFINE b == p.ctl
           g == AfterIssue(p)
           e == Erase(b, p)
           r == Chosen(p)
           x == [id |-> r.id, kind |-> Kind(r.type)]
           a == p.from
           more == [b.buf EXCEPT !["active"] = Append(@, r)]
<1>1. /\ Good(b) /\ p.found /\ a \in Buffers
      /\ p.at \in 1 .. Len(b.buf[a]) /\ r.type \in Kept(a) /\ r.type \in MemTypes
      /\ b.buf \in [Buffers -> Seq(Held)] /\ r \in Held
  <2>1. p.found BY DEF Activates
  <2>2. Good(b) /\ a \in Buffers /\ p.at \in 1 .. Len(b.buf[a]) BY <2>1 DEF Sound
  <2>3. r.type \in Kept(a) BY <2>2, GoodBuffer DEF Good, Sorted, Chosen
  <2>4. r.type \in MemTypes BY DEF Sound, Activates
  <2> QED BY <2>1, <2>2, <2>3, <2>4, ChosenHeld DEF Good, Controllers, Held
<1>2. Activated(b, g, r, p) /\ g.sent = b.sent BY ActivateEffect
<1>3. g.buf = Taken(more, p) /\ g.pending = b.pending /\ g.done = b.done
  BY <1>2 DEF Activated
<1>4. a \in QueueBuffers
  <2>1. a # "priority" BY <1>1, KeptFacts DEF MemTypes
  <2> QED BY <1>1, <2>1 DEF Buffers
<1>5. /\ WaitingOf(e) = WaitingOf(b) \ {x} /\ x \in WaitingOf(b)
      /\ e.buf = Taken(b.buf, p) /\ e.pending = b.pending
  BY <1>1, <1>4, EraseWaiting
<1>6. "active" \in Buffers /\ "active" \in Places /\ "active" # "pending"
  BY PlacesFacts
<1> DEFINE s == b.buf["active"]
<1>7. s \in Seq(Held) BY <1>1, <1>6
<1> HIDE DEF b, g, e, x, r
<1>8. more \in [Buffers -> Seq(Held)] /\ more["active"] = Append(s, r)
      /\ \A q \in Buffers \ {"active"} : more[q] = b.buf[q]
  <2>1. Append(s, r) \in Seq(Held) BY <1>1, <1>7
  <2> QED BY <1>1, <1>6, <2>1
<1> HIDE DEF more
<1>9. \A q \in Buffers :
        /\ g.buf[q] = IF q = a THEN RemoveAt(more[q], p.at) ELSE more[q]
        /\ e.buf[q] = IF q = a THEN RemoveAt(b.buf[q], p.at) ELSE b.buf[q]
  BY <1>1, <1>3, <1>5, <1>8 DEF Taken
<1>10. Extends(e.buf["active"], g.buf["active"], r)
  <2>1. CASE a = "active"
    <3>1. /\ g.buf["active"] = RemoveAt(Append(s, r), p.at)
          /\ e.buf["active"] = RemoveAt(s, p.at) /\ p.at \in 1 .. Len(s)
      <4>1. /\ g.buf["active"] = RemoveAt(more["active"], p.at)
            /\ e.buf["active"] = RemoveAt(b.buf["active"], p.at)
        BY <1>6, <1>9, <2>1
      <4>2. p.at \in 1 .. Len(b.buf["active"]) BY <1>1, <2>1
      <4> QED BY <1>8, <4>1, <4>2
    <3> HIDE DEF s
    <3>2. r \in Held BY <1>1
    <3>3. Extends(RemoveAt(s, p.at), RemoveAt(Append(s, r), p.at), r)
      BY <1>7, <3>1, <3>2, RemoveAtExtends
    <3> QED BY <3>1, <3>3
  <2>2. CASE a # "active"
    <3>1. g.buf["active"] = Append(s, r) /\ e.buf["active"] = s
      BY <1>6, <1>8, <1>9, <2>2
    <3> HIDE DEF s
    <3> QED BY <1>7, <3>1, AppendExtends
  <2> QED BY <2>1, <2>2
<1>11. Line(e, "active") = e.buf["active"] /\ Line(g, "active") = g.buf["active"]
  BY <1>6 DEF Line
<1>12. SameBut(e, g, "active")
  BY <1>3, <1>5, <1>8, <1>9, PlacesFacts DEF SameBut, Line, Places
<1> DEFINE y == Entry(g, "active", Len(Line(g, "active")))
<1>13. WaitingOf(g) = WaitingOf(e) \cup {y}
  BY <1>6, <1>10, <1>11, <1>12, WaitingAdded
<1>14. y = x
  <2>1. g.buf["active"][Len(g.buf["active"])] = r BY <1>10 DEF Extends
  <2> QED BY <1>6, <1>11, <2>1 DEF Entry, x
<1> HIDE DEF y
<1>15. WaitingOf(g) = WaitingOf(b) BY <1>5, <1>13, <1>14
<1> QED BY <1>2, <1>3, <1>15, RetiredNone DEF b, g

\* One scheduling round and its command.
LEMMA RoundRetired ==
  ASSUME NEW d, NEW c, NEW first, NEW p, Round(d, c, first, p),
         Whole(c), Arrived(c), AfterIssue(p).lost = {}
  PROVE  /\ Retired(c, AfterIssue(p)) /\ Whole(AfterIssue(p)) /\ Arrived(AfterIssue(p))
         /\ c.lost = {}
<1>1. Good(c) /\ Sound(p) /\ SameQueues(c, p.ctl) /\ p \in Schedule(d, c, first)
  BY DEF Round, FromQueues
<1>2. Whole(p.ctl) /\ Whole(AfterIssue(p)) BY <1>1, ScheduleWhole, AfterIssueWhole
<1>3. Arrived(p.ctl) /\ Arrived(AfterIssue(p)) BY RoundArrived
<1>4. Retired(c, p.ctl) BY <1>1, ScheduleRetired
<1>5. Retired(p.ctl, AfterIssue(p)) /\ p.ctl.lost = {}
  <2>1. CASE Finishes(p)
    BY <1>1, <1>2, <1>3, <2>1, FinishRetired, FinishEffect DEF Finished
  <2>2. CASE Activates(p)
    <3>1. p.ctl.lost = {} BY <1>1, <2>2, ActivateEffect DEF Activated
    <3> QED BY <1>1, <1>2, <2>2, <3>1, ActivateRetired
  <2>3. CASE ~Finishes(p) /\ ~Activates(p)
    <3>1. AfterIssue(p) = p.ctl BY <2>3, NoEffect
    <3> QED BY <3>1, RetiredNone
  <2> QED BY <2>1, <2>2, <2>3
<1>6. c.lost = {} BY <1>1, <1>5 DEF SameQueues
<1> QED BY <1>2, <1>3, <1>4, <1>5, <1>6, RetiredTwice

LEMMA TicksRetire ==
  ASSUME IInv, Whole(ctl), Arrived(ctl), Tick, ctl'.lost = {}
  PROVE  Retired(ctl, ctl')
<1> DEFINE d == TickDevice(dev)
           c == Ticked(ctl)
<1>1. Good(ctl) /\ (Throw(d, c) \/ Rounds(d, c, dev', ctl')) BY TickRounds
<1>2. Retired(ctl, c) /\ Whole(c) /\ Arrived(c)
  BY <1>1, TickedRetired, TickedWhole, TickedArrived
<1> HIDE DEF d, c
<1>3. CASE Throw(d, c) BY <1>2, <1>3 DEF Throw
<1>4. CASE Rounds(d, c, dev', ctl')
  <2>1. PICK p, q, first :
          /\ Round(d, c, "any", p) /\ Round(Issue(d, p), AfterIssue(p), first, q)
          /\ ctl' = AfterIssue(q)
    BY <1>4 DEF Rounds
  <2>2. Whole(AfterIssue(p)) /\ Arrived(AfterIssue(p))
    <3>1. Sound(p) /\ Good(c) /\ p \in Schedule(d, c, "any") BY <2>1 DEF Round
    <3>2. Whole(p.ctl) BY <1>2, <3>1, ScheduleWhole
    <3> QED BY <1>2, <2>1, <3>1, <3>2, AfterIssueWhole, RoundArrived
  <2>3. Retired(AfterIssue(p), ctl') /\ AfterIssue(p).lost = {}
    BY <2>1, <2>2, RoundRetired
  <2>4. Retired(c, AfterIssue(p)) BY <1>2, <2>1, <2>3, RoundRetired
  <2> QED BY <1>2, <2>3, <2>4, RetiredTwice
<1> QED BY <1>1, <1>3, <1>4

LEMMA SendsAccept ==
  ASSUME Good(ctl), NEW m \in Menu, Send(m)
  PROVE  \E kind \in {"mem", "pim", "barrier"} :
           /\ WaitingOf(ctl') = WaitingOf(ctl) \cup {[id |-> ctl.sent + 1, kind |-> kind]}
           /\ ctl'.sent = ctl.sent + 1 /\ ctl'.done = ctl.done
<1> DEFINE c == ctl
           e == Accepted(ctl, m)
<1>1. ctl' = e BY DEF Send
<1>2. e.sent = c.sent + 1 /\ e.done = c.done BY AcceptedFields
<1>3. c.buf \in [Buffers -> Seq(Held)] /\ c.pending \in Seq(Departures)
  BY DEF Good, Controllers, Held
<1>4. CASE /\ e.buf = c.buf
           /\ e.pending = Append(c.pending, [id |-> c.sent + 1, wait |-> 1, fwd |-> TRUE])
  <2> DEFINE x == [id |-> c.sent + 1, wait |-> 1, fwd |-> TRUE]
             y == Entry(e, "pending", Len(Line(e, "pending")))
  <2> HIDE DEF e
  <2>1. Extends(c.pending, e.pending, x) BY <1>3, <1>4, AppendExtends
  <2>2. Line(c, "pending") = c.pending /\ Line(e, "pending") = e.pending BY DEF Line
  <2>3. SameBut(c, e, "pending") BY <1>4 DEF SameBut, Line
  <2>4. WaitingOf(e) = WaitingOf(c) \cup {y}
    BY <2>1, <2>2, <2>3, PlacesFacts, WaitingAdded
  <2>5. y = [id |-> c.sent + 1, kind |-> "mem"]
    <3>1. e.pending[Len(e.pending)] = x BY <2>1 DEF Extends
    <3> QED BY <2>2, <3>1 DEF Entry
  <2> QED BY <1>1, <1>2, <2>4, <2>5
<1>5. CASE ~(/\ e.buf = c.buf
             /\ e.pending = Append(c.pending, [id |-> c.sent + 1, wait |-> 1, fwd |-> TRUE]))
  <2>1. \E now \in Nat :
          LET b == BufferOf(m.type)
              r == [id |-> c.sent + 1, type |-> m.type, path |-> m.path,
                    row |-> m.row, col |-> m.col, arrive |-> now]
          IN  /\ e.pending = c.pending /\ e.stamp = now
              /\ now = IF c.stamp = 0 THEN c.sent + 1 ELSE c.stamp
              /\ b \in {"read", "write", "pim"} /\ m.type \in Kept(b)
              /\ r \in Requests
              /\ e.buf = [c.buf EXCEPT ![b] = Append(@, r)]
    BY <1>5, AcceptedFields
  <2> HIDE DEF e
  <2>2. PICK b \in {"read", "write", "pim"}, r \in Requests :
          /\ e.pending = c.pending /\ r.id = c.sent + 1
          /\ e.buf = [c.buf EXCEPT ![b] = Append(@, r)]
    BY <2>1
  <2>3. b \in Buffers /\ b \in Places /\ b # "pending" BY PlacesFacts
  <2>4. /\ e.buf[b] = Append(c.buf[b], r) /\ c.buf[b] \in Seq(Held)
        /\ \A q \in Buffers \ {b} : e.buf[q] = c.buf[q]
    BY <1>3, <2>2, <2>3
  <2>5. Extends(c.buf[b], e.buf[b], r) BY <2>4, AppendExtends
  <2>6. Line(c, b) = c.buf[b] /\ Line(e, b) = e.buf[b] BY <2>3 DEF Line
  <2>7. SameBut(c, e, b) BY <2>2, <2>4, PlacesFacts DEF SameBut, Line, Places
  <2> DEFINE y == Entry(e, b, Len(Line(e, b)))
  <2>8. WaitingOf(e) = WaitingOf(c) \cup {y} BY <2>3, <2>5, <2>6, <2>7, WaitingAdded
  <2>9. y = [id |-> c.sent + 1, kind |-> Kind(r.type)]
    <3>1. e.buf[b][Len(e.buf[b])] = r BY <2>5 DEF Extends
    <3> QED BY <2>2, <2>3, <2>6, <3>1 DEF Entry
  <2>10. Kind(r.type) \in {"mem", "pim", "barrier"} BY DEF Kind
  <2> HIDE DEF y
  <2> QED BY <1>1, <1>2, <2>8, <2>9, <2>10
<1> QED BY <1>4, <1>5

ServiceInv == ArrivedInv /\ Whole(ctl)

LEMMA InitServiceInv == Init => ServiceInv
BY InitArrived, InitOnceInv DEF ServiceInv, OnceInv

LEMMA NextServiceInv == ServiceInv /\ [Next]_vars => ServiceInv'
BY NextArrived, NextOnceInv DEF ServiceInv, ArrivedInv, OnceInv

LEMMA WaitingOwed == ServiceInv => Waiting = WaitingOf(ctl)
BY WaitingIsOwed DEF ServiceInv, ArrivedInv, IInv, TypeOK, BufferKinds, Good

LEMMA InitService == Init => Service!Init
<1> SUFFICES ASSUME Init PROVE Service!Init
  OBVIOUS
<1>1. /\ ctl.sent = 0 /\ ctl.done = {} /\ ctl.pending = <<>>
      /\ \A b \in Buffers : ctl.buf[b] = <<>>
  BY DEF Init, InitController
<1>2. \A b \in Places : Line(ctl, b) = <<>> BY <1>1, PlacesFacts DEF Line, Places
<1>3. \A b \in Places : Owed(ctl, b) = {} BY <1>2 DEF Owed
<1>4. WaitingOf(ctl) = {} BY <1>3 DEF WaitingOf
<1>5. Waiting = {} BY <1>4, InitServiceInv, WaitingOwed
<1> QED BY <1>1, <1>5 DEF Service!Init

\* Every step of the controller that drops nothing is one of the service.
LEMMA NextService ==
  ASSUME ServiceInv, ServiceInv', ctl'.lost = {}, [Next]_vars,
         Waiting = WaitingOf(ctl), Waiting' = WaitingOf(ctl')
  PROVE  [Service!Next]_(Service!vars)
<1>1. IInv /\ Good(ctl) /\ Whole(ctl) /\ Arrived(ctl)
  BY DEF ServiceInv, ArrivedInv, IInv, TypeOK, BufferKinds, Good
<1>2. CASE Tick
  <2>1. Retired(ctl, ctl') BY <1>1, <1>2, TicksRetire
  <2>2. PICK some \in SUBSET Waiting :
          /\ NoneCrossed(Waiting, some) /\ Waiting' = Waiting \ some
          /\ ctl'.done = ctl.done \cup { r.id : r \in some }
          /\ ctl'.sent = ctl.sent
    BY <2>1 DEF Retired
  <2>3. Service!Retire(some) BY <2>2 DEF Service!Retire, NoneCrossed
  <2> QED BY <2>3 DEF Service!Next
<1>3. CASE \E m \in Menu : Send(m)
  <2>1. PICK m \in Menu : Send(m) BY <1>3
  <2>2. PICK kind \in {"mem", "pim", "barrier"} :
          /\ Waiting' = Waiting \cup {[id |-> ctl.sent + 1, kind |-> kind]}
          /\ ctl'.sent = ctl.sent + 1 /\ ctl'.done = ctl.done
    BY <1>1, <2>1, SendsAccept
  <2>3. Service!Accept(kind) /\ kind \in Service!Kinds
    BY <2>2 DEF Service!Accept, Service!Kinds
  <2> QED BY <2>3 DEF Service!Next
<1>4. CASE UNCHANGED vars
  <2>1. ctl' = ctl BY <1>4 DEF vars
  <2> QED BY <2>1 DEF Service!vars
<1> QED BY <1>2, <1>3, <1>4 DEF Next

----------------------------------------------------------------------------
\* ServiceKept: as long as no request is dropped for want of an active slot,
\* the controller implements the abstract service.
THEOREM ServiceKept == Spec /\ [](ctl.lost = {}) => ServiceSpec
<1>1. ServiceInv /\ ServiceInv' /\ [Next]_vars /\ (ctl.lost = {})'
        => [Service!Next]_(Service!vars)
  <2> SUFFICES ASSUME ServiceInv, ServiceInv', [Next]_vars, (ctl.lost = {})'
               PROVE  [Service!Next]_(Service!vars)
    OBVIOUS
  <2>1. Waiting = WaitingOf(ctl) BY WaitingOwed
  <2>2. (Waiting = WaitingOf(ctl))' BY WaitingOwed, PTL
  <2> QED BY <2>1, <2>2, NextService
<1> QED
  BY <1>1, InitService, InitServiceInv, NextServiceInv, PTL
  DEF Spec, ServiceSpec, Service!Spec

\* Without reads and writes nothing moves to the active buffer.
OnlyPIM == \A m \in Menu : m.type \in PIMTypes

LEMMA RoundWithoutLoss ==
  ASSUME OnlyPIM, NEW d, NEW c, NEW first, NEW p, Round(d, c, first, p), Within(c, Asked)
  PROVE  AfterIssue(p).lost = c.lost /\ Within(AfterIssue(p), Asked)
<1>1. Within(AfterIssue(p), Asked) /\ (p.found => Chosen(p) \in Asked) BY RoundWithin
<1>2. Sound(p) /\ p.ctl.lost = c.lost BY DEF Round, FromQueues, SameQueues
<1>3. ~Activates(p)
  <2> SUFFICES ASSUME Activates(p) PROVE FALSE
    OBVIOUS
  <2>1. Chosen(p).type \in MemTypes /\ Chosen(p) \in Asked
    BY <1>1, <1>2 DEF Activates, Sound
  <2>2. Chosen(p).type \in PIMTypes \/ Chosen(p).type = "REF" BY <2>1 DEF Asked, OnlyPIM
  <2> QED BY <2>1, <2>2 DEF MemTypes, PIMTypes
<1>4. CASE Finishes(p) BY <1>1, <1>2, <1>4, FinishEffect DEF Finished
<1>5. CASE ~Finishes(p) BY <1>1, <1>2, <1>3, <1>5, NoEffect
<1> QED BY <1>4, <1>5

LEMMA NextWithoutLoss ==
  ASSUME OnlyPIM
  PROVE  AskedInv /\ ctl.lost = {} /\ [Next]_vars => (ctl.lost = {})'
<1> SUFFICES ASSUME AskedInv, ctl.lost = {}, [Next]_vars PROVE ctl'.lost = {}
  OBVIOUS
<1>1. IInv /\ Good(ctl) BY DEF AskedInv, IInv, TypeOK, BufferKinds, Good
<1>2. CASE Tick
  <2> DEFINE d == TickDevice(dev)
             c == Ticked(ctl)
  <2>1. Throw(d, c) \/ Rounds(d, c, dev', ctl') BY <1>1, <1>2, TickRounds
  <2>2. c.lost = {} /\ Within(c, Asked)
    <3>1. Within(c, Asked) BY <1>1, TickedWithin, RefreshesAsked DEF AskedInv
    <3> DEFINE s == ServeCompletedReads(TickClock(ctl))
    <3>2. s.lost = ctl.lost /\ Good(s)
      BY <1>1, TickClockFields, TickClockGood, ServeFields, ServeGood
    <3>3. c = RefreshTick(s) BY DEF Ticked
    <3> HIDE DEF s, c
    <3>4. c.lost = {} BY <3>2, <3>3, RefreshTickFields
    <3> QED BY <3>1, <3>4 DEF c
  <2> HIDE DEF d, c
  <2>3. ASSUME Rounds(d, c, dev', ctl') PROVE ctl'.lost = {}
    <3>1. PICK p, q, first :
            /\ Round(d, c, "any", p) /\ Round(Issue(d, p), AfterIssue(p), first, q)
            /\ ctl' = AfterIssue(q)
      BY <2>3 DEF Rounds
    <3>2. AfterIssue(p).lost = {} /\ Within(AfterIssue(p), Asked)
      BY <2>2, <3>1, RoundWithoutLoss
    <3> QED BY <3>1, <3>2, RoundWithoutLoss
  <2> QED BY <2>1, <2>2, <2>3 DEF Throw
<1>3. CASE \E m \in Menu : Send(m) BY <1>1, <1>3, AcceptedOthers DEF Send
<1>4. CASE UNCHANGED vars BY <1>4 DEF vars
<1> QED BY <1>2, <1>3, <1>4 DEF Next

\* PIMServed: a controller whose front end sends PIM requests only, with or
\* without refreshes, implements the abstract service.
THEOREM PIMServed == ASSUME OnlyPIM PROVE Spec => ServiceSpec
<1>1. Init => AskedInv /\ ctl.lost = {} BY InitAsked DEF Init, InitController
<1>2. AskedInv /\ ctl.lost = {} /\ [Next]_vars => AskedInv' /\ (ctl.lost = {})'
  BY NextAsked, NextWithoutLoss
<1>3. Spec => [](ctl.lost = {}) BY <1>1, <1>2, PTL DEF Spec
<1> QED BY <1>3, ServiceKept, PTL

\* MemoryServed: so does one whose front end sends reads and writes only, if
\* it has an active slot for every bank.
THEOREM MemoryServed ==
  ASSUME MemoryTraffic, Cardinality(Banks) <= ActiveSize + 1
  PROVE  Spec => ServiceSpec
<1>1. NothingLost => ctl.lost = {} BY DEF NothingLost
<1> QED BY <1>1, NoneAreLost, ServiceKept, PTL
=============================================================================

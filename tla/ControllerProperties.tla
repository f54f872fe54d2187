------------------------ MODULE ControllerProperties ------------------------
(***************************************************************************)
(* The properties of the HBM3-PIM controller, its device and its refresh   *)
(* manager.                                                                *)
(***************************************************************************)
EXTENDS HBM3PIMController

\* Where an accepted, unfinished request may be, and the ids found there.
Places == QueueBuffers \cup {"pending"}

Line(c, b) == IF b = "pending" THEN c.pending ELSE c.buf[b]

Ids(c) == [b \in Places |-> [i \in DOMAIN Line(c, b) |-> Line(c, b)[i].id]]

\* Each of the numbers 1 .. n is in one line at one place, or gone; not both.
Partition(lines, n, gone) ==
  /\ \A b, d \in Places : \A i \in DOMAIN lines[b], j \in DOMAIN lines[d] :
       lines[b][i] = lines[d][j] => b = d /\ i = j
  /\ \A b \in Places : \A i \in DOMAIN lines[b] : lines[b][i] \in (1 .. n) \ gone
  /\ \A id \in 1 .. n :
       id \in gone \/ \E b \in Places : \E i \in DOMAIN lines[b] : lines[b][i] = id

\* ExactlyOnce: requests move between five buffers, the list of departing
\* reads and the outside by copy and erase, twice in a tick.  Every accepted
\* request is in one place only, is finished only once it has left them all,
\* and is never forgotten without being counted as lost.
ExactlyOnce == Partition(Ids(ctl), ctl.sent, ctl.done \cup ctl.lost)

\* The requests a front end is waiting for, as PIMService sees them.
Kind(type) == IF type \in MemTypes THEN "mem"
              ELSE IF type = "BARRIER" THEN "barrier" ELSE "pim"

Waiting ==
  (UNION { { [id |-> r.id, kind |-> Kind(r.type)] : r \in Range(ctl.buf[b]) } :
             b \in QueueBuffers })
  \cup { [id |-> e.id, kind |-> "mem"] : e \in Range(ctl.pending) }

Service == INSTANCE PIMService WITH sent <- ctl.sent, waiting <- Waiting,
                                    done <- ctl.done

\* ServiceSpec: the controller implements the abstract service.  Reordering
\* by readiness, rows opened ahead of a barrier and two commands a tick never
\* retire a PIM request across a barrier, retire it twice or drop it.
ServiceSpec == Service!Spec

\* MemoryActive: the active buffer protects rows opened for one bank; a PIM
\* request, whose rows belong to many banks, must never be moved into it.
\* is_pim is kept from an earlier pass or an earlier tick when the active
\* buffer itself is served.
MemoryActive == \A r \in Range(ctl.buf["active"]) : r.type \in MemTypes

\* What each buffer holds: the invariant behind MemoryActive.
Kept(b) == CASE b = "active"   -> MemTypes
             [] b = "read"     -> {"Read"}
             [] b = "write"    -> {"Write"}
             [] b = "pim"      -> PIMTypes
             [] b = "priority" -> {"REF"}

Sorted(c) ==
  \A b \in Buffers : \A i \in DOMAIN c.buf[b] : c.buf[b][i].type \in Kept(b)

BufferKinds == Sorted(ctl)

\* RowHeld: a bank that was opened for a request keeps the row until the
\* request is served, and no two requests are served from one bank at a time
\* ("avoid useless ACTs").
RowHeld ==
  \A i, j \in DOMAIN ctl.buf["active"] :
    LET r == ctl.buf["active"][i]
        s == ctl.buf["active"][j]
    IN  /\ r.row \in dev.open[r.path]
        /\ r.path = s.path => i = j

\* NothingLost: tick() moves a request into the active buffer without looking
\* at the result of enqueue.  With a slot for every bank that never drops one,
\* because a bank has at most one activated request; with fewer slots it may.
NothingLost == Cardinality(Banks) <= ActiveSize + 1 => ctl.lost = {}

\* DataBus: the bursts of the reads on their way to a controller of one pseudo
\* channel do not overlap, although the reads were picked by two scheduling
\* rounds out of two buffers: their departures are nBL apart.
DataBus ==
  NumPC = 1 => \A i, j \in DOMAIN ctl.pending :
    LET e == ctl.pending[i]
        f == ctl.pending[j]
    IN  (i < j /\ ~e.fwd /\ ~f.fwd /\ e.wait > 0) => f.wait >= e.wait + T.nBL

\* FirstReadyWins: the pass of get_best_request over a buffer in order of
\* arrival, with its asymmetric comparisons, amounts to a simple rule.  The
\* head is served if it is ready; else the first ready request that is not
\* behind a barrier (unless it opens or closes rows) and takes no open row from
\* another request of the buffer; and if there is none the head waits.
Competes(views, i) == views[i].moves \/ \A j \in 2 .. i : ~views[j].barrier

Steals(views, i) == /\ ~views[i].hit
                    /\ \E j \in DOMAIN views : /\ views[j].hit
                                               /\ views[j].path = views[i].path

Eligible(views) ==
  { i \in DOMAIN views : /\ views[i].ready
                         /\ i = 1 \/ (Competes(views, i) /\ ~Steals(views, i)) }

FirstReady(views) ==
  views # <<>> => BestOf(views) =
                    { IF Eligible(views) = {} THEN 1 ELSE Min(Eligible(views)) }

FirstReadyWins ==
  \A b \in {"read", "write", "pim"} :
    FirstReady(Views(dev, DropBarrier(ctl.buf[b])))

\* RefreshUndisturbed: for nRFC cycles after an all-bank refresh no command,
\* a second refresh, an activation of one bank or of all of them, opens a bank
\* of the pseudo channel.  since is only forgotten once it has reached nRFC.
RefreshUndisturbed ==
  \A pc \in 0 .. NumPC - 1 :
    dev.since[<< <<pc>>, "REFab" >>] < T.nRFC =>
      \A b \in Banks : b[1] = pc => dev.open[b] = {}

\* RefreshQueued: requests that hold rows open do not keep the refreshes from
\* being served: the priority buffer has room when the next ones are due, and
\* the exception of the refresh manager is not thrown.
RefreshQueued == ~ctl.failed

\* LockStep: the banks of a channel that serves all-bank MACs only open, close
\* and refresh together, one row at a time.
LockStep == \A b, c \in Banks : /\ dev.open[b] = dev.open[c]
                                /\ Cardinality(dev.open[b]) <= 1

\* RowCycle: whatever command opens or closes a bank, directly or as one of
\* the many of an all-bank command, the bank itself goes through the row cycle
\* of the timing table, and activates in one step.
Protocol == INSTANCE BankProtocol WITH
              nRP <- T.nRP, nRAS <- T.nRAS, open <- dev.open, half <- {}, age <- dev.age

RowCycle == Protocol!Spec

=============================================================================

-------------------------- MODULE GenericProperties --------------------------
(***************************************************************************)
(* What the generic and the HBM3 controller owe those who send requests.   *)
(***************************************************************************)
EXTENDS GenericController

InBuffer(b, id) == Cardinality({ i \in DOMAIN ctl.buf[b] : ctl.buf[b][i].id = id })
InPending(id) == Cardinality({ i \in DOMAIN ctl.pending : ctl.pending[i].id = id })

\* A request that was accepted is in one place, and only there, until it is
\* over, through both commands of a cycle and while it moves between buffers;
\* none is lost to a full active buffer.
OnePlace ==
  /\ ctl.lost = {}
  /\ \A id \in 1 .. ctl.sent :
       InBuffer("active", id) + InBuffer("read", id) + InBuffer("write", id) + InPending(id)
         = IF id \in ctl.done THEN 0 ELSE 1

\* The row that was opened for a request is not closed by another request
\* before the request has been served; a refresh may close it.
RowKept ==
  [][\A i \in DOMAIN ctl.buf["active"] :
       LET r == ctl.buf["active"][i]
       IN  r.row \in bank[r.path].rows /\ r.row \notin bank'[r.path].rows =>
             /\ ctl'.buf["priority"] # <<>>
             /\ \A b \in Below(SubSeq(r.path, 1, Rules[std].all)) : bank'[b] = Closed]_allvars

\* Every request is served, in either mode and between refreshes, and so is
\* every refresh: traffic is bounded, so a time must come when all is done.
EveryoneServed == []<>(ctl.done = 1 .. ctl.sent /\ ctl.buf["priority"] = <<>>)

\* "Forward existing write requests to incoming read requests": a read that is
\* not answered by forwarding finds the writes that came before it done.
ReadsSeeWrites ==
  [][\A i \in DOMAIN ctl.buf["read"] : \A b \in {"write", "active"} :
       \A j \in DOMAIN ctl.buf[b] :
         LET r == ctl.buf["read"][i]
             w == ctl.buf[b][j]
         IN  w.type = "Write" /\ SameAddress(w, r) /\ w.id < r.id /\ w.id \notin ctl'.done =>
               ~\E k \in DOMAIN ctl'.pending : ctl'.pending[k].id = r.id]_allvars
=============================================================================

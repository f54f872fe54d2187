----------------------------- MODULE PIMService -----------------------------
(***************************************************************************)
(* What a PIM memory controller promises its front end, with nothing of    *)
(* how it schedules: every accepted request is retired exactly once, in    *)
(* any order but for one rule: of two PIM requests one of which is a       *)
(* barrier, the younger one never retires while the older one waits.       *)
(***************************************************************************)
EXTENDS Integers

VARIABLES sent,      \* the number of requests accepted so far
          waiting,   \* accepted and not retired: [id, kind]
          done       \* the ids of the retired requests

vars == <<sent, waiting, done>>

Kinds == {"mem", "pim", "barrier"}

Init == sent = 0 /\ waiting = {} /\ done = {}

Accept(kind) ==
  /\ sent' = sent + 1
  /\ waiting' = waiting \cup {[id |-> sent + 1, kind |-> kind]}
  /\ UNCHANGED done

\* Leaving r2 behind, r1 would cross a barrier, or be one that is crossed.
Crosses(r1, r2) == /\ r2.id < r1.id
                   /\ r1.kind # "mem" /\ r2.kind # "mem"
                   /\ "barrier" \in {r1.kind, r2.kind}

Retire(some) ==
  /\ \A r1 \in some, r2 \in waiting \ some : ~Crosses(r1, r2)
  /\ waiting' = waiting \ some
  /\ done' = done \cup { r.id : r \in some }
  /\ UNCHANGED sent

Next == \/ \E kind \in Kinds : Accept(kind)
        \/ \E some \in SUBSET waiting : Retire(some)

Spec == Init /\ [][Next]_vars
=============================================================================

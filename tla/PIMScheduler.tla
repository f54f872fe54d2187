---------------------------- MODULE PIMScheduler ----------------------------
(***************************************************************************)
(* The "PIM" request scheduler (scheduler/pim_scheduler.cpp): which request *)
(* of a buffer the controller serves next.  A buffer is a sequence of       *)
(* requests; an iterator is an index into it.                               *)
(***************************************************************************)
EXTENDS HBM3PIMDevice

\* The types a front end can send (Request::Type), and their classes.
MemTypes == {"Read", "Write"}
PIMTypes == {"MAC_AB", "MAC_SB", "MAC_PB", "WR_GB", "MV_SB", "MV_GB",
             "SFM", "SET_MODEL", "SET_HEAD", "BARRIER"}
ReqTypes == MemTypes \cup PIMTypes \cup {"REF"}     \* REF: all-bank-refresh

\* m_request_translations: the command that finishes a request.
FinalCommand ==
  [t \in ReqTypes |->
     CASE t = "Read"      -> "RD"
       [] t = "Write"     -> "WR"
       [] t = "REF"       -> "REFab"
       [] t = "MAC_AB"    -> "MACAB"
       [] t = "MAC_SB"    -> "MACSB"
       [] t = "MAC_PB"    -> "MACPB"
       [] t = "WR_GB"     -> "WRGB"
       [] t = "MV_SB"     -> "MVSB"
       [] t = "MV_GB"     -> "MVGB"
       [] t = "SFM"       -> "SFM"
       [] t = "SET_MODEL" -> "SETM"
       [] t = "SET_HEAD"  -> "SETH"
       [] t = "BARRIER"   -> "BARRIER"]

\* The command that makes progress on request r now.
CommandOf(d, r) == GetPreqCommand(d, FinalCommand[r.type], r.path, r.row)

\* What the scheduler knows of a request: the command stored in it, whether
\* that may issue now, and whether it finds its row open.
View(r, cmd, ready, hit) ==
  [path |-> r.path, arrive |-> r.arrive, barrier |-> r.type = "BARRIER",
   moves |-> cmd \in Opening \cup Closing, ready |-> ready, hit |-> hit]

ViewWith(d, r, cmd) == View(r, cmd, CheckReady(d, cmd, r.path),
                            CheckRowbufferHit(d, cmd, r.path, r.row))

Views(d, buf) ==
  [i \in DOMAIN buf |-> ViewWith(d, buf[i], CommandOf(d, buf[i]))]

\* Mutant of Compare: the younger of two requests of the same cycle wins.
CompareStrict(hits, v1, v2) ==
  IF v1.ready # v2.ready THEN v1.ready \/ (~v2.hit /\ v2.path \in hits)
                         ELSE v1.arrive < v2.arrive

\* PIM::compare of two requests of a buffer whose row hits are on the banks
\* hits: a ready request wins, unless it would cost another request of the
\* buffer its open row; otherwise the older one does.
Compare(hits, v1, v2) ==
  IF v1.ready # v2.ready THEN v1.ready \/ (~v2.hit /\ v2.path \in hits)
                         ELSE v1.arrive <= v2.arrive

\* get_best_request drops a barrier that has reached the head of its buffer.
DropBarrier(buf) ==
  IF buf # <<>> /\ buf[1].type = "BARRIER" THEN Tail(buf) ELSE buf

HitBanks(views) == { views[i].path : i \in { j \in DOMAIN views : views[j].hit } }

\* Mutant of Best: barriers are ignored.
BestIgnoringBarriers(views, hits) ==
  LET scan[i \in DOMAIN views] ==
        IF i = 1 \/ ~Compare(hits, views[scan[i-1]], views[i])
          THEN i ELSE scan[i-1]
  IN  { i \in DOMAIN views : i = scan[Len(views)] }

\* get_best_request after DropBarrier: one pass over the buffer that keeps a
\* candidate.  Behind a barrier only requests that open or close rows compete.
\* The result is the set of the index of the winner, empty for buffer.end().
Best(views, hits) ==
  LET scan[i \in DOMAIN views] ==
        IF i = 1 THEN [at |-> 1, barrier |-> FALSE]
        ELSE LET best == scan[i-1]
                 barrier == best.barrier \/ views[i].barrier
                 wins == ~Compare(hits, views[best.at], views[i])
             IN  [at |-> IF (~barrier \/ views[i].moves) /\ wins
                           THEN i ELSE best.at,
                  barrier |-> barrier]
  IN  { i \in DOMAIN views : i = scan[Len(views)].at }

BestOf(views) == Best(views, HitBanks(views))

BestRequest(d, buf) == BestOf(Views(d, buf))
=============================================================================

------------------------- MODULE SimpleO3Properties -------------------------
(***************************************************************************)
(* What makes the cache and the cores of SimpleO3 fit together.            *)
(***************************************************************************)
EXTENDS SimpleO3

InSet(a) == llc.sets[Index(a)]

\* What the miss-status entries are for, as need_eviction has it ("Due to MSHR ..."):
\* a line is in its set once, and is in flight there exactly as long as it has a
\* miss-status entry, which holds an iterator to it.
InFlightTracked ==
  \A a \in Lines :
    /\ \A i, j \in DOMAIN InSet(a) : InSet(a)[i].addr = a /\ InSet(a)[j].addr = a => i = j
    /\ a \in llc.mshrs <=> \E i \in DOMAIN InSet(a) : InSet(a)[i].addr = a /\ ~InSet(a)[i].ready

\* tick answers a hit through SimpleO3::receive, the function that is called
\* when the memory has answered: it marks the line ready, gives up its
\* miss-status entry and forgets whoever waits.  That is right only as long as
\* no line with a hit to answer was evicted and is being fetched again.
HitsSettled == \A h \in llc.hits : h.addr \notin llc.mshrs

ReadsQueued(a) == Cardinality({ i \in DOMAIN llc.misses :
                                  llc.misses[i].addr = a /\ ~llc.misses[i].isWrite })

\* However many cores ask for a line, and whatever is refused on the way, it is
\* read from the memory once at a time, and only while it is in flight.
FetchedOnce ==
  \A a \in Lines :
    ReadsQueued(a) + memory.reads[a] = IF a \in llc.mshrs THEN 1 ELSE 0

\* A load in a window that is not ready is on its way back to its core, or its
\* line is being fetched and will be passed on to the core.
LoadAwaited ==
  \A c \in Cores : \A i \in DOMAIN cores[c].window :
    LET e == cores[c].window[i]
    IN  ~e.ready =>
          \/ \E h \in llc.hits : h.core = c /\ h.addr = e.addr
          \/ e.addr \in llc.mshrs /\ c \in llc.waiting[e.addr]

\* The simulation ends: every core retires the instructions it was given.
Finishes == <>Finished

=============================================================================

---------------------------- MODULE SimpleO3LLC ----------------------------
(***************************************************************************)
(* The last-level cache of the SimpleO3 processor.  Its state is a record: *)
(*   sets     the lines of each set, the least recently used first         *)
(*   mshrs    the lines being fetched                                      *)
(*   waiting  m_receive_requests: the cores to tell when a line arrives    *)
(*   misses   requests on their way to the memory, in order                *)
(*   hits     requests on their way back to their core; what the due ones  *)
(*            do in a tick does not depend on their order                  *)
(* All accesses to a line are to one address in it, which stands for it:   *)
(* the code keeps m_receive_requests by byte address, and the rest by line.*)
(***************************************************************************)
EXTENDS Bits, Sequences, FiniteSets, SequencesExt

CONSTANTS
  Cores,          \* in the order they are ticked: 1 .. n
  Lines,          \* the addresses, as line numbers
  NumSets,        \* m_set_size
  Associativity,  \* m_associativity
  NumMSHRs,       \* m_num_mshrs
  Latency,        \* m_latency
  ReadSlots, WriteSlots  \* requests the memory takes before it refuses more

ASSUME LLCAssumption ==
  /\ Lines \subseteq Nat
  /\ NumSets \in Nat \ {0} /\ Associativity \in Nat \ {0} /\ Latency \in Nat

EmptyLLC ==
  [ sets    |-> [i \in 0 .. NumSets - 1 |-> <<>>],
    mshrs   |-> {},
    waiting |-> [a \in Lines |-> {}],
    misses  |-> <<>>,
    hits    |-> {} ]

\* get_index: the address masked with m_set_size - 1, worked out once.
Indices == [a \in Lines |-> BitAnd[IntBits][<<a, NumSets - 1>>]]
Index(a) == Indices[a]

\* get_tag: what is above the bits of the index.
Tag(a) == a \div Pow2[Log2(NumSets)]

\* The lines of a set that the code takes for line a.
Matches(set, a) == { i \in DOMAIN set : Tag(set[i].addr) = Tag(a) }

\* check_set_hit: the first of them, unless it is being fetched.
Hit(set, a) == { i \in Matches(set, a) :
                   set[i].ready /\ \A j \in Matches(set, a) : i <= j }

\* A hit moves the line to the end of its set, under the address asked for.
HitAfter(s, c, a, isWrite, latency) ==
  LET set == s.sets[Index(a)]
      i   == CHOOSE j \in Hit(set, a) : TRUE
      new == [addr |-> a, dirty |-> set[i].dirty \/ isWrite, ready |-> TRUE]
  IN  [s EXCEPT !.sets[Index(a)] = Append(RemoveAt(set, i), new),
                !.hits = @ \cup {[in |-> latency, addr |-> a, core |-> c]}]

\* Mutant of SendHit: the core is called a cycle later.
SendHitLate(s, c, a, isWrite) == HitAfter(s, c, a, isWrite, Latency + 1)

SendHit(s, c, a, isWrite) == HitAfter(s, c, a, isWrite, Latency)

\* The set after line a, which is being fetched, is stored to, if this is a store.
Written(set, a, isWrite) ==
  [i \in DOMAIN set |->
     IF set[i].addr = a /\ ~set[i].ready THEN [set[i] EXCEPT !.dirty = @ \/ isWrite] ELSE set[i]]

\* Mutant of SendMSHRHit: the core that asks second is not remembered.
SendMSHRHitUnnoted(s, c, a, isWrite) ==
  [s EXCEPT !.sets[Index(a)] = Written(@, a, isWrite)]

\* Mutant of SendMSHRHit: the line is fetched again.
SendMSHRHitAgain(s, c, a, isWrite) ==
  [s EXCEPT !.waiting[a] = @ \cup {c},
            !.misses = Append(@, [in |-> Latency, addr |-> a, isWrite |-> FALSE])]

\* The line is being fetched already.
SendMSHRHit(s, c, a, isWrite) ==
  [s EXCEPT !.waiting[a] = @ \cup {c}, !.sets[Index(a)] = Written(@, a, isWrite)]

\* No entry, or no line that may be evicted: the core has to try again.
Refused(s, a) ==
  LET set == s.sets[Index(a)]
  IN  \/ Cardinality(s.mshrs) = NumMSHRs
      \/ Len(set) >= Associativity /\ ~\E i \in DOMAIN set : set[i].ready

\* Mutant of Victim: the least recently used line goes, arrived or not.
VictimUnready(set) == CHOOSE i \in DOMAIN set : \A j \in DOMAIN set : i <= j

\* allocate_line: the place of the least recently used line that has arrived.
Victim(set) == CHOOSE i \in DOMAIN set :
                 set[i].ready /\ \A j \in 1 .. i - 1 : ~set[j].ready

\* allocate_line, evict_line: a dirty victim is written back, before the read.
\* need_eviction asserts that the set has no line of the same tag; where it has
\* one and assertions are off, none is evicted.
SendMiss(s, c, a, isWrite) ==
  LET set    == s.sets[Index(a)]
      full   == Len(set) >= Associativity /\ Matches(set, a) = {}
      out    == Victim(set)
      kept   == IF full THEN RemoveAt(set, out) ELSE set
      back   == IF full /\ set[out].dirty
                THEN <<[in |-> Latency, addr |-> set[out].addr, isWrite |-> TRUE]>> ELSE <<>>
  IN  [s EXCEPT !.sets[Index(a)] = Append(kept, [addr |-> a, dirty |-> isWrite, ready |-> FALSE]),
                !.mshrs = @ \cup {a},
                !.waiting[a] = {c},
                !.misses = @ \o back \o <<[in |-> Latency, addr |-> a, isWrite |-> FALSE]>>]

\* send: what it returns, and the cache after it.
Send(s, c, a, isWrite) ==
  IF Hit(s.sets[Index(a)], a) # {} THEN [ok |-> TRUE, llc |-> SendHit(s, c, a, isWrite)]
  ELSE IF a \in s.mshrs THEN [ok |-> TRUE, llc |-> SendMSHRHit(s, c, a, isWrite)]
  ELSE IF Refused(s, a) THEN [ok |-> FALSE, llc |-> s]
  ELSE [ok |-> TRUE, llc |-> SendMiss(s, c, a, isWrite)]

\* Every entry of a set or of a window that names one of the lines of A is ready.
Readied(entries, A) ==
  [i \in DOMAIN entries |-> [entries[i] EXCEPT !.ready = @ \/ entries[i].addr \in A]]

\* Nobody waits for the lines of A, and none is being fetched.
Untracked(s, A) ==
  [s EXCEPT !.mshrs = @ \ A, !.waiting = [a \in Lines |-> IF a \in A THEN {} ELSE @[a]]]

\* Mutant of Received: the lines stay in flight.
ReceivedUnready(s, A) == Untracked(s, A)

\* receive, and the loop over m_receive_requests of SimpleO3::receive: the
\* cache after the lines of A were answered, and everyone who waited was told.
Received(s, A) ==
  [Untracked(s, A) EXCEPT !.sets = [k \in DOMAIN @ |-> Readied(@[k], A \cap s.mshrs)]]

----------------------------------------------------------------------------
(* tick                                                                    *)

\* A request waits until in is 0.
Aged(r) == [r EXCEPT !.in = IF @ > 0 THEN @ - 1 ELSE 0]

\* The memory: how many reads of a line it has, and how many writes.
Idle == [reads |-> [a \in Lines |-> 0], writes |-> 0]

NumReads(mem) == FoldFunction(+, 0, mem.reads)

Takes(mem, r) ==
  IF r.isWrite THEN mem.writes < WriteSlots ELSE NumReads(mem) < ReadSlots

\* One request of the miss list: st is what is left of the list, and the memory.
SendOne(st, r) ==
  IF r.in > 0 \/ ~Takes(st.mem, r) THEN [st EXCEPT !.left = Append(@, r)]
  ELSE IF r.isWrite THEN [st EXCEPT !.mem.writes = @ + 1]
  ELSE [st EXCEPT !.mem.reads[r.addr] = @ + 1]

\* A refused request stays where it is; those behind it are sent all the same.
SendMisses(s, mem) ==
  LET sent[n \in 0 .. Len(s.misses)] ==
        IF n = 0 THEN [left |-> <<>>, mem |-> mem] ELSE SendOne(sent[n - 1], Aged(s.misses[n]))
  IN  sent[Len(s.misses)]

\* The hit list: the core of a request that is due is called by the function
\* that is called for misses, after whoever waits for the line was forgotten.
Due(s) == { h \in s.hits : h.in <= 1 }

CallHits(s) ==
  [Received(s, { h.addr : h \in Due(s) }) EXCEPT !.hits = { Aged(h) : h \in @ \ Due(s) }]
=============================================================================

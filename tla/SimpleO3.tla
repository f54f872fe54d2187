------------------------------ MODULE SimpleO3 ------------------------------
(***************************************************************************)
(* The SimpleO3 processor: cores that issue the instructions of a trace    *)
(* into a window and retire them in order, a translation of their          *)
(* addresses, the cache they share, and a memory that answers reads in     *)
(* any order.                                                              *)
(*                                                                         *)
(* A tick of the front end ticks the cache, then each core.  Nothing runs  *)
(* in between, so that the tick is taken in steps, in that order.          *)
(***************************************************************************)
EXTENDS SimpleO3LLC

CONSTANTS
  Traces,    \* the traces a core may run: sequences of instructions
  IPC,       \* instructions inserted and retired in a cycle
  Depth,     \* of the instruction window
  Expected,  \* m_num_expected_insts
  Translation, \* the translations that may be configured: "None", "Random"
  Reserved   \* pages that are not given out

VARIABLES
  turn,    \* 0: the cache is next, c: core c is next
  llc,     \* m_llc
  memory,  \* what the memory has taken
  cores,   \* by core: its trace, the instruction fetched, the window, the number
           \* retired
  pages    \* m_translation: by core, the physical page of a virtual one

vars == <<turn, llc, memory, cores, pages>>

None == -1

\* Trace::Inst
Instructions ==
  [bubbles : Nat, load : Lines \cup {None}, store : Lines \cup {None}]

ASSUME SimpleO3Assumption ==
  /\ Traces \subseteq Seq(Instructions) \ {<<>>}
  /\ Cores = 1 .. Cardinality(Cores)
  /\ IPC \in Nat \ {0} /\ Depth \in Nat \ {0} /\ Expected \in Nat
  /\ Translation \subseteq {"None", "Random"} /\ Reserved \subseteq Lines

\* Trace::get_next_inst, into the core.
Fetched(core) ==
  LET inst == core.trace[core.next]
  IN  [core EXCEPT !.bubbles = inst.bubbles, !.load = inst.load, !.store = inst.store,
                   !.next = (@ % Len(core.trace)) + 1]

NewCore(trace) ==
  Fetched([trace |-> trace, bubbles |-> 0, load |-> None, store |-> None, next |-> 1,
           window |-> <<>>, retired |-> 0])

\* set_ready, for every line of A.
SetReady(core, A) == [core EXCEPT !.window = Readied(@, A)]

\* The number of entries that are retired: they are ready up to there.
NumRetired(window) ==
  CHOOSE n \in 0 .. Len(window) :
    /\ \A i \in 1 .. n : window[i].ready
    /\ n <= IPC
    /\ n = Len(window) \/ n = IPC \/ ~window[n + 1].ready

Retire(core) ==
  LET n == NumRetired(core.window)
  IN  [core EXCEPT !.window = SubSeq(@, n + 1, Len(@)),
                   !.retired = IF @ + n > Expected THEN Expected ELSE @ + n]

\* Non-memory instructions go first, as many as the cycle and the window take.
Inserted(core) ==
  LET room == Depth - Len(core.window)
  IN  CHOOSE n \in 0 .. core.bubbles :
        n <= IPC /\ n <= room /\ (n = core.bubbles \/ n = IPC \/ n = room)

InsertBubbles(core) ==
  LET n == Inserted(core)
  IN  [core EXCEPT !.bubbles = @ - n,
                   !.window = @ \o [i \in 1 .. n |-> [addr |-> None, ready |-> TRUE]]]

----------------------------------------------------------------------------
(* translate                                                               *)

\* Without translation every page is mapped to itself.
Pages(translation) == [c \in Cores |-> IF translation = "None" THEN [v \in Lines |-> v] ELSE <<>>]

\* Pages and lines are the same here: a page of one line.  No page is ever
\* marked as assigned, so that any page that is not reserved may be given.
Translations(c, v) ==
  IF v \in DOMAIN pages[c] THEN {[addr |-> pages[c][v], pages |-> pages]}
  ELSE { [addr |-> p,
          pages |-> [pages EXCEPT ![c] = [u \in DOMAIN @ \cup {v} |-> IF u = v THEN p ELSE @[u]]]] :
         p \in Lines \ Reserved }

----------------------------------------------------------------------------
Init ==
  /\ turn = 0
  /\ llc = EmptyLLC
  /\ memory = Idle
  /\ \E chosen \in [Cores -> Traces] : cores = [c \in Cores |-> NewCore(chosen[c])]
  /\ \E translation \in Translation : pages = Pages(translation)

\* is_finished
Finished == \A c \in Cores : cores[c].retired = Expected

After(c) == IF c + 1 \in Cores THEN c + 1 ELSE 0

TickLLC ==
  LET sent == SendMisses(llc, memory)
  IN  /\ turn = 0 /\ ~Finished
      /\ turn' = After(0)
      /\ memory' = sent.mem
      /\ llc' = [CallHits(llc) EXCEPT !.misses = sent.left]
      /\ cores' = [c \in Cores |-> SetReady(cores[c], { h.addr : h \in { g \in Due(llc) : g.core = c } })]
      /\ UNCHANGED pages

\* The cycle or the window has no place left for the load.
NoPlace(core, new) ==
  \/ new.bubbles > 0
  \/ new.load # None /\ (Inserted(core) = IPC \/ Len(new.window) = Depth)

Stall(c, core, new) ==
  /\ NoPlace(core, new)
  /\ cores' = [cores EXCEPT ![c] = new]
  /\ UNCHANGED <<llc, pages>>

SendLoad(c, core, new) ==
  /\ ~NoPlace(core, new) /\ new.load # None
  /\ \E t \in Translations(c, new.load) :
       LET answer == Send(llc, c, t.addr, FALSE)
           issued == [new EXCEPT !.window = Append(@, [addr |-> t.addr, ready |-> FALSE]),
                                 !.load = None]
       IN  /\ pages' = t.pages
           /\ llc' = answer.llc
           /\ cores' = [cores EXCEPT ![c] =
                IF ~answer.ok THEN new
                ELSE IF new.store # None THEN issued
                ELSE Fetched(issued)]

SendStore(c, core, new) ==
  /\ ~NoPlace(core, new) /\ new.load = None /\ new.store # None
  /\ \E t \in Translations(c, new.store) :
       LET answer == Send(llc, c, t.addr, TRUE)
       IN  /\ pages' = t.pages
           /\ llc' = answer.llc
           /\ cores' = [cores EXCEPT ![c] = IF answer.ok THEN Fetched(new) ELSE new]

TickCore(c) ==
  LET core == Retire(cores[c])
      new  == InsertBubbles(core)
  IN  /\ turn = c
      /\ turn' = After(c)
      /\ Stall(c, core, new) \/ SendLoad(c, core, new) \/ SendStore(c, core, new)
      /\ UNCHANGED memory

\* The memory answers a read: SimpleO3::receive.
Answer(a) ==
  /\ turn = 0 /\ memory.reads[a] > 0
  /\ memory' = [memory EXCEPT !.reads[a] = @ - 1]
  /\ llc' = Received(llc, {a})
  /\ cores' = [c \in Cores |-> IF c \in llc.waiting[a] THEN SetReady(cores[c], {a}) ELSE cores[c]]
  /\ UNCHANGED <<turn, pages>>

Drain ==
  /\ turn = 0 /\ memory.writes > 0
  /\ memory' = [memory EXCEPT !.writes = @ - 1]
  /\ UNCHANGED <<turn, llc, cores, pages>>

Next == TickLLC \/ (\E c \in Cores : TickCore(c)) \/ (\E a \in Lines : Answer(a)) \/ Drain

Spec == Init /\ [][Next]_vars

\* The main loop ticks the processor, and the memory serves what it took.
FairSpec ==
  /\ Spec
  /\ WF_vars(TickLLC) /\ WF_vars(\E c \in Cores : TickCore(c)) /\ SF_vars(Drain)
  /\ \A a \in Lines : SF_vars(Answer(a))
=============================================================================

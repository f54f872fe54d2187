-------------------------- MODULE TraceSimulation --------------------------
(***************************************************************************)
(* The whole simulation of main.cpp: a trace front end, the memory system  *)
(* that routes its requests, and a controller per channel.  A controller   *)
(* is what PIMService promises of it, with its three bounded buffers.      *)
(***************************************************************************)
EXTENDS Integers, Sequences, FiniteSets

CONSTANTS
  Traces,        \* traces that may be loaded: sequences of [type, channel, addr]
  Channels,      \* 1 .. the number of controllers
  BufSize,       \* max_size of a read, write and PIM buffer
  frontend_tick, \* clock ratios of the front end and the memory system
  mem_tick,
  nREFI          \* memory ticks between the refreshes of a channel

VARIABLES
  trace,         \* m_trace; its position is m_trace_count, as nothing is sent twice
  count,         \* m_trace_count
  sent,          \* channel -> requests accepted
  waiting,       \* channel -> [id, kind, line, queued] accepted and not retired
  done,          \* channel -> ids of those retired
  stats,         \* s_num_..., by type
  refreshing,    \* channels with refreshes in their priority buffer
  clock,         \* m_clk of the controllers % nREFI
  step,          \* i % tick_mult
  ticks,         \* ticks of the front end and the memory since step was 0
  turn,          \* what comes next: "front", "memory", "check", or "ended"
  controller     \* the controller the memory system ticks next

Types == {"Read", "Write", "PIM_MAC_AB", "PIM_WR_GB", "PIM_BARRIER"}

vars == <<trace, count, sent, waiting, done, stats, refreshing, clock, step, ticks, turn,
          controller>>

ASSUME TraceSimulationAssumption ==
  /\ Channels = 1 .. Cardinality(Channels) /\ Channels # {}
  /\ BufSize \in Nat
  /\ frontend_tick \in Nat \ {0} /\ mem_tick \in Nat \ {0} /\ nREFI \in Nat \ {0}
  /\ Traces \subseteq Seq([type : Types, channel : Channels, addr : Nat])

Controller(c) == INSTANCE PIMService WITH sent <- sent[c], waiting <- waiting[c], done <- done[c]

tick_mult == frontend_tick * mem_tick

----------------------------------------------------------------------------
(* What a controller does with a request, as its buffers go.               *)

\* Mutant of Kind: a barrier is a PIM request like others.
KindWithoutBarrier(type) == IF type \in {"Read", "Write"} THEN "mem" ELSE "pim"

Kind(type) == CASE type \in {"Read", "Write"} -> "mem"
                [] type = "PIM_BARRIER"       -> "barrier"
                [] OTHER                      -> "pim"

\* Requests of a type share a buffer, and all PIM requests do.
BufferOf(type) == IF Kind(type) = "mem" THEN type ELSE "PIM"

Queued(c, buffer) ==
  { r \in waiting[c] : r.queued /\ BufferOf(trace[r.line].type) = buffer }

\* A read of an address in the write buffer needs no place.
Forwards(line) ==
  /\ line.type = "Read"
  /\ \E r \in Queued(line.channel, "Write") : trace[r.line].addr = line.addr

Accepts(line) ==
  Forwards(line) \/ Cardinality(Queued(line.channel, BufferOf(line.type))) <= BufSize

----------------------------------------------------------------------------
(* The front ends and the memory system's send.                            *)

is_finished(n) == n >= Len(trace)

\* Statistics: barriers are not counted; GenericDRAM counts the types it has.
Counted(s, type) == IF type = "PIM_BARRIER" THEN s ELSE [s EXCEPT ![type] = @ + 1]

Line == trace[count + 1]

Sends == ~is_finished(count) /\ Accepts(Line)

\* One turn of the loop in tick: the line is accepted, ...
SendLine ==
  LET c == Line.channel
  IN  /\ Sends
      /\ count' = count + 1
      /\ sent' = [sent EXCEPT ![c] = @ + 1]
      /\ waiting' = [waiting EXCEPT ![c] = @ \cup {[id |-> sent[c] + 1, kind |-> Kind(Line.type),
                                                   line |-> count + 1, queued |-> ~Forwards(Line)]}]
      /\ stats' = Counted(stats, Line.type)

\* Mutant of LastTurn: a line that is refused is given up.
LastTurnDropping ==
  /\ ~Sends
  /\ count' = IF is_finished(count) THEN count ELSE count + 1
  /\ UNCHANGED <<sent, waiting, stats>>

\* ... or it is refused, and tried again at the next tick, or there is none.
LastTurn ==
  /\ ~Sends
  /\ UNCHANGED <<count, sent, waiting, stats>>

----------------------------------------------------------------------------
(* The main loop.                                                          *)

Init ==
  /\ trace \in Traces
  /\ count = 0
  /\ sent = [c \in Channels |-> 0]
  /\ waiting = [c \in Channels |-> {}]
  /\ done = [c \in Channels |-> {}]
  /\ stats = [t \in Types \ {"PIM_BARRIER"} |-> 0]
  /\ refreshing = {} /\ clock = 0
  /\ step = 0
  /\ ticks = [front |-> 0, memory |-> 0]
  /\ turn = "front"
  /\ controller = 1

\* Mutant of FrontTicks: the ratios are swapped.
FrontTicksSwapped == step % frontend_tick = 0

FrontTicks == step % mem_tick = 0

MemoryTicks == step % frontend_tick = 0

FrontEnd ==
  /\ turn = "front"
  /\ \/ FrontTicks /\ SendLine /\ UNCHANGED <<turn, ticks>>
     \/ /\ FrontTicks /\ LastTurn
        /\ ticks' = [ticks EXCEPT !.front = @ + 1]
        /\ turn' = IF MemoryTicks THEN "memory" ELSE "check"
     \/ /\ ~FrontTicks
        /\ turn' = IF MemoryTicks THEN "memory" ELSE "check"
        /\ UNCHANGED <<count, sent, waiting, stats, ticks>>
  /\ UNCHANGED <<trace, done, refreshing, clock, step, controller>>

\* Refreshes of the channel come due, and they are served by the time the next
\* ones are due: RefreshQueued of ControllerProperties, for a priority buffer that
\* has room for those of one interval.
Refreshes(c) ==
  LET now    == (clock + 1) % nREFI
      queued == IF now = 0 THEN refreshing \cup {c} ELSE refreshing
  IN  /\ refreshing' \in {queued, queued \ {c}}
      /\ now = nREFI - 1 => c \notin refreshing'

\* A controller's tick: some requests leave their buffers, some are over.
Tick(c) ==
  /\ turn = "memory" /\ controller = c
  /\ Refreshes(c)
  /\ \E over \in SUBSET waiting[c] :
     \E moved \in SUBSET { r \in waiting[c] \ over : r.queued /\ r.kind = "mem" } :
       /\ \A r1 \in over, r2 \in waiting[c] \ over : ~Controller(c)!Crosses(r1, r2)
       /\ waiting' = [waiting EXCEPT ![c] = (@ \ (over \cup moved))
                                             \cup { [r EXCEPT !.queued = FALSE] : r \in moved }]
       /\ done' = [done EXCEPT ![c] = @ \cup { r.id : r \in over }]
  /\ IF c + 1 \in Channels
       THEN controller' = c + 1 /\ UNCHANGED <<turn, ticks, clock>>
       ELSE /\ controller' = 1
            /\ turn' = "check"
            /\ clock' = (clock + 1) % nREFI
            /\ ticks' = [ticks EXCEPT !.memory = @ + 1]
  /\ UNCHANGED <<trace, count, sent, stats, step>>

is_pending == refreshing # {} \/ \E c \in Channels : waiting[c] # {}

\* Mutant of Ends: the front end alone decides.
EndsAtOnce == is_finished(count)

\* Another: it waits for a line behind the last one.
EndsPastLast == count > Len(trace) /\ ~is_pending

Ends == is_finished(count) /\ ~is_pending

Check ==
  /\ turn = "check"
  /\ \/ Ends /\ turn' = "ended" /\ UNCHANGED <<step, ticks>>
     \/ /\ ~Ends /\ turn' = "front"
        /\ step' = (step + 1) % tick_mult
        /\ ticks' = IF step' = 0 THEN [front |-> 0, memory |-> 0] ELSE ticks
  /\ UNCHANGED <<trace, count, sent, waiting, done, stats, refreshing, clock, controller>>

Next == FrontEnd \/ (\E c \in Channels : Tick(c)) \/ Check

Spec == Init /\ [][Next]_vars

Retires(c) == Tick(c) /\ done' # done

\* The loop never stops by itself, and a controller retires what it accepted:
\* AllServed of ControllerLiveness.
FairSpec == Spec /\ WF_vars(Next) /\ \A c \in Channels : SF_vars(Retires(c))

----------------------------------------------------------------------------
(* Properties.                                                             *)

LinesTo(c, n) == { i \in 1 .. n : trace[i].channel = c }

\* LinesInOrder: whatever was refused and tried again, the k-th request of a
\* channel is the k-th line of the trace for it, and no line is left out.
LinesInOrder ==
  \A c \in Channels :
    /\ sent[c] = Cardinality(LinesTo(c, count))
    /\ \A r \in waiting[c] : trace[r.line].channel = c /\ r.id = Cardinality(LinesTo(c, r.line))

\* BarriersKept: a PIM line behind a barrier of its channel is not over while a
\* PIM line before that barrier is not, retries and full buffers included.
BarriersKept ==
  \A i, b, j \in 1 .. count :
    /\ i < b /\ b < j
    /\ trace[b].type = "PIM_BARRIER"
    /\ trace[i].channel = trace[b].channel /\ trace[j].channel = trace[b].channel
    /\ Kind(trace[i].type) = "pim" /\ Kind(trace[j].type) = "pim"
    => LET c == trace[b].channel
       IN  Cardinality(LinesTo(c, j)) \in done[c] => Cardinality(LinesTo(c, i)) \in done[c]

\* EndsDone: the program ends when every line has been served and no refresh is
\* queued, and the totals it prints are those of the trace.
EndsDone ==
  turn = "ended" =>
    /\ refreshing = {}
    /\ \A c \in Channels : done[c] = 1 .. Cardinality(LinesTo(c, Len(trace)))
    /\ \A t \in DOMAIN stats : stats[t] = Cardinality({ i \in DOMAIN trace : trace[i].type = t })

\* RatioKept: of every tick_mult steps the front end ticks in frontend_tick and
\* the memory system in mem_tick.
RatioKept ==
  [][step' # step /\ step' = 0 => ticks = [front |-> frontend_tick, memory |-> mem_tick]]_vars

\* Terminates: the program ends, although refreshes come due while it waits for
\* the last lines.
Terminates == <>(turn = "ended")
=============================================================================

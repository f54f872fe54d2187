------------------------- MODULE ControllerLiveness -------------------------
(***************************************************************************)
(* The HBM3-PIM controller under a clock that never stops.                 *)
(*                                                                         *)
(* The main loop of main.cpp ticks the memory system for ever while        *)
(* something is pending.  clk is m_clk modulo 2: it makes every tick a     *)
(* step of its own, also one that changes nothing else, so that a          *)
(* controller that is stuck keeps ticking instead of dropping out of the   *)
(* fairness condition.                                                     *)
(***************************************************************************)
EXTENDS ControllerProperties

VARIABLE clk

ClockTick == ~ctl.failed /\ clk' = 1 - clk

LiveInit == Init /\ clk = 0

LiveTick == Tick /\ ClockTick

LiveSend(m) == Send(m) /\ UNCHANGED clk

LiveNext == LiveTick \/ \E m \in Menu : LiveSend(m)

LiveSpec == LiveInit /\ [][LiveNext]_<<vars, clk>> /\ WF_clk(ClockTick)

\* AllServed: every accepted request finishes.  The program ends only when
\* nothing is pending, and a core waits for the callback of its read.
AllServed == \A id \in 1 .. MaxRequests : ctl.sent >= id ~> id \in ctl.done
=============================================================================

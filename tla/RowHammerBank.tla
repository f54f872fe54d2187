--------------------------- MODULE RowHammerBank ---------------------------
(***************************************************************************)
(* What the RowHammer mitigations of dram_controller/impl/plugin/ work on: *)
(* one bank whose rows are activated, and the controller's priority buffer *)
(* that takes the preventive requests a plugin sends.                      *)
(*                                                                         *)
(* A plugin's update is called once per cycle, with the command that was   *)
(* issued, if any.  Every table of a plugin is per bank (the row-count     *)
(* cache of Hydra, per rank), so one bank shows what a plugin does.        *)
(***************************************************************************)
EXTENDS Integers, FiniteSets

CONSTANTS
  Plugins,      \* the mitigations configured
  NumRows,      \* rows of the bank
  Threshold,    \* activations a row may have before its neighbours are refreshed
  PriorityRoom  \* requests m_priority_buffer takes: one more than its max_size

VARIABLES
  plugin,     \* the mitigation loaded
  count,      \* its activation counts, of the rows (or placeholders) it tracks
  spill,      \* the spillover counter of Graphene and of the row swap
  waiting,    \* requests in the priority buffer
  acts,       \* history: activations of a row since its counts were last reset
              \* or its neighbours' refresh was accepted
  lost        \* history: rows whose refresh the priority buffer did not take;
              \* their activations are not followed until one is taken

bankvars == <<plugin, count, spill, waiting, acts, lost>>

Rows == 0 .. NumRows - 1

\* No command opened a row in this cycle.
NoRow == -1

AllPlugins == {"Graphene", "OracleRH", "PARA", "TWiCe", "TRR", "Hydra", "RRS"}

ASSUME RowHammerAssumption ==
  /\ Plugins \subseteq AllPlugins
  /\ NumRows \in Nat /\ Threshold \in Nat /\ PriorityRoom \in Nat

NoActs == [r \in Rows |-> 0]

----------------------------------------------------------------------------
\* A function without, or with another value at, one of its arguments.
Without(f, x) == [y \in DOMAIN f \ {x} |-> f[y]]
With(f, x, v) == [y \in DOMAIN f \cup {x} |-> IF y = x THEN v ELSE f[y]]

\* priority_send, n times; a request the buffer has no place for is dropped.
SendAll(n) == waiting' = IF waiting + n <= PriorityRoom THEN waiting + n ELSE PriorityRoom

\* A row was activated and nothing came of it.
Counted(a, row) ==
  /\ acts' = IF row \in lost THEN a ELSE [a EXCEPT ![row] = @ + 1]
  /\ UNCHANGED lost

\* A row was activated and its victim-row refresh was sent after n other
\* requests.  The code does not look at what priority_send returns.
RefreshVictims(a, row, n) ==
  /\ SendAll(n + 1)
  /\ IF waiting + n < PriorityRoom
     THEN lost' = lost \ {row}
     ELSE lost' = lost \cup {row}
  /\ acts' = [a EXCEPT ![row] = 0]

\* The controller serves a request of the priority buffer.
Serve ==
  /\ waiting > 0
  /\ waiting' = waiting - 1
  /\ UNCHANGED <<plugin, count, spill, acts, lost>>
=============================================================================

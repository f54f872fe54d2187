---------------------------- MODULE RowTrackers ----------------------------
(***************************************************************************)
(* The mitigations that keep little state: OracleRH counts every row,      *)
(* PARA none, TWiCe prunes the rows that are activated seldom, and TRR     *)
(* tracks a few rows and evicts the least activated one.                   *)
(***************************************************************************)
EXTENDS RowHammerBank

CONSTANTS
  PruneRate,  \* m_twice_pruning_interval_threshold, activations per refresh
  MaxRefs,    \* bound: refreshes followed
  TRRSize     \* m_size, the entries of a TRR table

VARIABLES
  life,      \* TWiCe: refreshes an entry has survived
  refs,      \* history: all-bank refreshes so far
  least,     \* TRR: m_min_act_row_addr
  stopped    \* the program exited, hangs, or what it does is undefined

trackervars == <<life, refs, least, stopped>>

ASSUME RowTrackersAssumption ==
  PruneRate \in Nat /\ MaxRefs \in Nat /\ TRRSize \in Nat

\* The all-bank refresh of the rank, in the place of a row.
Refresh == -2

----------------------------------------------------------------------------
(* OracleRH: a counter for every row, cleared when the rank is refreshed.  *)

OracleActivate(row) ==
  LET n == IF row \in DOMAIN count THEN count[row] + 1 ELSE 1
  IN  \* A row's first activation is not compared with the threshold.
      IF row \in DOMAIN count /\ n >= Threshold
      THEN /\ count' = [count EXCEPT ![row] = 0]
           /\ RefreshVictims(acts, row, 0)
      ELSE /\ count' = With(count, row, n)
           /\ UNCHANGED waiting /\ Counted(acts, row)

OracleRefresh ==
  /\ count' = <<>>
  /\ acts' = NoActs
  /\ UNCHANGED <<waiting, lost>>

OracleUpdate(cmd) ==
  /\ plugin = "OracleRH"
  /\ IF cmd = Refresh THEN OracleRefresh ELSE OracleActivate(cmd)
  /\ UNCHANGED <<plugin, spill, trackervars>>

----------------------------------------------------------------------------
(* PARA: a preventive refresh with some probability.  Bound: activations   *)
(* of a row are followed up to the threshold.                              *)

PARAUpdate(row) ==
  /\ plugin = "PARA" /\ row \in Rows
  /\ \/ RefreshVictims(acts, row, 0)
     \/ acts[row] < Threshold /\ UNCHANGED waiting /\ Counted(acts, row)
  /\ UNCHANGED <<plugin, count, spill, trackervars>>

----------------------------------------------------------------------------
(* TWiCe.                                                                  *)

TWiCePrune(row) == count[row] < life[row] * PruneRate

TWiCeRefresh ==
  LET kept == { r \in DOMAIN count : ~TWiCePrune(r) }
  IN  /\ refs < MaxRefs
      /\ refs' = refs + 1
      /\ count' = [r \in kept |-> count[r]]
      /\ life' = [r \in kept |-> life[r] + 1]
      /\ UNCHANGED <<waiting, acts, lost>>

TWiCeActivate(row) ==
  /\ UNCHANGED refs
  /\ \/ /\ row \notin DOMAIN count
        /\ count' = With(count, row, 1) /\ life' = With(life, row, 0)
        /\ UNCHANGED waiting /\ Counted(acts, row)
     \/ /\ row \in DOMAIN count
        /\ count[row] + 1 < Threshold
        /\ count' = [count EXCEPT ![row] = @ + 1]
        /\ UNCHANGED <<life, waiting>> /\ Counted(acts, row)
     \/ /\ row \in DOMAIN count
        /\ count[row] + 1 >= Threshold
        /\ count' = Without(count, row) /\ life' = Without(life, row)
        /\ RefreshVictims(acts, row, 0)

TWiCeUpdate(cmd) ==
  /\ plugin = "TWiCe"
  /\ IF cmd = Refresh THEN TWiCeRefresh ELSE TWiCeActivate(cmd)
  /\ UNCHANGED <<plugin, spill, least, stopped>>

----------------------------------------------------------------------------
(* TRR.  Its table is never acted upon (processRFM is not called), so the  *)
(* entry with the most activations is left out.  Bound: rows are counted   *)
(* up to the threshold.                                                    *)

TRRCount(row) ==
  /\ row \in DOMAIN count
  /\ count' = [count EXCEPT ![row] = @ + 1]
  /\ LET smaller == { r \in DOMAIN count : count'[r] < count'[row] }
     IN  \/ row = least /\ smaller # {} /\ least' \in smaller
         \/ (row # least \/ smaller = {}) /\ UNCHANGED least
  /\ UNCHANGED stopped

TRRInsert(row) ==
  /\ row \notin DOMAIN count
  /\ Cardinality(DOMAIN count) < TRRSize
  /\ count' = With(count, row, 1)
  /\ least' = row
  /\ UNCHANGED stopped

\* The newcomer inherits the count; least goes on naming the row that left.
\* Taking an entry out that is not there is undefined.
TRREvict(row) ==
  /\ row \notin DOMAIN count
  /\ Cardinality(DOMAIN count) >= TRRSize
  /\ \/ /\ least \in DOMAIN count
        /\ count' = With(Without(count, least), row, count[least])
        /\ UNCHANGED stopped
     \/ /\ least \notin DOMAIN count
        /\ stopped' = TRUE
        /\ UNCHANGED count
  /\ UNCHANGED least

TRRUpdate(row) ==
  /\ plugin = "TRR" /\ row \in Rows /\ ~stopped
  /\ \A r \in DOMAIN count : count[r] < Threshold
  /\ TRRCount(row) \/ TRRInsert(row) \/ TRREvict(row)
  /\ UNCHANGED <<plugin, spill, waiting, acts, lost, life, refs>>
=============================================================================

------------------------------ MODULE RowSwap ------------------------------
(***************************************************************************)
(* Randomized row-swap: a hot row (its tracker is Graphene's, but starts   *)
(* empty) changes places with a row picked at random, and the row          *)
(* indirection table of the address mapper sends its requests after it.    *)
(* Rows are those of the chip: an activation is seen after the             *)
(* indirection.                                                            *)
(***************************************************************************)
EXTENDS RowHammerBank

CONSTANTS
  HotEntries,    \* m_num_hrt_entries
  RITEntries,    \* m_num_rit_entries
  SwapRequests,  \* requests of one swap: two reads and two writes of a row
  MaxCount       \* bound: activations of a hot row

VARIABLES
  rit,        \* m_row_indirection_table: where a row's data is
  locked,     \* the rows of it that were swapped in this epoch
  holds,      \* history: the row whose data a row of the chip holds
  reswapped,  \* history: a row was swapped a second time in an epoch (bound: the
              \* table is followed up to there)
  halted      \* the program exited, or loops in get_rand_row

swapvars == <<rit, locked, holds, reswapped, halted>>

ASSUME RowSwapAssumption ==
  /\ HotEntries \in Nat /\ RITEntries \in Nat /\ SwapRequests \in Nat
  /\ MaxCount \in Nat /\ Threshold # 0

\* The random number may be the number of rows itself.
SwapRows == 0 .. NumRows

Swapped(h, a, b) == [h EXCEPT ![a] = h[b], ![b] = h[a]]

\* A table of the mapper: to and keep stand for rit and locked.
Inserted(t, src, dst) ==
  [to |-> With(With(t.to, src, dst), dst, src), keep |-> t.keep \cup {src, dst}]
Removed(t, src, dst) ==
  [to |-> Without(Without(t.to, src), dst), keep |-> t.keep \ {src, dst}]
TooLarge(t) == Cardinality(DOMAIN t.to) > RITEntries

\* The hot-row tracker after an activation; empty if it only spills over.
Tracked(c, s, row) ==
  IF row \in DOMAIN c THEN { [c EXCEPT ![row] = @ + 1] }
  ELSE IF Cardinality(DOMAIN c) < HotEntries THEN { With(c, row, 1) }
  ELSE { With(Without(c, old), row, s + 1) : old \in { r \in DOMAIN c : c[r] = s } }

\* get_rand_row
Fresh(hot, t, row) == SwapRows \ (DOMAIN hot \cup DOMAIN t.to \cup {row})

\* get_unswap_pair
Unswappable(hot, t) ==
  { r \in DOMAIN t.to \ t.keep : r \notin DOMAIN hot /\ t.to[r] \notin DOMAIN hot }

\* What there is before a swap is written into the table: if that is full, a
\* pair goes back.  No element: the program exits.
Roomy(hot, t) ==
  IF Cardinality(DOMAIN t.to) >= RITEntries
  THEN { [table |-> Removed(t, r, t.to[r]), data |-> Swapped(holds, r, t.to[r]), swaps |-> 1] :
           r \in Unswappable(hot, t) }
  ELSE { [table |-> t, data |-> holds, swaps |-> 0] }

\* The row's first swap.
SwapNew(hot, t, row) ==
  UNION { { [table |-> Inserted(b.table, row, dst), data |-> Swapped(b.data, row, dst),
             swaps |-> b.swaps + 1, again |-> FALSE] : dst \in Fresh(hot, b.table, row) } :
          b \in Roomy(hot, t) }

\* Mutant of SwapAfterEpoch: the row is not swapped back first.
SwapAfterEpochTwice(hot, t, row) ==
  { [table |-> Inserted(Removed(t, row, t.to[row]), row, dst),
     data |-> Swapped(holds, row, dst), swaps |-> 2, again |-> FALSE] :
    dst \in Fresh(hot, t, row) }

\* It was swapped in an earlier epoch: back, and with another row.
SwapAfterEpoch(hot, t, row) ==
  { [table |-> Inserted(Removed(t, row, t.to[row]), row, dst),
     data |-> Swapped(Swapped(holds, row, t.to[row]), row, dst), swaps |-> 2, again |-> FALSE] :
    dst \in Fresh(hot, t, row) }

\* It was swapped in this epoch: both rows of the pair move on.  The two random
\* rows may be the same one.
SwapAgain(hot, t, row) ==
  LET prev == t.to[row]
  IN  UNION { { [table |-> Inserted(Inserted(Removed(b.table, row, prev), row, dst[2]), prev, dst[1]),
                 data  |-> Swapped(Swapped(b.data, row, dst[1]), prev, dst[2]),
                 swaps |-> b.swaps + 2, again |-> TRUE] :
                dst \in Fresh(hot, b.table, row) \X Fresh(hot, b.table, row) } :
              b \in Roomy(hot, t) }

Swaps(hot, t, row) ==
  IF row \notin DOMAIN t.to THEN SwapNew(hot, t, row)
  ELSE IF row \in t.keep THEN SwapAgain(hot, t, row)
  ELSE SwapAfterEpoch(hot, t, row)

\* The row is in the tracker: is it due for a swap?
SwapIfHot(hot, s, t, row) ==
  /\ hot[row] <= MaxCount
  /\ count' = hot /\ spill' = s
  /\ \/ /\ hot[row] % Threshold # 0
        /\ rit' = t.to /\ locked' = t.keep
        /\ UNCHANGED <<waiting, holds, reswapped, halted>>
     \/ /\ hot[row] % Threshold = 0
        /\ \E after \in Swaps(hot, t, row) :
             /\ ~TooLarge(after.table)
             /\ waiting + after.swaps * SwapRequests <= PriorityRoom
             /\ waiting' = waiting + after.swaps * SwapRequests
             /\ rit' = after.table.to /\ locked' = after.table.keep
             /\ holds' = after.data
             /\ reswapped' = (reswapped \/ after.again)
        /\ UNCHANGED halted
     \/ /\ hot[row] % Threshold = 0
        /\ LET all == Swaps(hot, t, row)
           IN  \/ all = {}
               \/ \E after \in all : \/ TooLarge(after.table)
                                     \/ waiting + after.swaps * SwapRequests > PriorityRoom
        /\ halted' = TRUE
        /\ UNCHANGED <<waiting, rit, locked, holds, reswapped>>

\* The tracker is full and no entry is at the spillover counter: the row is
\* not compared with the threshold.
SwapSpill(c, s, t, row) ==
  /\ Tracked(c, s, row) = {}
  /\ count' = c /\ spill' = s + 1
  /\ rit' = t.to /\ locked' = t.keep
  /\ UNCHANGED <<waiting, holds, reswapped, halted>>

SwapUpdate(reset, row) ==
  LET c == IF reset THEN <<>> ELSE count
      s == IF reset THEN 0 ELSE spill
      t == [to |-> rit, keep |-> IF reset THEN {} ELSE locked]
  IN  /\ plugin = "RRS" /\ ~halted /\ ~reswapped
      /\ UNCHANGED <<plugin, acts, lost>>
      /\ \/ /\ row = NoRow
            /\ count' = c /\ spill' = s /\ rit' = t.to /\ locked' = t.keep
            /\ UNCHANGED <<waiting, holds, reswapped, halted>>
         \/ /\ row \in Rows \cup DOMAIN rit
            /\ \/ \E hot \in Tracked(c, s, row) : SwapIfHot(hot, s, t, row)
               \/ SwapSpill(c, s, t, row)
=============================================================================

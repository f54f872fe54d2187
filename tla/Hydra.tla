------------------------------- MODULE Hydra -------------------------------
(***************************************************************************)
(* Hydra counts activations per group of rows until the group is suspect,  *)
(* then per row, in a table that is kept in DRAM (RCT) and read through a  *)
(* set-associative cache (RCC).                                            *)
(***************************************************************************)
EXTENDS RowHammerBank, Bits

CONSTANTS
  GroupSize,       \* m_row_group_size
  GroupThreshold,  \* m_group_threshold
  RCTRows,         \* m_total_rct_row_size: the first rows hold the RCT
  GroupLines,      \* m_group_rct_cl_size: cache lines of the RCT of a group
  Sets,            \* m_rcc_set_num
  Ways             \* entries of a set of the RCC: 16

VARIABLES
  group,   \* group_count_table: the groups seen, counted and initialized
  rct,     \* row_count_table
  rcc      \* row_count_cache: by set, the counts of the tags cached

hydravars == <<group, rct, rcc>>

ASSUME HydraAssumption ==
  /\ GroupSize \in 1 .. NumRows /\ Sets \in Nat \ {0} /\ Ways \in Nat \ {0}
  /\ GroupThreshold \in Nat /\ RCTRows \in Nat /\ GroupLines \in Nat

EmptyCache == [i \in 0 .. Sets - 1 |-> <<>>]

\* The high bits of a row number are its group: as many as number the groups
\* there are, so it has GroupSize rows only if that is a power of two.
GroupBits == Log2(NumRows) - Log2(NumRows \div GroupSize)
GroupOf(row) == row \div Pow2[GroupBits]

\* The rows a group is initialized with: GroupSize of them.
GroupRows(g) == g * GroupSize .. g * GroupSize + GroupSize - 1

\* The low bits of a row number are its set, the others its tag.
SetOf(row) == row % Pow2[Log2(Sets)]
TagOf(row) == row \div Pow2[Log2(Sets)]

\* The activation of a row that holds part of the RCT.
HydraTableRow(c, a, row) ==
  LET n == IF row \in DOMAIN c THEN c[row] + 1 ELSE 1
  IN  IF n >= Threshold
      THEN count' = Without(c, row) /\ RefreshVictims(a, row, 0)
      ELSE count' = With(c, row, n) /\ UNCHANGED waiting /\ Counted(a, row)

HydraGroupCount(g, a, row, entry) ==
  /\ entry.n < GroupThreshold
  /\ group' = With(g, GroupOf(row), [entry EXCEPT !.n = @ + 1])
  /\ UNCHANGED waiting /\ Counted(a, row)

\* Mutant of Fills: the counter is read as it was before the activation.
FillsStale(set, tag, n) ==
  IF tag \in DOMAIN set THEN { [set |-> With(set, tag, set[tag] + 1), requests |-> 0] }
  ELSE IF Cardinality(DOMAIN set) < Ways
  THEN { [set |-> With(set, tag, n - 1), requests |-> 1] }
  ELSE { [set |-> With(Without(set, out), tag, n - 1), requests |-> 2] : out \in DOMAIN set }

\* What the set holds once the row is in it, and the requests that takes: the
\* row's counter is read, and an evicted one is written.  RANDOM may evict any
\* entry, MIN_COUNT one of those with the lowest count.
Fills(set, tag, n) ==
  IF tag \in DOMAIN set THEN { [set |-> With(set, tag, set[tag] + 1), requests |-> 0] }
  ELSE IF Cardinality(DOMAIN set) < Ways
  THEN { [set |-> With(set, tag, n), requests |-> 1] }
  ELSE { [set |-> With(Without(set, out), tag, n), requests |-> 2] : out \in DOMAIN set }

\* Every row of the group may have had all its activations.
Initialized(r, g) ==
  [row \in DOMAIN r \cup GroupRows(g) |->
     IF row \in GroupRows(g) THEN GroupThreshold ELSE r[row]]

HydraRowCount(g, r, cache, a, row, entry) ==
  LET first   == ~entry.initialized
      table   == IF first THEN Initialized(r, GroupOf(row)) ELSE r
      counted == With(table, row, (IF row \in DOMAIN table THEN table[row] ELSE 0) + 1)
      before  == IF first THEN GroupLines ELSE 0
  IN  /\ entry.n >= GroupThreshold
      /\ group' = With(g, GroupOf(row), [entry EXCEPT !.initialized = TRUE])
      /\ \E f \in Fills(cache[SetOf(row)], TagOf(row), counted[row]) :
           IF f.set[TagOf(row)] >= Threshold
           THEN /\ rcc' = [cache EXCEPT ![SetOf(row)] = With(f.set, TagOf(row), 0)]
                /\ rct' = With(counted, row, 0)
                /\ RefreshVictims(a, row, before + f.requests)
           ELSE /\ rcc' = [cache EXCEPT ![SetOf(row)] = f.set]
                /\ rct' = counted
                /\ SendAll(before + f.requests)
                /\ Counted(a, row)

HydraIdle(c, g, r, cache, a) ==
  /\ count' = c /\ group' = g /\ rct' = r /\ rcc' = cache /\ acts' = a
  /\ UNCHANGED <<waiting, lost>>

HydraUpdate(reset, row) ==
  LET c     == IF reset THEN <<>> ELSE count
      g     == IF reset THEN <<>> ELSE group
      r     == IF reset THEN <<>> ELSE rct
      cache == IF reset THEN EmptyCache ELSE rcc
      a     == IF reset THEN NoActs ELSE acts
      entry == IF GroupOf(row) \in DOMAIN g THEN g[GroupOf(row)]
               ELSE [n |-> 0, initialized |-> FALSE]
  IN  /\ plugin = "Hydra"
      /\ UNCHANGED <<plugin, spill>>
      /\ \/ row = NoRow /\ HydraIdle(c, g, r, cache, a)
         \/ /\ row \in Rows /\ row < RCTRows
            /\ HydraTableRow(c, a, row)
            /\ group' = g /\ rct' = r /\ rcc' = cache
         \/ /\ row \in Rows /\ row >= RCTRows
            /\ count' = c
            /\ \/ HydraGroupCount(g, a, row, entry) /\ rct' = r /\ rcc' = cache
               \/ HydraRowCount(g, r, cache, a, row, entry)
=============================================================================

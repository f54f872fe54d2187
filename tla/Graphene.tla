------------------------------ MODULE Graphene ------------------------------
(***************************************************************************)
(* Graphene counts activations in a table of fixed size.  A row that is    *)
(* not in the table takes over an entry whose count equals the spillover   *)
(* counter, or raises that counter when there is none.                     *)
(***************************************************************************)
EXTENDS RowHammerBank

CONSTANTS
  Spares,   \* the placeholders the table is filled with: num_table_entries
  MaxSpill  \* bound: how far the spillover counter is followed

ASSUME GrapheneAssumption ==
  /\ Spares \cap Rows = {}
  /\ MaxSpill \in Nat

\* setup: the keys are row numbers no row has.
GrapheneTable == [s \in Spares |-> 0]

\* Only an increment is checked against the threshold.
GrapheneCount(c, s, a, row) ==
  /\ row \in DOMAIN c
  /\ spill' = s
  /\ \/ /\ c[row] + 1 < Threshold
        /\ count' = [c EXCEPT ![row] = @ + 1]
        /\ UNCHANGED waiting /\ Counted(a, row)
     \/ /\ c[row] + 1 >= Threshold
        /\ count' = [c EXCEPT ![row] = s]
        /\ RefreshVictims(a, row, 0)

\* Mutant of GrapheneReplace: the newcomer starts from one.
GrapheneReplaceFromOne(c, s, a, row) ==
  /\ row \notin DOMAIN c
  /\ \E old \in DOMAIN c : c[old] = s /\ count' = With(Without(c, old), row, 1)
  /\ spill' = s
  /\ UNCHANGED waiting /\ Counted(a, row)

\* The table is unordered: any of the entries that qualify may be the first.
GrapheneReplace(c, s, a, row) ==
  /\ row \notin DOMAIN c
  /\ \E old \in DOMAIN c : c[old] = s /\ count' = With(Without(c, old), row, s + 1)
  /\ spill' = s
  /\ UNCHANGED waiting /\ Counted(a, row)

GrapheneSpill(c, s, a, row) ==
  /\ row \notin DOMAIN c
  /\ \A old \in DOMAIN c : c[old] # s
  /\ s < MaxSpill
  /\ count' = c
  /\ spill' = s + 1
  /\ UNCHANGED waiting /\ Counted(a, row)

GrapheneIdle(c, s, a) ==
  /\ count' = c /\ spill' = s /\ acts' = a
  /\ UNCHANGED <<waiting, lost>>

\* Whether the reset period ends with this cycle is left open.
GrapheneUpdate(reset, row) ==
  LET c == IF reset THEN [r \in DOMAIN count |-> 0] ELSE count
      s == IF reset THEN 0 ELSE spill
      a == IF reset THEN NoActs ELSE acts
  IN  /\ plugin = "Graphene"
      /\ UNCHANGED plugin
      /\ \/ row = NoRow /\ GrapheneIdle(c, s, a)
         \/ row \in Rows /\ GrapheneCount(c, s, a, row)
         \/ row \in Rows /\ GrapheneReplace(c, s, a, row)
         \/ row \in Rows /\ GrapheneSpill(c, s, a, row)
=============================================================================

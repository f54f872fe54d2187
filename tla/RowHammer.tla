----------------------------- MODULE RowHammer -----------------------------
(***************************************************************************)
(* The RowHammer mitigations, each on the activations of a bank, and what  *)
(* they promise: no row is activated as often as the threshold without its *)
(* neighbours being refreshed, and a swapped row is found where it was     *)
(* moved.                                                                  *)
(***************************************************************************)
EXTENDS Graphene, RowTrackers, Hydra, RowSwap

vars == <<bankvars, trackervars, hydravars, swapvars>>

Init ==
  /\ plugin \in Plugins
  /\ count = IF plugin = "Graphene" THEN GrapheneTable ELSE <<>>
  /\ spill = 0 /\ waiting = 0
  /\ acts = NoActs /\ lost = {}
  /\ life = <<>> /\ refs = 0 /\ least = NoRow /\ stopped = FALSE
  /\ group = <<>> /\ rct = <<>> /\ rcc = EmptyCache
  /\ rit = <<>> /\ locked = {} /\ holds = [r \in SwapRows |-> r]
  /\ reswapped = FALSE /\ halted = FALSE

ActivateGraphene ==
  /\ \E reset \in BOOLEAN, row \in Rows \cup {NoRow} : GrapheneUpdate(reset, row)
  /\ UNCHANGED <<trackervars, hydravars, swapvars>>

ActivateTracked ==
  /\ \/ \E cmd \in Rows \cup {Refresh} : OracleUpdate(cmd) \/ TWiCeUpdate(cmd)
     \/ \E row \in Rows : PARAUpdate(row) \/ TRRUpdate(row)
  /\ UNCHANGED <<hydravars, swapvars>>

ActivateHydra ==
  /\ \E reset \in BOOLEAN, row \in Rows \cup {NoRow} : HydraUpdate(reset, row)
  /\ UNCHANGED <<trackervars, swapvars>>

ActivateSwap ==
  /\ \E reset \in BOOLEAN, row \in SwapRows \cup {NoRow} : SwapUpdate(reset, row)
  /\ UNCHANGED <<trackervars, hydravars>>

Served ==
  /\ Serve
  /\ UNCHANGED <<trackervars, hydravars, swapvars>>

Next == ActivateGraphene \/ ActivateTracked \/ ActivateHydra \/ ActivateSwap \/ Served

Spec == Init /\ [][Next]_vars

----------------------------------------------------------------------------
(* Properties.                                                             *)

\* How often a row may have been activated since its neighbours' last refresh.
Allowance ==
  CASE plugin = "Graphene" -> IF spill + 1 > Threshold - 1 THEN spill + 1 ELSE Threshold - 1
    [] plugin = "TWiCe"    -> Threshold - 1 + PruneRate * refs
    [] OTHER               -> Threshold - 1

\* A mitigation that counts refreshes a row's neighbours in time, however the
\* activations are spread over rows, entries are evicted, pruned or cached,
\* and the period ends - unless the priority buffer dropped the refresh.
\* Graphene misses by what its spillover counter exceeds the threshold, TWiCe
\* by what pruned entries had.
Protected ==
  plugin \in {"Graphene", "OracleRH", "TWiCe", "Hydra"} =>
    \A r \in Rows \ lost : acts[r] <= Allowance

\* Hydra's cache never holds another count of a row than the table in DRAM,
\* when a group has the rows it is initialized with.
CacheCoherent ==
  \A i \in DOMAIN rcc : \A tag \in DOMAIN rcc[i] :
    LET row == tag * Pow2[Log2(Sets)] + i IN row \in DOMAIN rct /\ rct[row] = rcc[i][tag]

\* The row indirection sends the requests of a row to where its data is,
\* through swaps, swaps back and the end of epochs, as long as no row is
\* swapped twice in an epoch.
SwappedFound ==
  ~reswapped => \A l \in SwapRows : holds[IF l \in DOMAIN rit THEN rit[l] ELSE l] = l
=============================================================================

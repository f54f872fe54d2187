--------------------------- MODULE DRAMProperties ---------------------------
(***************************************************************************)
(* What a memory controller may rely on, whatever it asks of the device.   *)
(***************************************************************************)
EXTENDS DRAMDevice

\* The organizations have two banks: the one below node 1 of some level, and
\* the other.
BankNo(i) == CHOOSE b \in Banks : (1 \in Range(b)) = (i = 1)

Protocol == INSTANCE BankProtocol
              WITH Banks <- {0, 1}, nRP <- V.nRP, nRAS <- V.nRAS,
                   open <- [i \in {0, 1} |-> bank[BankNo(i)].rows],
                   half <- { i \in {0, 1} : bank[BankNo(i)].state = "PreOpened" },
                   age <- [i \in {0, 1} |-> age[BankNo(i)]]

\* Through any sequence of commands of any of the standards, each bank goes
\* through its row cycle: nRP closed before it opens, nRAS open before it
\* closes.  One row is open at a time, but in LPDDR5: there a bank holds the row
\* of its ACT-1 and, when its ACT-2 was issued for another request, that one's.
RowCycle == Protocol!Spec

Overlap(u, w) == u.at < w.at + V.nBL /\ w.at < u.at + V.nBL

\* The node whose banks take turns on the data bus with full turnaround times:
\* a rank, or what stands for it in a standard without ranks.
RankLevel == [s \in DOMAIN Commands |-> IF s \in {"GDDR6", "HBM"} THEN 0
                                  ELSE IF s = "HBM3" THEN 2 ELSE 1]
RankOf(path) == SubSeq(path, 1, RankLevel[std])

\* The data bursts of one rank never overlap, in whichever order reads and
\* writes to its banks and bank groups are mixed.
OneBurst == \A u, w \in bursts :
              u # w /\ RankOf(u.path) = RankOf(w.path) => ~Overlap(u, w)

\* A rank opens at most four rows in any nFAW cycles, whichever banks they are
\* in and however they were closed in between.
FourActivates == \A n \in Nodes : Cardinality(activates[n]) <= 4

\* For nRFC cycles after a refresh nothing opens in the rank it named, and
\* when it started every bank had been closed for nRP cycles.
RefreshQuiet ==
  \A b \in Banks : /\ refreshed[b] < V.nRFC => bank[b].state = "Closed"
                   /\ refreshed[b] = 0 => age[b] >= V.nRP
=============================================================================

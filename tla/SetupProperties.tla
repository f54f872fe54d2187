-------------------------- MODULE SetupProperties --------------------------
(***************************************************************************)
(* What a memory system that was set up from a preset can rely on: the     *)
(* constraint tables of DRAMStandards hold together with the values of the *)
(* presets, and no two addresses share a place in the memory.              *)
(***************************************************************************)
EXTENDS DRAMSetup

TimingStandard == IF std = "HBM3_PIM" THEN "HBM3" ELSE std

SetUp == phase \in {"mapper", "apply"}

\* The level of one rank: ranks share the pins, and a switch takes longer.
RankLevel(s) ==
  CASE s \in {"GDDR6", "HBM"} -> 0 [] s \in {"HBM3", "HBM3_PIM"} -> 2 [] OTHER -> 1

BankLevel == Len(org.count) - 3

\* The constraints at the levels down to level keep c2 behind c1 for n cycles.
Apart(table, level, c1, c2, n) ==
  \E k \in table : /\ k.prev = c1 /\ k.next = c2 /\ k.lat >= n
                   /\ k.level <= level /\ k.window = 1 /\ ~k.sibling

BurstStart(c) == IF c \in Reads THEN vals.nCL ELSE vals.nCWL

(* Commands as close as the table allows still have disjoint data bursts   *)
(* within a rank, whatever the preset's latencies (the "Data bus           *)
(* occupancy" constraints and the read-write turnarounds): the simulator   *)
(* has no data bus of its own that would notice two bursts at once.        *)
BurstsDisjoint ==
  SetUp => \A c1, c2 \in Reads \cup Writes :
             Apart(Timings(TimingStandard, vals), RankLevel(std), c1, c2,
                   BurstStart(c1) + vals.nBL - BurstStart(c2))

(* A bank is never activated twice within a row cycle, through a precharge *)
(* or not: GDDR6 leaves nRC to the presets' nRAS and nRP.                  *)
RowCycleKept ==
  SetUp => LET table == Timings(TimingStandard, vals)
           IN  \/ Apart(table, BankLevel, "ACT", "ACT", vals.nRC)
               \/ \E n \in 0 .. vals.nRC : /\ Apart(table, BankLevel, "ACT", "PRE", n)
                                          /\ Apart(table, BankLevel, "PRE", "ACT", vals.nRC - n)

(* From one refresh to the next there is time to close the rows, refresh   *)
(* and open a row again; otherwise refreshes pile up without end.  A       *)
(* density the tables do not hold and cycles the user gave are left out.   *)
RefreshKeepsUp ==
  SetUp /\ DensityId(std, org) # 0 /\ vals.nRFC \notin GivenRFC
    => vals.nRC + vals.nRP + vals.nRFC < vals.nREFI

----------------------------------------------------------------------------
Lines == 0 .. Capacity(Slices(mapper, bits)) - 1

\* Lines that differ in one bit or two.
SampleLines ==
  LET ones == { Pow2[k] : k \in 0 .. 29 }
      low  == { Pow2[k] : k \in {0, 2, 4, 6} }
  IN  { line \in {0} \cup ones \cup { x + y : x \in {2, 8, 32}, y \in low } : line \in Lines }

Within(place) == \A l \in DOMAIN org.count : place[l] \in 0 .. org.count[l] - 1

(* Mapped addresses stay within the organization and no two of them reach  *)
(* the same place.  Every mapper cuts or xors bits, so a collision of two  *)
(* lines shows in lines that differ in few bits.                           *)
PlacesDistinct ==
  phase = "apply" =>
    LET places == { Apply(line) : line \in SampleLines }
    IN  /\ Cardinality(places) = Cardinality(SampleLines)
        /\ \A place \in places : Within(place)
=============================================================================

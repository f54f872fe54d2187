----------------------------- MODULE DRAMSetup -----------------------------
(***************************************************************************)
(* How a memory system is set up from its configuration: the organization  *)
(* (set_organization), the timing values (set_timing_vals), and the        *)
(* address mapper, which then cuts the addresses of the requests.          *)
(*                                                                         *)
(* A configuration names presets and may override what they say.  A throw  *)
(* ends the setup in phase "error".  TLC's integers have 32 bits, so the   *)
(* products of the code are taken factor by factor.                        *)
(***************************************************************************)
EXTENDS DRAMPresets, DRAMStandards, AddressMappers, FiniteSets, FiniteSetsExt

CONSTANTS
  Standards,   \* the DRAM models configured
  Resized,     \* rank counts a configuration may ask for (0: the preset's)
  GivenRFC,    \* refresh cycles a configuration may ask for (Unset: none)
  StackJunk    \* what a read before the start of a table may return

VARIABLES
  std,      \* the DRAM model
  phase,    \* "organization", "timing", "mapper", "apply" or "error"
  org,      \* m_organization
  vals,     \* m_timing_vals
  mapper,   \* the address mapper
  bits      \* m_addr_bits

setupvars == <<std, phase, org, vals, mapper, bits>>

AllStandards == {"DDR3", "DDR4", "DDR4_VRR", "DDR5", "LPDDR5", "GDDR6", "HBM",
                 "HBM2", "HBM3", "HBM3_PIM"}

ASSUME DRAMSetupAssumption ==
  /\ Standards \subseteq AllStandards
  /\ Resized \subseteq 0 .. MaxInt /\ GivenRFC \subseteq Int /\ StackJunk \subseteq Nat

Orgs(s) ==
  CASE s = "DDR3" -> DDR3Orgs [] s \in {"DDR4", "DDR4_VRR"} -> DDR4Orgs
    [] s = "DDR5" -> DDR5Orgs [] s = "LPDDR5" -> LPDDR5Orgs
    [] s = "GDDR6" -> GDDR6Orgs [] s = "HBM" -> HBMOrgs [] s = "HBM2" -> HBM2Orgs
    [] s = "HBM3" -> HBM3Orgs [] s = "HBM3_PIM" -> PIMOrgs

Speeds(s) ==
  CASE s = "DDR3" -> DDR3Speeds [] s = "DDR4" -> DDR4Speeds
    [] s = "DDR4_VRR" -> DDR4VRRSpeeds [] s = "DDR5" -> DDR5Speeds
    [] s = "LPDDR5" -> LPDDR5Speeds [] s = "GDDR6" -> GDDR6Speeds
    [] s = "HBM" -> HBMSpeeds [] s = "HBM2" -> HBM2Speeds
    [] s = "HBM3" -> HBM3Speeds [] s = "HBM3_PIM" -> PIMSpeeds

\* HBM3-PIM has the levels of HBM3.
Levels(s) ==
  Commands[IF s = "HBM3_PIM" THEN "HBM3" ELSE s].levels \o <<"row", "column">>

LevelIndex(s, name) == CHOOSE i \in DOMAIN Levels(s) : Levels(s)[i] = name

HasRank(s) == \E i \in DOMAIN Levels(s) : Levels(s)[i] = "rank"

PrefetchSize(s) ==
  CASE s \in {"HBM", "HBM2"} -> 2 [] s = "DDR5" -> 16 [] OTHER -> 8

ChannelWidth(s) ==
  CASE s = "HBM" -> 128 [] s \in {"DDR3", "DDR4", "DDR4_VRR", "GDDR6", "HBM2"} -> 64
    [] OTHER -> 32

----------------------------------------------------------------------------
(* set_organization.  The density check multiplies the levels from the     *)
(* bank group down; GDDR6 also the channels, HBM2 and HBM3 also the pseudo *)
(* channels, HBM3 the ranks and the prefetch size too.                     *)

FirstCounted(s) ==
  CASE s = "GDDR6" -> 1 [] s \in {"HBM", "HBM2", "HBM3", "HBM3_PIM"} -> 2 [] OTHER -> 3

Factor(s) == IF s \in {"HBM3", "HBM3_PIM"} THEN PrefetchSize(s) ELSE 1

Megabits(s, o) ==
  LET row    == LevelIndex(s, "row")
      counted == [i \in FirstCounted(s) .. Len(o.count) |->
                    IF i = row THEN o.count[i] \div 2^10 ELSE o.count[i]]
  IN  (MapThenFoldSet(LAMBDA x, y : x * y, 1, LAMBDA i : counted[i],
                      LAMBDA S : CHOOSE x \in S : TRUE, DOMAIN counted)
         * o.dq * Factor(s)) \div 2^10

SetOrganization(preset, ranks) ==
  LET sized == IF ranks # 0 /\ HasRank(std)
               THEN [preset EXCEPT !.count[LevelIndex(std, "rank")] = ranks]
               ELSE preset
  IN  /\ phase = "organization"
      /\ org' = sized
      /\ phase' = IF Megabits(std, sized) = sized.density THEN "timing" ELSE "error"
      /\ UNCHANGED <<std, vals, mapper, bits>>

----------------------------------------------------------------------------
(* set_timing_vals.                                                        *)

\* HBM3 counts the clock of its quadruple-rate data pins.
ClockPs(s, rate) ==
  10^6 \div (rate \div (IF s \in {"HBM3", "HBM3_PIM"} THEN 4 ELSE 2))

\* num * p / tCK, in two steps.
PerClock(num, p, tCK) == (num \div tCK) * p + ((num % tCK) * p) \div tCK

\* Mutant of JEDEC_rounding: the time is taken for picoseconds.
JEDEC_roundingPs(t, tCK) == (PerClock(t, 1000, tCK) + 974) \div 1000

JEDEC_rounding(t, tCK) == (PerClock(t * 1000, 1000, tCK) + 974) \div 1000

JEDEC_rounding_DDR5(t, tCK) == (PerClock(t * 1000, 997, tCK) + 1000) \div 1000

Rounded(s, t, tCK) ==
  IF s = "DDR5" THEN JEDEC_rounding_DDR5(t, tCK) ELSE JEDEC_rounding(t, tCK)

IndexOf(seq, x) == IF \E i \in DOMAIN seq : seq[i] = x
                   THEN CHOOSE i \in DOMAIN seq : seq[i] = x ELSE 0

\* Secondary timings, by data width and rate.
NoSecondary == [dqs |-> <<>>, rates |-> <<>>, tables |-> <<>>]

DDR3Secondary ==
  [dqs |-> <<4, 8, 16>>, rates |-> <<800, 1066, 1333, 1600, 1866, 2133>>,
   tables |-> [nRRDS |-> << <<4, 4, 4, 5, 5, 6>>, <<4, 4, 4, 5, 5, 6>>, <<4, 6, 5, 6, 6, 7>> >>,
               nFAW |-> << <<16, 20, 20, 24, 26, 27>>, <<16, 20, 20, 24, 26, 27>>,
                           <<20, 27, 30, 32, 33, 34>> >>]]

DDR4Secondary ==
  [dqs |-> <<4, 8, 16>>, rates |-> <<1600, 1866, 2133, 2400, 2666, 2933, 3200>>,
   tables |-> [nRRDS |-> << <<4, 4, 4, 4, 4, 4, 4>>, <<4, 4, 4, 4, 4, 4, 4>>,
                            <<5, 5, 6, 7, 8, 8, 9>> >>,
               nRRDL |-> << <<5, 5, 6, 6, 7, 8, 8>>, <<5, 5, 6, 6, 7, 8, 8>>,
                            <<6, 6, 7, 8, 9, 10, 11>> >>,
               nFAW |-> << <<16, 16, 16, 16, 16, 16, 16>>, <<20, 22, 23, 26, 28, 31, 34>>,
                           <<28, 28, 32, 36, 40, 44, 48>> >>]]

DDR5Secondary ==
  [dqs |-> <<4, 8, 16>>, rates |-> <<3200>>,
   tables |-> [nRRDL |-> << <<5>>, <<5>>, <<5>> >>, nFAW |-> << <<40>>, <<32>>, <<32>> >>,
               nCCDLWR |-> << <<32>>, <<16>>, <<16>> >>]]

GDDR6Secondary ==
  [dqs |-> <<8, 16>>, rates |-> <<2000>>,
   tables |-> [nRRDS |-> << <<4>>, <<5>> >>, nRRDL |-> << <<5>>, <<6>> >>,
               nFAW |-> << <<20>>, <<28>> >>]]

Secondary(s) ==
  CASE s = "DDR3" -> DDR3Secondary [] s \in {"DDR4", "DDR4_VRR"} -> DDR4Secondary
    [] s = "DDR5" -> DDR5Secondary [] s = "GDDR6" -> GDDR6Secondary
    [] OTHER -> NoSecondary

\* Refresh timings in ns: of one density, and of every density.
DDR3Refresh == [densities |-> <<1, 2, 4, 8>>, tables |-> [nRFC |-> <<110, 160, 260, 350>>],
                fixed |-> [nREFI |-> 7800]]

DDR4Refresh == [densities |-> <<2, 4, 8, 16>>, tables |-> [nRFC |-> <<160, 260, 360, 550>>],
                fixed |-> [nREFI |-> 7800]]

\* Two rows on either side of a victim: m_VRR_radius of 2.
DDR4VRRRefresh == [DDR4Refresh EXCEPT !.fixed = [nREFI |-> 7800, nVRR |-> 2 * 70]]

DDR5Refresh ==
  [densities |-> <<8, 16, 32>>,
   tables |-> [nRFC |-> <<195, 295, 410>>, nRFC2 |-> <<130, 160, 220>>,
               nRFCsb |-> <<115, 130, 190>>, nDRFMab |-> <<70, 70, 70>>,
               nDRFMsb |-> <<60, 60, 60>>],
   fixed |-> [nREFI |-> 3900]]

LPDDR5Refresh ==
  [densities |-> <<2, 4, 8, 16>>,
   tables |-> [nRFC |-> <<130, 180, 210, 280>>, nRFCpb |-> <<60, 90, 120, 140>>,
               nPBR2PBR |-> <<60, 90, 90, 90>>, nPBR2ACT |-> <<8, 8, 8, 8>>],
   fixed |-> [nREFI |-> 3906]]

GDDR6Refresh == [densities |-> <<4, 8, 16>>, tables |-> [nRFC |-> <<260, 360, 550>>],
                 fixed |-> [nREFI |-> 7800]]

HBMRefresh ==
  [densities |-> <<2, 4, 8, 16>>,
   tables |-> [nRFC |-> <<160, 260, 350, 450>>, nREFISB |-> <<160, 260, 350, 450>>],
   fixed |-> <<>>]

\* nREFISB is looked up in a table that starts at one rank by the number of
\* ranks, from zero: each stack gets the entry of the next higher one.
HBM3Refresh(ranks) ==
  [densities |-> <<2, 4, 6, 8, 12, 16, 24, 32>>,
   tables |-> [nRFC |-> <<160, 260, 310, 350, 410, 450, 610, 650>>],
   fixed |-> [nREFISB |-> <<244, 122, 82, 61, 0, 0, 0, 0>>[ranks + 1]]]

RefreshTimes(s, o) ==
  CASE s = "DDR3" -> DDR3Refresh [] s = "DDR4" -> DDR4Refresh
    [] s = "DDR4_VRR" -> DDR4VRRRefresh [] s = "DDR5" -> DDR5Refresh
    [] s = "LPDDR5" -> LPDDR5Refresh [] s = "GDDR6" -> GDDR6Refresh
    [] s \in {"HBM", "HBM2"} -> HBMRefresh
    [] s \in {"HBM3", "HBM3_PIM"} -> HBM3Refresh(o.count[LevelIndex(s, "rank")])

DensityId(s, o) ==
  LET densities == RefreshTimes(s, o).densities
  IN  IndexOf([i \in DOMAIN densities |-> Gigabits(densities[i])], o.density)

\* BRC_m of DDR5: a directed refresh takes that many row refreshes.
Repeats(s, n) == IF n \in {"nDRFMab", "nDRFMsb"} THEN 2 ELSE 1

\* A speed completed from the tables: a density without an entry reads junk.
Completed(s, o, speed, junk) ==
  LET tCK == ClockPs(s, speed.rate)
      sec == Secondary(s)
      dq  == IndexOf(sec.dqs, o.dq)
      r   == IndexOf(sec.rates, speed.rate)
      ref == RefreshTimes(s, o)
      d   == DensityId(s, o)
  IN  [n \in DOMAIN speed |->
         IF dq # 0 /\ r # 0 /\ n \in DOMAIN sec.tables THEN sec.tables[n][dq][r]
         ELSE IF n \in DOMAIN ref.tables
         THEN Repeats(s, n) * Rounded(s, IF d = 0 THEN junk ELSE ref.tables[n][d], tCK)
         ELSE IF n \in DOMAIN ref.fixed THEN Rounded(s, ref.fixed[n], tCK)
         ELSE speed[n]]

\* A preset's rate may not be changed; without a preset every timing that no
\* table holds would have to be given.
SetTimingVals(speed, rateGiven, rfc, junk) ==
  LET completed == Completed(std, org, speed, junk)
      overridden == IF rfc = Unset THEN completed ELSE [completed EXCEPT !.nRFC = rfc]
      specified == \A n \in DOMAIN overridden : overridden[n] # Unset
  IN  /\ phase = "timing"
      /\ (DensityId(std, org) # 0 => junk = CHOOSE j \in StackJunk : TRUE)
      /\ \/ /\ rateGiven \/ ~specified
            /\ phase' = "error"
            /\ UNCHANGED vals
         \/ /\ ~rateGiven /\ specified
            /\ phase' = "mapper"
            /\ vals' = overridden
      /\ UNCHANGED <<std, org, mapper, bits>>

----------------------------------------------------------------------------
(* The address mappers.                                                    *)

\* m_tx_offset: the bits of an address within one transfer.
TxOffset(s) == Log2((PrefetchSize(s) * ChannelWidth(s)) \div 8)

\* apply: line is the address without the bits of m_tx_offset.
Apply(line) == Mapped(mapper, bits, line)

SetupMapper(m) ==
  /\ phase = "mapper"
  /\ mapper' = m
  /\ bits' = AddrBits(m, org.count, PrefetchSize(std))
  /\ phase' = "apply"
  /\ UNCHANGED <<std, org, vals>>

----------------------------------------------------------------------------
NoOrg == [dq |-> 0, density |-> 0, count |-> <<>>]

Init ==
  /\ std \in Standards /\ phase = "organization"
  /\ org = NoOrg /\ vals = <<>> /\ mapper = "none" /\ bits = <<>>

Next ==
  \/ \E preset \in Orgs(std), ranks \in Resized : SetOrganization(preset, ranks)
  \/ \E speed \in Speeds(std), rateGiven \in BOOLEAN, rfc \in GivenRFC, junk \in StackJunk :
       SetTimingVals(speed, rateGiven, rfc, junk)
  \/ \E m \in LinearMappers \cup (IF std \in {"HBM3", "HBM3_PIM"} THEN HBM3Mappers ELSE {}) :
       SetupMapper(m)

Spec == Init /\ [][Next]_setupvars
=============================================================================

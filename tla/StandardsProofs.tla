--------------------------- MODULE StandardsProofs ---------------------------
(***************************************************************************)
(* The devices of the other standards and the generic controllers over     *)
(* them, for every organization and every value of the timings.            *)
(*                                                                         *)
(* First the devices: that a rank is left alone while it refreshes, the    *)
(* row cycle of every bank, the window of four activates and the bursts on *)
(* the data bus.  What a command must wait for is a bound that each step   *)
(* lowers and each command raises, by the latencies of its timing table:   *)
(* the lemmas about the tables say which latencies a bank, a rank and a    *)
(* channel can rely on, whatever the standard.                             *)
(*                                                                         *)
(* Then the generic and the dual-command controller over any of these      *)
(* devices, for every menu and buffer size: the rows that requests of the  *)
(* active buffer count on stay open, and as long as the buffer has room a  *)
(* bank has one request in one place.                                      *)
(***************************************************************************)
EXTENDS DRAMProperties, GenericProperties, ProofLemmas, FiniteSetTheorems

----------------------------------------------------------------------------
(* The tables.                                                             *)

Standards == {"DDR3", "DDR4", "DDR4_VRR", "DDR5", "LPDDR5", "GDDR6", "HBM", "HBM2", "HBM3"}

RulesTable(t) ==
  /\ t.needRow = {"RD", "WR"} /\ t.needClosed \subseteq {"VRR"}
  /\ t.closes = {"PRE", "RDA", "WRA"}
  /\ t.opens \subseteq {"ACT", "ACT2"}
  /\ t.all \in 0 .. 1 /\ t.twoStep \in BOOLEAN
  /\ t.twoStep => t.opens = {"ACT2"}

LEMMA RulesFacts ==
  ASSUME NEW s \in Standards
  PROVE  RulesTable(Rules[s])
<1>1. Rules[s] \in {BankRules(0), BankRules(1), DDR4VRRRules, LPDDR5Rules}
  <2>1. Rules[s] \in {DDR3Rules, DDR4Rules, DDR4VRRRules, DDR5Rules, LPDDR5Rules, GDDR6Rules,
                      HBMRules, HBM2Rules, HBM3Rules}
    BY DEF Standards, Rules
  <2> QED BY <2>1 DEF DDR3Rules, DDR4Rules, DDR5Rules, GDDR6Rules, HBMRules, HBM2Rules, HBM3Rules
<1>2. RulesTable(BankRules(0)) /\ RulesTable(BankRules(1)) BY DEF RulesTable, BankRules
<1>3. RulesTable(DDR4VRRRules) BY DEF RulesTable, DDR4VRRRules, BankRules
<1>4. RulesTable(LPDDR5Rules) BY DEF RulesTable, LPDDR5Rules, BankRules
<1> QED BY <1>1, <1>2, <1>3, <1>4

RequestTable(t) ==
  /\ t.requests["Read"] = "RD" /\ t.requests["Write"] = "WR" /\ t.requests["Refresh"] = "REFab"

LEMMA RequestFacts ==
  ASSUME NEW s \in Standards
  PROVE  RequestTable(Commands[s])
<1>1. \A levels, leaf, all : RequestTable(CommandTable(levels, leaf, all))
  BY DEF RequestTable, CommandTable, MemoryRequests
<1>2. CASE s \in {"DDR3", "DDR4", "DDR5", "HBM", "HBM2", "HBM3"}
  <2>1. Commands[s] \in {DDR3Commands, DDR4Commands, DDR5Commands, HBMCommands, HBM2Commands, HBM3Commands}
    BY <1>2 DEF Commands
  <2> QED BY <1>1, <2>1 DEF DDR3Commands, DDR4Commands, DDR5Commands, HBMCommands, HBM2Commands, HBM3Commands
<1>3. CASE s = "DDR4_VRR"
  <2>1. Commands[s] = DDR4VRRCommands BY <1>3 DEF Commands
  <2> QED BY <2>1 DEF DDR4VRRCommands, RequestTable
<1>4. CASE s = "LPDDR5"
  <2>1. Commands[s] = LPDDR5Commands BY <1>4 DEF Commands
  <2> QED BY <2>1 DEF LPDDR5Commands, RequestTable, MemoryRequests
<1>5. CASE s = "GDDR6"
  <2>1. Commands[s] = GDDR6Commands BY <1>5 DEF Commands
  <2> QED BY <2>1 DEF GDDR6Commands, RequestTable, MemoryRequests
<1> QED BY <1>2, <1>3, <1>4, <1>5 DEF Standards

LEMMA StandardsAre == DOMAIN Commands = Standards
BY DEF Commands, Standards

----------------------------------------------------------------------------
(* The organizations.                                                      *)

LEMMA DepthFacts ==
  ASSUME NEW s \in Standards
  PROVE  Depth(s) \in 2 .. 4
<1>1. \A a, b, c : Len(<<a, b, c>>) = 3 OBVIOUS
<1>2. \A a, b, c, d : Len(<<a, b, c, d>>) = 4 OBVIOUS
<1>3. \A a, b, c, d, e : Len(<<a, b, c, d, e>>) = 5 OBVIOUS
<1>4. \A t, leaf, all : CommandTable(t, leaf, all).levels = t BY DEF CommandTable
<1>5. CASE s \in {"DDR3", "GDDR6", "HBM"}
  <2>1. Commands[s] \in {DDR3Commands, GDDR6Commands, HBMCommands} BY <1>5 DEF Commands
  <2>2. Len(Commands[s].levels) = 3
    BY <1>1, <1>4, <2>1 DEF DDR3Commands, GDDR6Commands, HBMCommands
  <2> QED BY <2>2 DEF Depth
<1>6. CASE s \in {"DDR4", "DDR4_VRR", "DDR5", "LPDDR5", "HBM2"}
  <2>1. Commands[s] \in {DDR4Commands, DDR4VRRCommands, DDR5Commands, LPDDR5Commands, HBM2Commands}
    BY <1>6 DEF Commands
  <2>2. Len(Commands[s].levels) = 4
    BY <1>2, <1>4, <2>1 DEF DDR4Commands, DDR4VRRCommands, DDR5Commands, LPDDR5Commands, HBM2Commands
  <2> QED BY <2>2 DEF Depth
<1>7. CASE s = "HBM3"
  <2>1. Commands[s] = HBM3Commands BY <1>7 DEF Commands
  <2>2. Len(Commands[s].levels) = 5 BY <1>3, <1>4, <2>1 DEF HBM3Commands
  <2> QED BY <2>2 DEF Depth
<1> QED BY <1>5, <1>6, <1>7 DEF Standards

LEMMA ShapeFacts ==
  ASSUME NEW o \in Organizations
  PROVE  /\ o[1] \in Standards /\ o[2] \in Shapes
         /\ o[2] \in [1 .. Depth(o[1]) -> {1, 2}] /\ Depth(o[1]) \in 2 .. 4
         /\ Len(o[2]) = Depth(o[1]) /\ o[2][1] \in 1 .. 2
<1>1. o[1] \in Standards /\ o[2] \in [1 .. Depth(o[1]) -> {1, 2}]
  BY DRAMDeviceAssumption, StandardsAre
<1>2. Depth(o[1]) \in 2 .. 4 BY <1>1, DepthFacts
<1>3. o[2] \in Shapes BY DEF Shapes
<1>4. Len(o[2]) = Depth(o[1]) /\ o[2][1] \in 1 .. 2
  <2> DEFINE d == Depth(o[1])
             t == o[2]
  <2>1. d \in 2 .. 4 /\ t \in [1 .. d -> {1, 2}] BY <1>1, <1>2
  <2> HIDE DEF d, t
  <2>2. Len(t) = d /\ t[1] \in 1 .. 2 BY <2>1
  <2> QED BY <2>2 DEF d, t
<1> QED BY <1>1, <1>2, <1>3, <1>4

\* The nodes of a shape, and its banks, are sequences.
LEMMA NodeFacts ==
  ASSUME NEW sh \in Shapes
  PROVE  /\ NodesOf[sh] = PathsTo(sh)
         /\ BanksOf[sh] = { n \in PathsTo(sh) : Len(n) = Len(sh) }
         /\ \A n \in PathsTo(sh) : n \in Seq(0 .. 1) /\ Len(n) \in 0 .. Len(sh)
<1>1. NodesOf[sh] = PathsTo(sh) BY DEF NodesOf
<1>2. BanksOf[sh] = { n \in PathsTo(sh) : Len(n) = Len(sh) } BY DEF BanksOf
<1>3. Len(sh) \in Nat
  <2>1. PICK o \in Organizations : sh = o[2] BY DEF Shapes
  <2> QED BY <2>1, ShapeFacts
<1>4. ASSUME NEW n \in PathsTo(sh) PROVE n \in Seq(0 .. 1) /\ Len(n) \in 0 .. Len(sh)
  <2>1. PICK k \in 0 .. Len(sh) : n \in [1 .. k -> 0 .. 1] BY DEF PathsTo
  <2>2. k \in Nat BY <1>3, <2>1
  <2>3. n \in Seq(0 .. 1) /\ Len(n) = k BY <2>1, <2>2
  <2> QED BY <2>1, <2>3
<1> QED BY <1>1, <1>2, <1>4

----------------------------------------------------------------------------
(* The timing tables.                                                      *)

\* A table whose latencies have a bound, with windows of four at level l only.
Fine(table, l) ==
  /\ \E n \in Nat : \A k \in table : k.lat \in Int /\ k.lat <= n
  /\ \A k \in table : k.window = 1 \/ (k.window = 4 /\ k.level = l)

LEMMA FineUnion ==
  ASSUME NEW l, NEW s, NEW t, Fine(s, l), Fine(t, l)
  PROVE  Fine(s \cup t, l)
<1>1. PICK m \in Nat : \A k \in s : k.lat \in Int /\ k.lat <= m BY DEF Fine
<1>2. PICK n \in Nat : \A k \in t : k.lat \in Int /\ k.lat <= n BY DEF Fine
<1>3. m + n \in Nat /\ \A k \in s \cup t : k.lat \in Int /\ k.lat <= m + n BY <1>1, <1>2
<1>4. \A k \in s \cup t : k.window = 1 \/ (k.window = 4 /\ k.level = l) BY DEF Fine
<1> QED BY <1>3, <1>4 DEF Fine

LEMMA FineEntry ==
  ASSUME NEW l, NEW level, NEW P, NEW F, NEW lat \in Int, NEW window, NEW sibling,
         window = 1 \/ (window = 4 /\ level = l)
  PROVE  Fine(Entry(level, P, F, lat, window, sibling), l)
<1> DEFINE n == IF lat >= 0 THEN lat ELSE 0
<1>1. n \in Nat /\ lat <= n OBVIOUS
<1>2. \A k \in Entry(level, P, F, lat, window, sibling) :
        k.lat = lat /\ k.window = window /\ k.level = level
  BY DEF Entry
<1> HIDE DEF n
<1> QED BY <1>1, <1>2 DEF Fine

LEMMA FineRule ==
  ASSUME NEW l, NEW level, NEW P, NEW F, NEW lat \in Int
  PROVE  Fine(Rule(level, P, F, lat), l) /\ Fine(SiblingRule(level, P, F, lat), l)
BY FineEntry DEF Rule, SiblingRule

Times == [TimingNames -> Nat]

LEMMA TimesFacts ==
  ASSUME NEW W \in Times
  PROVE  \A n \in TimingNames : W[n] \in Nat
BY DEF Times

LEMMA FineBus ==
  ASSUME NEW l, NEW level, NEW gap \in Int
  PROVE  Fine(Bus(level, gap), l)
BY FineUnion, FineRule DEF Bus

LEMMA FineTurnaround ==
  ASSUME NEW l, NEW level, NEW W \in Times, NEW bubble \in Int, NEW wtr \in Int
  PROVE  Fine(Turnaround(level, W, bubble, wtr), l) /\ Fine(WriteToRead(level, W, wtr), l)
<1>1. W.nCL \in Int /\ W.nBL \in Int /\ W.nCWL \in Int BY DEF Times, TimingNames
<1> DEFINE a == W.nCL + W.nBL + bubble - W.nCWL
           b == WriteEnd(W) + wtr
<1>2. a \in Int /\ b \in Int BY <1>1 DEF WriteEnd
<1>3. Turnaround(level, W, bubble, wtr) = Rule(level, Reads, Writes, a) \cup Rule(level, Writes, Reads, b)
  BY DEF Turnaround
<1>4. WriteToRead(level, W, wtr) = Rule(level, Writes, Reads, b) BY DEF WriteToRead
<1> HIDE DEF a, b
<1> QED BY <1>2, <1>3, <1>4, FineUnion, FineRule

LEMMA FineRankSwitch ==
  ASSUME NEW l, NEW level, NEW W \in Times
  PROVE  Fine(RankSwitch(level, W), l)
<1>1. W.nCL \in Int /\ W.nBL \in Int /\ W.nCWL \in Int /\ W.nCS \in Int BY DEF Times, TimingNames
<1> DEFINE a == W.nBL + W.nCS
           b == W.nCL + W.nBL + W.nCS - W.nCWL
<1>2. a \in Int /\ b \in Int BY <1>1
<1>3. RankSwitch(level, W) = SiblingRule(level, Reads, Reads \cup Writes, a)
                               \cup SiblingRule(level, Writes, Reads, b)
  BY DEF RankSwitch
<1> HIDE DEF a, b
<1>4. Fine(SiblingRule(level, Reads, Reads \cup Writes, a), l) BY <1>2, FineRule
<1>5. Fine(SiblingRule(level, Writes, Reads, b), l) BY <1>2, FineRule
<1> QED BY <1>3, <1>4, <1>5, FineUnion

LEMMA FinePrechargeAll ==
  ASSUME NEW l, NEW level, NEW W \in Times, NEW rtp \in Int
  PROVE  Fine(PrechargeAll(level, W, rtp), l)
<1>1. W.nCWL \in Int /\ W.nBL \in Int /\ W.nWR \in Int /\ W.nRAS \in Int /\ W.nRP \in Int
  BY DEF Times, TimingNames
<1> DEFINE a == Recovered(W)
           b == W.nRAS
           c == W.nRP
<1>2. a \in Int /\ b \in Int /\ c \in Int BY <1>1 DEF Recovered, WriteEnd
<1>3. PrechargeAll(level, W, rtp) = Rule(level, {"RD"}, {"PREA"}, rtp)
        \cup Rule(level, {"WR"}, {"PREA"}, a) \cup Rule(level, {"ACT"}, {"PREA"}, b)
        \cup Rule(level, {"PREA"}, {"ACT"}, c)
  BY DEF PrechargeAll
<1> HIDE DEF a, b, c
<1>4. ASSUME NEW P, NEW F
      PROVE  /\ Fine(Rule(level, P, F, a), l)
             /\ Fine(Rule(level, P, F, b), l)
             /\ Fine(Rule(level, P, F, c), l)
             /\ Fine(Rule(level, P, F, rtp), l)
  BY <1>2, FineRule
<1> QED BY <1>3, <1>4, FineUnion

LEMMA FineActivates ==
  ASSUME NEW l, NEW level, NEW W \in Times, NEW acts, NEW gap \in Int
  PROVE  /\ Fine(ActToAct(level, acts, gap), l) /\ Fine(Window(level, acts, W), level)
         /\ Fine(TwoCycleActivate, l)
<1>1. W.nFAW \in Int BY DEF Times, TimingNames
<1> DEFINE w == W.nFAW
<1>2. Window(level, acts, W) = Entry(level, acts, {"ACT"}, w, 4, FALSE) BY DEF Window
<1>3. w \in Int BY <1>1
<1> HIDE DEF w
<1>4. Fine(Window(level, acts, W), level) BY <1>2, <1>3, FineEntry
<1>5. Fine(ActToAct(level, acts, gap), l) BY FineRule DEF ActToAct
<1>6. 2 \in Int OBVIOUS
<1>7. Fine(TwoCycleActivate, l) BY <1>6, FineRule DEF TwoCycleActivate
<1> QED BY <1>4, <1>5, <1>7

LEMMA FineRefreshAll ==
  ASSUME NEW l, NEW level, NEW W \in Times, NEW precharges, NEW rtp \in Int, NEW acts
  PROVE  Fine(RefreshAll(level, W, precharges, rtp, acts), l)
<1>1. W.nCWL \in Int /\ W.nBL \in Int /\ W.nWR \in Int /\ W.nRC \in Int /\ W.nRP \in Int /\ W.nRFC \in Int
  BY DEF Times, TimingNames
<1> DEFINE a == W.nRC
           b == W.nRP
           c == W.nRP + rtp
           d == Recovered(W) + W.nRP
           e == W.nRFC
<1>2. a \in Int /\ b \in Int /\ c \in Int /\ d \in Int /\ e \in Int BY <1>1 DEF Recovered, WriteEnd
<1>3. RefreshAll(level, W, precharges, rtp, acts) =
        Rule(level, {"ACT"}, {"REFab"}, a) \cup Rule(level, precharges, {"REFab"}, b)
        \cup Rule(level, {"RDA"}, {"REFab"}, c) \cup Rule(level, {"WRA"}, {"REFab"}, d)
        \cup Rule(level, {"REFab"}, acts, e)
  BY DEF RefreshAll
<1> HIDE DEF a, b, c, d, e
<1>4. ASSUME NEW P, NEW F
      PROVE  /\ Fine(Rule(level, P, F, a), l)
             /\ Fine(Rule(level, P, F, b), l)
             /\ Fine(Rule(level, P, F, c), l)
             /\ Fine(Rule(level, P, F, d), l)
             /\ Fine(Rule(level, P, F, e), l)
  BY <1>2, FineRule
<1> QED BY <1>3, <1>4, FineUnion

LEMMA FineBankCycle ==
  ASSUME NEW l, NEW level, NEW W \in Times, NEW rtp \in Int, NEW acts
  PROVE  Fine(BankCycle(level, W, rtp, acts), l)
<1>1. W.nCWL \in Int /\ W.nBL \in Int /\ W.nWR \in Int /\ W.nRAS \in Int /\ W.nRP \in Int
  BY DEF Times, TimingNames
<1> DEFINE a == W.nRAS
           b == W.nRP
           c == Recovered(W)
           d == rtp + W.nRP
           e == Recovered(W) + W.nRP
<1>2. a \in Int /\ b \in Int /\ c \in Int /\ d \in Int /\ e \in Int BY <1>1 DEF Recovered, WriteEnd
<1>3. BankCycle(level, W, rtp, acts) =
        Rule(level, {"ACT"}, {"PRE"}, a) \cup Rule(level, {"PRE"}, acts, b)
        \cup Rule(level, {"RD"}, {"PRE"}, rtp) \cup Rule(level, {"WR"}, {"PRE"}, c)
        \cup Rule(level, {"RDA"}, acts, d) \cup Rule(level, {"WRA"}, acts, e)
  BY DEF BankCycle
<1> HIDE DEF a, b, c, d, e
<1>4. ASSUME NEW P, NEW F
      PROVE  /\ Fine(Rule(level, P, F, a), l)
             /\ Fine(Rule(level, P, F, b), l)
             /\ Fine(Rule(level, P, F, c), l)
             /\ Fine(Rule(level, P, F, d), l)
             /\ Fine(Rule(level, P, F, e), l)
             /\ Fine(Rule(level, P, F, rtp), l)
  BY <1>2, FineRule
<1> QED BY <1>3, <1>4, FineUnion

LEMMA FineRowToColumn ==
  ASSUME NEW l, NEW level, NEW W \in Times, NEW rcdrd \in Int, NEW rcdwr \in Int
  PROVE  Fine(RowToColumn(level, W, rcdrd, rcdwr), l)
BY FineUnion, FineRule DEF RowToColumn

LEMMA FineHBMBank ==
  ASSUME NEW l, NEW group \in Int, NEW W \in Times
  PROVE  Fine(HBMBank(group, W), l)
<1>1. /\ W.nCCDL \in Int /\ W.nWTRL \in Int /\ W.nRRDL \in Int /\ W.nRTPS \in Int /\ W.nRC \in Int
      /\ W.nRCDRD \in Int /\ W.nRCDWR \in Int /\ W.nRTPL \in Int
  BY DEF Times, TimingNames
<1>2. Fine(Bus(group, W.nCCDL), l) /\ Fine(WriteToRead(group, W, W.nWTRL), l)
  BY <1>1, FineBus, FineTurnaround
<1>3. Fine(ActToAct(group, {"ACT"}, W.nRRDL), l) BY <1>1, FineActivates
<1>4. /\ Fine(Rule(group + 1, {"RD"}, {"PRE"}, W.nRTPS), l)
      /\ Fine(Rule(group + 1, {"ACT"}, {"ACT"}, W.nRC), l)
      /\ Fine(RowToColumn(group + 1, W, W.nRCDRD, W.nRCDWR), l)
      /\ Fine(BankCycle(group + 1, W, W.nRTPL, {"ACT"}), l)
  BY <1>1, FineRule, FineRowToColumn, FineBankCycle
<1> QED BY <1>2, <1>3, <1>4, FineUnion DEF HBMBank

\* The values of a device, and the level of its window.
LEMMA TimingValues ==
  /\ V \in Times /\ [V EXCEPT !.nRP = V.nRPab] \in Times
  /\ \A n \in TimingNames : V[n] \in Nat /\ V[n] \in Int
<1>1. V \in [TimingNames -> Nat] BY DRAMDeviceAssumption
<1>2. V.nRPab \in Nat BY <1>1 DEF TimingNames
<1>3. \A n \in TimingNames : V[n] \in Nat /\ V[n] \in Int BY <1>1
<1> QED BY <1>1, <1>2, <1>3 DEF Times

LEMMA FineDDR ==
  /\ Fine(DDR3Timings(V), 1) /\ Fine(DDR4Timings(V), 1) /\ Fine(DDR4VRRTimings(V), 1)
<1>1. V \in Times BY TimingValues
<1>2. /\ V.nBL \in Int /\ V.nCCDS \in Int /\ V.nWTRS \in Int /\ V.nRTP \in Int /\ V.nRRDS \in Int
      /\ V.nRC \in Int /\ V.nRCD \in Int /\ V.nCCDL \in Int /\ V.nWTRL \in Int /\ V.nRRDL \in Int
      /\ V.nVRR \in Int /\ 2 \in Int
  BY TimingValues DEF TimingNames
<1>3. /\ Fine(Bus(0, V.nBL), 1) /\ Fine(Bus(1, V.nCCDS), 1) /\ Fine(Bus(2, V.nCCDL), 1)
      /\ Fine(Turnaround(1, V, 2, V.nWTRS), 1) /\ Fine(RankSwitch(1, V), 1)
      /\ Fine(PrechargeAll(1, V, V.nRTP), 1) /\ Fine(WriteToRead(2, V, V.nWTRL), 1)
  BY <1>1, <1>2, FineBus, FineTurnaround, FineRankSwitch, FinePrechargeAll
<1>4. ASSUME NEW acts
      PROVE  /\ Fine(ActToAct(1, acts, V.nRRDS), 1) /\ Fine(Window(1, acts, V), 1)
             /\ Fine(RefreshAll(1, V, BothPrecharges, V.nRTP, acts), 1)
             /\ Fine(ActToAct(2, acts, V.nRRDL), 1) /\ Fine(ActToAct(3, acts, V.nVRR), 1)
             /\ \A level : Fine(BankCycle(level, V, V.nRTP, acts), 1)
             /\ \A level : Fine(Rule(level, {"ACT"}, acts, V.nRC), 1)
  BY <1>1, <1>2, FineActivates, FineRefreshAll, FineBankCycle, FineRule
<1>5. \A level : Fine(RowToColumn(level, V, V.nRCD, V.nRCD), 1) BY <1>1, <1>2, FineRowToColumn
<1>6. Fine(Rule(1, {"VRR"}, {"REFab"}, V.nVRR), 1) BY <1>2, FineRule
<1>7. Fine(DDR3Timings(V), 1)
  <2>1. /\ Fine(ActToAct(1, {"ACT"}, V.nRRDS), 1) /\ Fine(Window(1, {"ACT"}, V), 1)
        /\ Fine(RefreshAll(1, V, BothPrecharges, V.nRTP, {"ACT"}), 1)
        /\ Fine(BankCycle(2, V, V.nRTP, {"ACT"}), 1)
        /\ Fine(Rule(2, {"ACT"}, {"ACT"}, V.nRC), 1)
        /\ Fine(RowToColumn(2, V, V.nRCD, V.nRCD), 1)
    BY <1>4, <1>5
  <2> QED BY <1>3, <2>1, FineUnion DEF DDR3Timings
<1>8. Fine(DDR4Timings(V), 1)
  <2>1. /\ Fine(ActToAct(1, {"ACT"}, V.nRRDS), 1) /\ Fine(Window(1, {"ACT"}, V), 1)
        /\ Fine(RefreshAll(1, V, BothPrecharges, V.nRTP, {"ACT"}), 1)
        /\ Fine(ActToAct(2, {"ACT"}, V.nRRDL), 1)
        /\ Fine(BankCycle(3, V, V.nRTP, {"ACT"}), 1)
        /\ Fine(Rule(3, {"ACT"}, {"ACT"}, V.nRC), 1)
        /\ Fine(RowToColumn(3, V, V.nRCD, V.nRCD), 1)
    BY <1>4, <1>5
  <2> DEFINE top == Bus(0, V.nBL) \cup Bus(1, V.nCCDS) \cup Turnaround(1, V, 2, V.nWTRS)
                      \cup RankSwitch(1, V) \cup PrechargeAll(1, V, V.nRTP)
                      \cup ActToAct(1, {"ACT"}, V.nRRDS) \cup Window(1, {"ACT"}, V)
                      \cup RefreshAll(1, V, BothPrecharges, V.nRTP, {"ACT"})
  <2>2. Fine(top, 1) BY <1>3, <2>1, FineUnion
  <2> DEFINE mid == top \cup Bus(2, V.nCCDL) \cup WriteToRead(2, V, V.nWTRL)
                      \cup ActToAct(2, {"ACT"}, V.nRRDL)
  <2>3. DDR4Timings(V) =
          mid \cup Rule(3, {"ACT"}, {"ACT"}, V.nRC) \cup RowToColumn(3, V, V.nRCD, V.nRCD)
          \cup BankCycle(3, V, V.nRTP, {"ACT"})
    BY Zenon DEF DDR4Timings
  <2> HIDE DEF top
  <2>4. Fine(mid, 1) BY <1>3, <2>1, <2>2, FineUnion
  <2> HIDE DEF mid
  <2> QED BY <2>1, <2>3, <2>4, FineUnion
<1>9. Fine(DDR4VRRTimings(V), 1)
  <2> DEFINE acts == {"ACT", "VRR"}
             top == Bus(0, V.nBL) \cup Bus(1, V.nCCDS) \cup Turnaround(1, V, 2, V.nWTRS)
                      \cup RankSwitch(1, V) \cup PrechargeAll(1, V, V.nRTP)
                      \cup ActToAct(1, acts, V.nRRDS) \cup Window(1, {"ACT"}, V)
                      \cup RefreshAll(1, V, BothPrecharges, V.nRTP, acts)
                      \cup Rule(1, {"VRR"}, {"REFab"}, V.nVRR)
  <2>1. Fine(top, 1)
    <3>1. /\ Fine(ActToAct(1, acts, V.nRRDS), 1) /\ Fine(Window(1, {"ACT"}, V), 1)
          /\ Fine(RefreshAll(1, V, BothPrecharges, V.nRTP, acts), 1)
      BY <1>4
    <3> HIDE DEF acts
    <3> QED BY <1>3, <1>6, <3>1, FineUnion
  <2>2. /\ Fine(ActToAct(2, acts, V.nRRDL), 1) /\ Fine(ActToAct(3, acts, V.nVRR), 1)
        /\ Fine(BankCycle(3, V, V.nRTP, acts), 1) /\ Fine(Rule(3, {"ACT"}, acts, V.nRC), 1)
        /\ Fine(RowToColumn(3, V, V.nRCD, V.nRCD), 1)
    BY <1>4, <1>5
  <2> DEFINE mid == top \cup Bus(2, V.nCCDL) \cup WriteToRead(2, V, V.nWTRL) \cup ActToAct(2, acts, V.nRRDL)
  <2>3. DDR4VRRTimings(V) =
          mid \cup Rule(3, {"ACT"}, acts, V.nRC) \cup ActToAct(3, acts, V.nVRR)
          \cup RowToColumn(3, V, V.nRCD, V.nRCD) \cup BankCycle(3, V, V.nRTP, acts)
    BY Zenon DEF DDR4VRRTimings
  <2> HIDE DEF acts, top
  <2>4. Fine(mid, 1) BY <1>3, <2>1, <2>2, FineUnion
  <2> HIDE DEF mid
  <2> QED BY <2>2, <2>3, <2>4, FineUnion
<1> QED BY <1>7, <1>8, <1>9

LEMMA FineLaterDDR ==
  Fine(DDR5Timings(V), 1) /\ Fine(LPDDR5Timings(V), 1)
<1> DEFINE U == [V EXCEPT !.nRP = V.nRPab]
           acts == {"ACT"}
           turn == V.nCL + V.nBL + 2 - V.nCWL + 2
           late == Recovered(V) - V.nRTP
<1>1. V \in Times /\ U \in Times BY TimingValues
<1>2. /\ V.nBL \in Int /\ V.nCCDS \in Int /\ V.nWTRS \in Int /\ V.nRTP \in Int /\ V.nRRDS \in Int
      /\ V.nRC \in Int /\ V.nRCD \in Int /\ V.nCCDL \in Int /\ V.nWTRL \in Int /\ V.nRRDL \in Int
      /\ V.nCCDSWR \in Int /\ V.nCCDSWTR \in Int /\ V.nCCDLWR \in Int /\ V.nCCDLWTR \in Int
      /\ V.nRPab \in Int /\ V.nCL \in Int /\ V.nCWL \in Int /\ V.nWR \in Int /\ 2 \in Int
  BY TimingValues DEF TimingNames
<1>3. turn \in Int /\ late \in Int BY <1>2 DEF Recovered, WriteEnd
<1> HIDE DEF U, turn, late
<1>4. /\ Fine(Bus(0, V.nBL), 1) /\ Fine(Bus(1, V.nCCDS), 1) /\ Fine(Bus(2, V.nCCDS), 1)
      /\ Fine(Turnaround(1, V, 2, V.nWTRS), 1) /\ Fine(RankSwitch(1, V), 1)
      /\ Fine(PrechargeAll(1, V, V.nRTP), 1) /\ Fine(PrechargeAll(1, U, V.nRTP), 1)
      /\ Fine(WriteToRead(2, V, V.nWTRL), 1)
  BY <1>1, <1>2, FineBus, FineTurnaround, FineRankSwitch, FinePrechargeAll
<1>5. /\ Fine(ActToAct(1, acts, V.nRRDS), 1) /\ Fine(Window(1, acts, V), 1)
      /\ Fine(RefreshAll(1, V, BothPrecharges, V.nRTP, acts), 1)
      /\ Fine(RefreshAll(1, V, {"PRE"}, V.nRTP, {"ACT", "REFab"}), 1)
      /\ Fine(ActToAct(2, acts, V.nRRDL), 1) /\ Fine(ActToAct(2, acts, V.nRRDS), 1)
      /\ Fine(BankCycle(3, V, V.nRTP, acts), 1) /\ Fine(RowToColumn(3, V, V.nRCD, V.nRCD), 1)
  BY <1>1, <1>2, FineActivates, FineRefreshAll, FineBankCycle, FineRowToColumn
<1>6. ASSUME NEW level, NEW P, NEW F
      PROVE  /\ Fine(Rule(level, P, F, 2), 1) /\ Fine(Rule(level, P, F, V.nCCDS), 1)
             /\ Fine(Rule(level, P, F, V.nCCDSWR), 1) /\ Fine(Rule(level, P, F, turn), 1)
             /\ Fine(Rule(level, P, F, V.nCCDSWTR), 1) /\ Fine(Rule(level, P, F, V.nCCDL), 1)
             /\ Fine(Rule(level, P, F, V.nCCDLWR), 1) /\ Fine(Rule(level, P, F, V.nCCDLWTR), 1)
             /\ Fine(Rule(level, P, F, V.nRC), 1) /\ Fine(Rule(level, P, F, late), 1)
             /\ Fine(Rule(level, P, F, V.nRPab), 1)
  BY <1>2, <1>3, FineRule
<1> HIDE DEF acts
<1>7. Fine(DDR5Timings(V), 1)
  <2> DEFINE all == {"ACT", "PRE", "PREA", "REFab"} \cup Reads \cup Writes
             some == {"ACT"} \cup Reads \cup Writes
             top == Rule(0, some, all, 2) \cup Bus(0, V.nBL)
                      \cup Rule(1, Reads, Reads, V.nCCDS) \cup Rule(1, Writes, Writes, V.nCCDSWR)
                      \cup Rule(1, Reads, Writes, turn) \cup Rule(1, Writes, Reads, V.nCCDSWTR)
                      \cup RankSwitch(1, V) \cup PrechargeAll(1, V, V.nRTP)
             bottom == Rule(2, Reads, Reads, V.nCCDL) \cup Rule(2, Writes, Writes, V.nCCDLWR)
                         \cup Rule(2, Writes, Reads, V.nCCDLWTR)
  <2>1. Fine(top, 1)
    <3>1. /\ Fine(Rule(0, some, all, 2), 1) /\ Fine(Rule(1, Reads, Reads, V.nCCDS), 1)
          /\ Fine(Rule(1, Writes, Writes, V.nCCDSWR), 1) /\ Fine(Rule(1, Reads, Writes, turn), 1)
          /\ Fine(Rule(1, Writes, Reads, V.nCCDSWTR), 1)
      BY <1>6
    <3> HIDE DEF all, some
    <3> QED BY <1>4, <3>1, FineUnion
  <2>2. /\ Fine(Rule(2, Reads, Reads, V.nCCDL), 1) /\ Fine(Rule(2, Writes, Writes, V.nCCDLWR), 1)
        /\ Fine(Rule(2, Writes, Reads, V.nCCDLWTR), 1) /\ Fine(Rule(3, acts, acts, V.nRC), 1)
        /\ Fine(Rule(3, {"WR"}, {"RDA"}, late), 1)
    BY <1>6
  <2>3. Fine(bottom, 1) BY <2>2, FineUnion
  <2> DEFINE mid == top \cup ActToAct(1, acts, V.nRRDS) \cup Window(1, acts, V)
                      \cup RefreshAll(1, V, BothPrecharges, V.nRTP, acts) \cup bottom
  <2>4. DDR5Timings(V) =
          mid \cup ActToAct(2, acts, V.nRRDL) \cup Rule(3, acts, acts, V.nRC)
          \cup RowToColumn(3, V, V.nRCD, V.nRCD) \cup BankCycle(3, V, V.nRTP, acts)
          \cup Rule(3, {"WR"}, {"RDA"}, late)
    BY DEF DDR5Timings, turn, late, acts
  <2> HIDE DEF top, bottom
  <2>5. Fine(mid, 1) BY <1>5, <2>1, <2>3, FineUnion
  <2> HIDE DEF mid
  <2>6. Fine(mid \cup ActToAct(2, acts, V.nRRDL) \cup Rule(3, acts, acts, V.nRC), 1)
    BY <1>5, <2>2, <2>5, FineUnion
  <2>7. Fine(RowToColumn(3, V, V.nRCD, V.nRCD) \cup BankCycle(3, V, V.nRTP, acts)
               \cup Rule(3, {"WR"}, {"RDA"}, late), 1)
    BY <1>5, <2>2, FineUnion
  <2>8. DDR5Timings(V) =
          (mid \cup ActToAct(2, acts, V.nRRDL) \cup Rule(3, acts, acts, V.nRC))
          \cup (RowToColumn(3, V, V.nRCD, V.nRCD) \cup BankCycle(3, V, V.nRTP, acts)
                \cup Rule(3, {"WR"}, {"RDA"}, late))
    BY <2>4, Zenon
  <2> QED BY <2>6, <2>7, <2>8, FineUnion
<1>8. Fine(LPDDR5Timings(V), 1)
  <2>1. Fine(Rule(1, {"PREA"}, {"REFab"}, V.nRPab), 1) /\ Fine(Rule(3, acts, acts, V.nRC), 1) BY <1>6
  <2> DEFINE top == Bus(0, V.nBL) \cup Bus(1, V.nCCDS) \cup Turnaround(1, V, 2, V.nWTRS)
                      \cup RankSwitch(1, V) \cup PrechargeAll(1, U, V.nRTP)
             mid == top \cup ActToAct(1, acts, V.nRRDS) \cup Window(1, acts, V)
                      \cup RefreshAll(1, V, {"PRE"}, V.nRTP, {"ACT", "REFab"})
                      \cup Rule(1, {"PREA"}, {"REFab"}, V.nRPab)
             low == mid \cup Bus(2, V.nCCDS) \cup WriteToRead(2, V, V.nWTRL) \cup ActToAct(2, acts, V.nRRDS)
  <2>2. LPDDR5Timings(V) =
          low \cup Rule(3, acts, acts, V.nRC) \cup RowToColumn(3, V, V.nRCD, V.nRCD)
          \cup BankCycle(3, V, V.nRTP, acts)
    BY Zenon DEF LPDDR5Timings, U, acts
  <2>3. Fine(top, 1) BY <1>4, FineUnion
  <2> HIDE DEF top
  <2>4. Fine(mid, 1) BY <1>5, <2>1, <2>3, FineUnion
  <2> HIDE DEF mid
  <2>5. Fine(low, 1) BY <1>4, <1>5, <2>4, FineUnion
  <2> HIDE DEF low
  <2> QED BY <1>5, <2>1, <2>2, <2>5, FineUnion
<1> QED BY <1>7, <1>8

LEMMA FineHBM ==
  /\ Fine(GDDR6Timings(V), 0) /\ Fine(HBMTimings(V), 0)
  /\ Fine(HBM2Timings(V), 1) /\ Fine(HBM3Timings(V), 2)
<1>1. V \in Times BY TimingValues
<1>2. /\ V.nBL \in Int /\ V.nCCDS \in Int /\ V.nWTRS \in Int /\ V.nRTP \in Int /\ V.nRRDS \in Int
      /\ V.nCCDL \in Int /\ V.nWTRL \in Int /\ V.nRRDL \in Int /\ V.nRAS \in Int /\ V.nRP \in Int
      /\ V.nRCDRD \in Int /\ V.nRCDWR \in Int /\ V.nRTPS \in Int /\ Recovered(V) \in Int
      /\ 2 \in Int /\ 4 \in Int /\ 1 \in Int /\ 3 \in Int
  <2>1. V.nWR \in Int /\ V.nCWL \in Int /\ V.nBL \in Int BY TimingValues DEF TimingNames
  <2> QED BY <2>1, TimingValues DEF TimingNames, Recovered, WriteEnd
<1>3. ASSUME NEW l, NEW level
      PROVE  /\ Fine(Bus(level, V.nBL), l) /\ Fine(Bus(level, V.nCCDS), l)
             /\ Fine(Bus(level, V.nCCDL), l) /\ Fine(Turnaround(level, V, 4, V.nWTRS), l)
             /\ Fine(Turnaround(level, V, 2, V.nWTRS), l) /\ Fine(WriteToRead(level, V, V.nWTRL), l)
             /\ Fine(PrechargeAll(level, V, V.nRTPS), l)
  BY <1>1, <1>2, FineBus, FineTurnaround, FinePrechargeAll
<1>4. ASSUME NEW l, NEW level, NEW acts
      PROVE  /\ Fine(ActToAct(level, acts, V.nRRDS), l) /\ Fine(Window(level, acts, V), level)
             /\ Fine(ActToAct(level, acts, V.nRRDL), l) /\ Fine(TwoCycleActivate, l)
             /\ Fine(RefreshAll(level, V, {"PRE"}, V.nRTP, acts), l)
             /\ Fine(RefreshAll(level, V, BothPrecharges, V.nRTPS, acts), l)
             /\ Fine(RowToColumn(level, V, V.nRCDRD, V.nRCDWR), l)
             /\ Fine(BankCycle(level, V, V.nRTP, acts), l)
  BY <1>1, <1>2, FineActivates, FineRefreshAll, FineBankCycle, FineRowToColumn
<1>5. ASSUME NEW l, NEW level, NEW P, NEW F
      PROVE  /\ Fine(Rule(level, P, F, V.nRTP), l) /\ Fine(Rule(level, P, F, Recovered(V)), l)
             /\ Fine(Rule(level, P, F, V.nRAS), l) /\ Fine(Rule(level, P, F, V.nRP), l)
  BY <1>2, FineRule
<1>6. \A l : Fine(HBMBank(1, V), l) /\ Fine(HBMBank(2, V), l) /\ Fine(HBMBank(3, V), l)
  BY <1>1, <1>2, FineHBMBank
<1>7. Fine(GDDR6Timings(V), 0)
  <2> DEFINE top == Bus(0, V.nBL) \cup Bus(0, V.nCCDS) \cup Turnaround(0, V, 4, V.nWTRS)
                      \cup Rule(0, {"RD"}, {"PREA"}, V.nRTP) \cup Rule(0, {"WR"}, {"PREA"}, Recovered(V))
             mid == top \cup ActToAct(0, {"ACT"}, V.nRRDS) \cup Window(0, {"ACT"}, V)
                      \cup Rule(0, {"ACT"}, {"PRE"}, V.nRAS) \cup Rule(0, {"PRE"}, {"ACT"}, V.nRP)
                      \cup RefreshAll(0, V, {"PRE"}, V.nRTP, {"ACT"})
  <2>1. GDDR6Timings(V) =
          mid \cup Bus(1, V.nCCDL) \cup WriteToRead(1, V, V.nWTRL) \cup ActToAct(1, {"ACT"}, V.nRRDL)
          \cup RowToColumn(2, V, V.nRCDRD, V.nRCDWR) \cup BankCycle(2, V, V.nRTP, {"ACT"})
    BY Zenon DEF GDDR6Timings
  <2>2. /\ Fine(Bus(0, V.nBL), 0) /\ Fine(Bus(0, V.nCCDS), 0) /\ Fine(Turnaround(0, V, 4, V.nWTRS), 0)
        /\ Fine(Rule(0, {"RD"}, {"PREA"}, V.nRTP), 0) /\ Fine(Rule(0, {"WR"}, {"PREA"}, Recovered(V)), 0)
    BY <1>3, <1>5
  <2>3. /\ Fine(ActToAct(0, {"ACT"}, V.nRRDS), 0) /\ Fine(Window(0, {"ACT"}, V), 0)
        /\ Fine(Rule(0, {"ACT"}, {"PRE"}, V.nRAS), 0) /\ Fine(Rule(0, {"PRE"}, {"ACT"}, V.nRP), 0)
        /\ Fine(RefreshAll(0, V, {"PRE"}, V.nRTP, {"ACT"}), 0)
    BY <1>4, <1>5
  <2>4. /\ Fine(Bus(1, V.nCCDL), 0) /\ Fine(WriteToRead(1, V, V.nWTRL), 0)
        /\ Fine(ActToAct(1, {"ACT"}, V.nRRDL), 0)
        /\ Fine(RowToColumn(2, V, V.nRCDRD, V.nRCDWR), 0) /\ Fine(BankCycle(2, V, V.nRTP, {"ACT"}), 0)
    BY <1>3, <1>4
  <2>5. Fine(top, 0) BY <2>2, FineUnion
  <2> HIDE DEF top
  <2>6. Fine(mid, 0) BY <2>3, <2>5, FineUnion
  <2> HIDE DEF mid
  <2> QED BY <2>1, <2>4, <2>6, FineUnion
<1>8. Fine(HBMTimings(V), 0)
  <2>1. /\ Fine(TwoCycleActivate, 0) /\ Fine(Bus(0, V.nBL), 0) /\ Fine(Bus(0, V.nCCDS), 0)
        /\ Fine(Turnaround(0, V, 2, V.nWTRS), 0) /\ Fine(PrechargeAll(0, V, V.nRTPS), 0)
        /\ Fine(ActToAct(0, {"ACT"}, V.nRRDS), 0) /\ Fine(Window(0, {"ACT"}, V), 0)
        /\ Fine(RefreshAll(0, V, BothPrecharges, V.nRTPS, {"ACT"}), 0) /\ Fine(HBMBank(1, V), 0)
    BY <1>3, <1>4, <1>6
  <2> QED BY <2>1, FineUnion DEF HBMTimings
<1>9. Fine(HBM2Timings(V), 1)
  <2>1. /\ Fine(TwoCycleActivate, 1) /\ Fine(Bus(1, V.nBL), 1) /\ Fine(Bus(1, V.nCCDS), 1)
        /\ Fine(Turnaround(1, V, 2, V.nWTRS), 1) /\ Fine(PrechargeAll(1, V, V.nRTPS), 1)
        /\ Fine(ActToAct(1, {"ACT"}, V.nRRDS), 1) /\ Fine(Window(1, {"ACT"}, V), 1)
        /\ Fine(RefreshAll(1, V, BothPrecharges, V.nRTPS, {"ACT"}), 1) /\ Fine(HBMBank(2, V), 1)
    BY <1>3, <1>4, <1>6
  <2> QED BY <2>1, FineUnion DEF HBM2Timings
<1>10. Fine(HBM3Timings(V), 2)
  <2>1. /\ Fine(TwoCycleActivate, 2) /\ Fine(Bus(1, V.nBL), 2) /\ Fine(PrechargeAll(1, V, V.nRTPS), 2)
        /\ Fine(RefreshAll(1, V, BothPrecharges, V.nRTPS, {"ACT"}), 2)
        /\ Fine(ActToAct(2, {"ACT"}, V.nRRDS), 2) /\ Fine(Window(2, {"ACT"}, V), 2)
        /\ Fine(Bus(2, V.nCCDS), 2) /\ Fine(Turnaround(2, V, 2, V.nWTRS), 2)
        /\ Fine(Rule(2, {"ACT"}, {"PREA"}, V.nRAS), 2) /\ Fine(Rule(2, {"PREA"}, {"ACT"}, V.nRP), 2)
        /\ Fine(HBMBank(3, V), 2)
    BY <1>3, <1>4, <1>5, <1>6
  <2> QED BY <2>1, FineUnion DEF HBM3Timings
<1> QED BY <1>7, <1>8, <1>9, <1>10

----------------------------------------------------------------------------
(* How long an issue makes a command wait.                                 *)

\* Bounded latencies, 0 among them, have a longest.
LEMMA LongestFacts ==
  ASSUME NEW lats \in SUBSET Int, 0 \in lats, NEW n \in Nat, \A l \in lats : l <= n
  PROVE  Longest(lats) \in Nat /\ \A l \in lats : l <= Longest(lats)
<1> DEFINE above == { m \in Nat : \A l \in lats : l <= m }
           least == Min(above)
<1>1. above \in SUBSET Nat /\ n \in above OBVIOUS
<1>2. least \in above /\ \A m \in above : least <= m
  <2> HIDE DEF above
  <2> QED BY <1>1, LeastOf
<1> HIDE DEF least
<1>3. least \in Nat /\ \A l \in lats : l <= least BY <1>2
<1>4. least \in lats
  <2> SUFFICES ASSUME least \notin lats PROVE FALSE OBVIOUS
  <2>1. least # 0 /\ least - 1 \in Nat BY <1>3
  <2>2. \A l \in lats : l <= least - 1 BY <1>3
  <2>3. least - 1 \in above BY <2>1, <2>2
  <2> HIDE DEF above
  <2> QED BY <1>2, <1>3, <2>3
<1>5. \E m \in lats : \A l \in lats : l <= m BY <1>3, <1>4
<1>6. Longest(lats) \in lats /\ \A l \in lats : l <= Longest(lats) BY <1>5 DEF Longest
<1> DEFINE longest == Longest(lats)
<1> HIDE DEF longest
<1>7. longest \in lats /\ \A l \in lats : l <= longest BY <1>6 DEF longest
<1>8. longest \in Int /\ longest >= 0 BY <1>7
<1>9. longest \in Nat BY <1>8
<1> QED BY <1>7, <1>9 DEF longest

\* The level of the activation window.
WindowAt == [s \in Standards |-> IF s \in {"GDDR6", "HBM"} THEN 0 ELSE IF s = "HBM3" THEN 2 ELSE 1]

LEMMA FineTables ==
  ASSUME NEW s \in Standards
  PROVE  Fine(Timing[s], WindowAt[s]) /\ Timing[s] = Timings(s, V)
<1>1. Timing[s] = Timings(s, V) BY StandardsAre DEF Timing
<1>2. CASE s \in {"DDR3", "DDR4", "DDR4_VRR"}
  <2>1. Timings(s, V) \in {DDR3Timings(V), DDR4Timings(V), DDR4VRRTimings(V)} BY <1>2 DEF Timings
  <2>2. WindowAt[s] = 1 BY <1>2 DEF WindowAt
  <2> QED BY <1>1, <2>1, <2>2, FineDDR
<1>3. CASE s \in {"DDR5", "LPDDR5"}
  <2>1. Timings(s, V) \in {DDR5Timings(V), LPDDR5Timings(V)} BY <1>3 DEF Timings
  <2>2. WindowAt[s] = 1 BY <1>3 DEF WindowAt
  <2> QED BY <1>1, <2>1, <2>2, FineLaterDDR
<1>4. CASE s \in {"GDDR6", "HBM"}
  <2>1. Timings(s, V) \in {GDDR6Timings(V), HBMTimings(V)} BY <1>4 DEF Timings
  <2>2. WindowAt[s] = 0 BY <1>4 DEF WindowAt
  <2> QED BY <1>1, <2>1, <2>2, FineHBM
<1>5. CASE s = "HBM2"
  <2>1. Timings(s, V) = HBM2Timings(V) BY <1>5 DEF Timings
  <2>2. WindowAt[s] = 1 BY <1>5 DEF WindowAt
  <2> QED BY <1>1, <2>1, <2>2, FineHBM
<1>6. CASE s = "HBM3"
  <2>1. Timings(s, V) = HBM3Timings(V) BY <1>6 DEF Timings
  <2>2. WindowAt[s] = 2 BY <1>6 DEF WindowAt
  <2> QED BY <1>1, <2>1, <2>2, FineHBM
<1> QED BY <1>2, <1>3, <1>4, <1>5, <1>6 DEF Standards

\* The constraint that next waits lat cycles after prev at a node of a level.
Waits(level, prev, next, lat) ==
  [level |-> level, prev |-> prev, next |-> next, lat |-> lat, window |-> 1, sibling |-> FALSE]

LEMMA LatencyFacts ==
  ASSUME NEW s \in Standards, NEW level \in 0 .. Depth(s), NEW beside \in BOOLEAN,
         NEW prev \in Cmds(s), NEW next \in Cmds(s)
  PROVE  /\ Latency[s][level][beside][prev][next] \in Nat
         /\ \A lat : Waits(level, prev, next, lat) \in Timing[s] /\ ~beside =>
              lat \in Int /\ lat <= Latency[s][level][beside][prev][next]
<1> DEFINE picked == { t \in Timing[s] : /\ t.level = level /\ t.sibling = beside /\ t.window = 1
                                         /\ t.prev = prev /\ t.next = next }
           lats == {0} \cup { k.lat : k \in picked }
<1>1. Latency[s][level][beside][prev][next] = Longest(lats) BY StandardsAre DEF Latency
<1>2. PICK n \in Nat : \A k \in Timing[s] : k.lat \in Int /\ k.lat <= n BY FineTables DEF Fine
<1>3. lats \in SUBSET Int /\ \A l \in lats : l <= n BY <1>2
<1>4. 0 \in lats OBVIOUS
<1>5. ASSUME NEW lat, Waits(level, prev, next, lat) \in Timing[s], ~beside
      PROVE  lat \in lats /\ lat \in Int
  <2> DEFINE k == Waits(level, prev, next, lat)
  <2>1. /\ k.level = level /\ k.sibling = FALSE /\ k.window = 1 /\ k.prev = prev
        /\ k.next = next /\ k.lat = lat
    BY DEF Waits
  <2>2. beside = FALSE BY <1>5
  <2> HIDE DEF k
  <2>3. k \in Timing[s] BY <1>5 DEF k
  <2>4. k \in picked BY <2>1, <2>2, <2>3
  <2>5. lat \in { j.lat : j \in picked } BY <2>1, <2>4
  <2>6. lat \in Int BY <1>2, <2>1, <2>3
  <2> QED BY <2>5, <2>6
<1> HIDE DEF lats, picked
<1>6. Longest(lats) \in Nat /\ \A l \in lats : l <= Longest(lats) BY <1>3, <1>4, LongestFacts
<1> QED BY <1>1, <1>5, <1>6

\* Within the levels 0 .. top, next waits at least t cycles after prev.
Asks(table, top, prev, next, t) ==
  \E level \in 0 .. top : \E lat \in Int : t <= lat /\ Waits(level, prev, next, lat) \in table

LEMMA AskedByRule ==
  ASSUME NEW table, NEW top \in Nat, NEW level \in 0 .. top, NEW P, NEW F, NEW lat \in Int,
         NEW t \in Int, t <= lat, Rule(level, P, F, lat) \subseteq table, NEW p \in P, NEW n \in F
  PROVE  Asks(table, top, p, n, t)
<1> DEFINE k(a, b) == Waits(level, a, b, lat)
<1>3. Rule(level, P, F, lat) = { k(a, b) : a \in P, b \in F }
  BY DEF Rule, Entry, Waits
<1>1. k(p, n) \in { k(a, b) : a \in P, b \in F }
  <2> HIDE DEF k
  <2> QED OBVIOUS
<1>2. Waits(level, p, n, lat) \in table BY <1>1, <1>3
<1> QED BY <1>2 DEF Asks

LEMMA DepthIs ==
  ASSUME NEW s \in Standards
  PROVE  Depth(s) = IF s \in {"DDR3", "GDDR6", "HBM"} THEN 2 ELSE IF s = "HBM3" THEN 4 ELSE 3
<1>1. \A a, b, c : Len(<<a, b, c>>) = 3 OBVIOUS
<1>2. \A a, b, c, d : Len(<<a, b, c, d>>) = 4 OBVIOUS
<1>3. \A a, b, c, d, e : Len(<<a, b, c, d, e>>) = 5 OBVIOUS
<1>4. \A t, leaf, all : CommandTable(t, leaf, all).levels = t BY DEF CommandTable
<1>5. CASE s \in {"DDR3", "GDDR6", "HBM"}
  <2>1. Commands[s] \in {DDR3Commands, GDDR6Commands, HBMCommands} BY <1>5 DEF Commands
  <2>2. Len(Commands[s].levels) = 3
    BY <1>1, <1>4, <2>1 DEF DDR3Commands, GDDR6Commands, HBMCommands
  <2> QED BY <1>5, <2>2 DEF Depth
<1>6. CASE s \in {"DDR4", "DDR4_VRR", "DDR5", "LPDDR5", "HBM2"}
  <2>1. Commands[s] \in {DDR4Commands, DDR4VRRCommands, DDR5Commands, LPDDR5Commands, HBM2Commands}
    BY <1>6 DEF Commands
  <2>2. Len(Commands[s].levels) = 4
    BY <1>2, <1>4, <2>1 DEF DDR4Commands, DDR4VRRCommands, DDR5Commands, LPDDR5Commands, HBM2Commands
  <2> QED BY <1>6, <2>2 DEF Depth
<1>7. CASE s = "HBM3"
  <2>1. Commands[s] = HBM3Commands BY <1>7 DEF Commands
  <2>2. Len(Commands[s].levels) = 5 BY <1>3, <1>4, <2>1 DEF HBM3Commands
  <2> QED BY <1>7, <2>2 DEF Depth
<1> QED BY <1>5, <1>6, <1>7 DEF Standards

\* The row cycle of a bank.
BankAsks(table, top) ==
  Asks(table, top, "ACT", "PRE", V.nRAS) /\ Asks(table, top, "PRE", "ACT", V.nRP)

LEMMA BankTable ==
  ASSUME NEW s \in Standards
  PROVE  BankAsks(Timing[s], Depth(s))
<1> DEFINE T == Timing[s]
           d == Depth(s)
<1>1. T = Timings(s, V) BY FineTables
<1>2. d = IF s \in {"DDR3", "GDDR6", "HBM"} THEN 2 ELSE IF s = "HBM3" THEN 4 ELSE 3 BY DepthIs
<1>3. /\ BankCycle(2, V, V.nRTP, {"ACT"}) \subseteq DDR3Timings(V)
      /\ BankCycle(3, V, V.nRTP, {"ACT"}) \subseteq DDR4Timings(V)
      /\ BankCycle(3, V, V.nRTP, {"ACT", "VRR"}) \subseteq DDR4VRRTimings(V)
      /\ BankCycle(3, V, V.nRTP, {"ACT"}) \subseteq DDR5Timings(V)
      /\ BankCycle(3, V, V.nRTP, {"ACT"}) \subseteq LPDDR5Timings(V)
      /\ BankCycle(2, V, V.nRTP, {"ACT"}) \subseteq GDDR6Timings(V)
  BY Zenon DEF DDR3Timings, DDR4Timings, DDR4VRRTimings, DDR5Timings, LPDDR5Timings, GDDR6Timings
<1>4. /\ BankCycle(1 + 1, V, V.nRTPL, {"ACT"}) \subseteq HBMTimings(V)
      /\ BankCycle(2 + 1, V, V.nRTPL, {"ACT"}) \subseteq HBM2Timings(V)
      /\ BankCycle(3 + 1, V, V.nRTPL, {"ACT"}) \subseteq HBM3Timings(V)
  <2>1. \A g : BankCycle(g + 1, V, V.nRTPL, {"ACT"}) \subseteq HBMBank(g, V) BY DEF HBMBank
  <2> QED BY <2>1 DEF HBMTimings, HBM2Timings, HBM3Timings
<1>5. 1 + 1 = 2 /\ 2 + 1 = 3 /\ 3 + 1 = 4 OBVIOUS
<1>6. \E rtp : \E acts : "ACT" \in acts /\ BankCycle(d, V, rtp, acts) \subseteq T
  <2>1. CASE s = "DDR3" BY <1>1, <1>2, <1>3, <2>1 DEF Timings
  <2>2. CASE s = "DDR4" BY <1>1, <1>2, <1>3, <2>2 DEF Timings
  <2>3. CASE s = "DDR4_VRR" BY <1>1, <1>2, <1>3, <2>3 DEF Timings
  <2>4. CASE s = "DDR5" BY <1>1, <1>2, <1>3, <2>4 DEF Timings
  <2>5. CASE s = "LPDDR5" BY <1>1, <1>2, <1>3, <2>5 DEF Timings
  <2>6. CASE s = "GDDR6" BY <1>1, <1>2, <1>3, <2>6 DEF Timings
  <2>7. CASE s = "HBM" BY <1>1, <1>2, <1>4, <1>5, <2>7 DEF Timings
  <2>8. CASE s = "HBM2" BY <1>1, <1>2, <1>4, <1>5, <2>8 DEF Timings
  <2>9. CASE s = "HBM3" BY <1>1, <1>2, <1>4, <1>5, <2>9 DEF Timings
  <2> QED BY <2>1, <2>2, <2>3, <2>4, <2>5, <2>6, <2>7, <2>8, <2>9 DEF Standards
<1>7. PICK rtp, acts : "ACT" \in acts /\ BankCycle(d, V, rtp, acts) \subseteq T BY <1>6
<1>8. /\ Rule(d, {"ACT"}, {"PRE"}, V.nRAS) \subseteq T
      /\ Rule(d, {"PRE"}, acts, V.nRP) \subseteq T
  BY <1>7 DEF BankCycle
<1>9. V.nRAS \in Int /\ V.nRP \in Int BY TimingValues DEF TimingNames
<1>10. d \in Nat /\ d \in 0 .. d BY <1>2
<1> HIDE DEF T, d
<1>11. Asks(T, d, "ACT", "PRE", V.nRAS) BY <1>8, <1>9, <1>10, AskedByRule
<1>12. Asks(T, d, "PRE", "ACT", V.nRP) BY <1>7, <1>8, <1>9, <1>10, AskedByRule
<1> QED BY <1>11, <1>12 DEF T, d, BankAsks

\* Precharges and refreshes of a rank.
Ranked == {"DDR3", "DDR4", "DDR4_VRR", "DDR5", "LPDDR5"}

RankAsks(table) ==
  /\ Asks(table, 1, "ACT", "PREA", V.nRAS) /\ Asks(table, 1, "PREA", "ACT", V.nRP)
  /\ Asks(table, 1, "PRE", "REFab", V.nRP) /\ Asks(table, 1, "PREA", "REFab", V.nRP)
  /\ Asks(table, 1, "REFab", "ACT", V.nRFC)

LEMMA RankTable ==
  ASSUME NEW s \in Ranked, s = "LPDDR5" => V.nRP <= V.nRPab
  PROVE  RankAsks(Timing[s])
<1> DEFINE T == Timing[s]
           U == [V EXCEPT !.nRP = V.nRPab]
<1>1. T = Timings(s, V)
  <2>1. s \in Standards BY DEF Ranked, Standards
  <2> QED BY <2>1, FineTables
<1>2. /\ V.nRAS \in Int /\ V.nRP \in Int /\ V.nRPab \in Int /\ V.nRFC \in Int
      /\ U.nRAS = V.nRAS /\ U.nRP = V.nRPab
  BY TimingValues DEF TimingNames, Times
<1>3. /\ PrechargeAll(1, V, V.nRTP) \subseteq DDR3Timings(V)
      /\ RefreshAll(1, V, BothPrecharges, V.nRTP, {"ACT"}) \subseteq DDR3Timings(V)
      /\ PrechargeAll(1, V, V.nRTP) \subseteq DDR4Timings(V)
      /\ RefreshAll(1, V, BothPrecharges, V.nRTP, {"ACT"}) \subseteq DDR4Timings(V)
      /\ PrechargeAll(1, V, V.nRTP) \subseteq DDR4VRRTimings(V)
      /\ RefreshAll(1, V, BothPrecharges, V.nRTP, {"ACT", "VRR"}) \subseteq DDR4VRRTimings(V)
      /\ PrechargeAll(1, V, V.nRTP) \subseteq DDR5Timings(V)
      /\ RefreshAll(1, V, BothPrecharges, V.nRTP, {"ACT"}) \subseteq DDR5Timings(V)
  BY Zenon DEF DDR3Timings, DDR4Timings, DDR4VRRTimings, DDR5Timings
<1>4. /\ PrechargeAll(1, U, V.nRTP) \subseteq LPDDR5Timings(V)
      /\ RefreshAll(1, V, {"PRE"}, V.nRTP, {"ACT", "REFab"}) \subseteq LPDDR5Timings(V)
      /\ Rule(1, {"PREA"}, {"REFab"}, V.nRPab) \subseteq LPDDR5Timings(V)
  BY Zenon DEF LPDDR5Timings
<1> DEFINE Has(W, pre, acts) == /\ PrechargeAll(1, W, V.nRTP) \subseteq T
                                /\ RefreshAll(1, V, pre, V.nRTP, acts) \subseteq T
<1>5. \/ /\ s \in {"DDR3", "DDR4", "DDR4_VRR", "DDR5"}
         /\ \E acts : "ACT" \in acts /\ Has(V, BothPrecharges, acts)
      \/ s = "LPDDR5" /\ Has(U, {"PRE"}, {"ACT", "REFab"})
           /\ Rule(1, {"PREA"}, {"REFab"}, V.nRPab) \subseteq T
  <2> HIDE DEF U
  <2>1. CASE s = "DDR3" BY <1>1, <1>3, <2>1 DEF Timings
  <2>2. CASE s = "DDR4" BY <1>1, <1>3, <2>2 DEF Timings
  <2>3. CASE s = "DDR4_VRR" BY <1>1, <1>3, <2>3 DEF Timings
  <2>4. CASE s = "DDR5" BY <1>1, <1>3, <2>4 DEF Timings
  <2>5. CASE s = "LPDDR5" BY <1>1, <1>4, <2>5 DEF Timings
  <2> QED BY <2>1, <2>2, <2>3, <2>4, <2>5 DEF Ranked
<1>6. ASSUME NEW W, W.nRAS = V.nRAS, W.nRP \in Int, V.nRP <= W.nRP, NEW pre, NEW acts, "ACT" \in acts,
             "PRE" \in pre, Has(W, pre, acts)
      PROVE  /\ Asks(T, 1, "ACT", "PREA", V.nRAS) /\ Asks(T, 1, "PREA", "ACT", V.nRP)
             /\ Asks(T, 1, "PRE", "REFab", V.nRP) /\ Asks(T, 1, "REFab", "ACT", V.nRFC)
             /\ "PREA" \in pre => Asks(T, 1, "PREA", "REFab", V.nRP)
  <2>1. /\ Rule(1, {"ACT"}, {"PREA"}, V.nRAS) \subseteq T /\ Rule(1, {"PREA"}, {"ACT"}, W.nRP) \subseteq T
        /\ Rule(1, pre, {"REFab"}, V.nRP) \subseteq T /\ Rule(1, {"REFab"}, acts, V.nRFC) \subseteq T
    BY <1>6 DEF PrechargeAll, RefreshAll
  <2>2. W.nRP \in Int /\ V.nRP <= W.nRP /\ 1 \in 0 .. 1 /\ 1 \in Nat BY <1>2, <1>6
  <2> HIDE DEF T, Has
  <2>3. Asks(T, 1, "ACT", "PREA", V.nRAS) /\ Asks(T, 1, "REFab", "ACT", V.nRFC)
    BY <1>2, <1>6, <2>1, <2>2, AskedByRule
  <2>4. Asks(T, 1, "PREA", "ACT", V.nRP) BY <1>2, <2>1, <2>2, AskedByRule
  <2>5. Asks(T, 1, "PRE", "REFab", V.nRP) BY <1>2, <1>6, <2>1, <2>2, AskedByRule
  <2>6. "PREA" \in pre => Asks(T, 1, "PREA", "REFab", V.nRP) BY <1>2, <2>1, <2>2, AskedByRule
  <2> QED BY <2>3, <2>4, <2>5, <2>6
<1> HIDE DEF T, Has, U
<1>7. CASE \E acts : "ACT" \in acts /\ Has(V, BothPrecharges, acts)
  <2>1. "PRE" \in BothPrecharges /\ "PREA" \in BothPrecharges BY DEF BothPrecharges
  <2>2. V.nRP \in Int /\ V.nRP <= V.nRP BY <1>2
  <2> QED BY <1>6, <1>7, <2>1, <2>2 DEF RankAsks, T
<1>8. CASE /\ s = "LPDDR5" /\ Has(U, {"PRE"}, {"ACT", "REFab"})
           /\ Rule(1, {"PREA"}, {"REFab"}, V.nRPab) \subseteq T
  <2>1. 1 \in 0 .. 1 /\ 1 \in Nat /\ V.nRP <= V.nRPab BY <1>8
  <2>2. Asks(T, 1, "PREA", "REFab", V.nRP) BY <1>2, <1>8, <2>1, AskedByRule
  <2>3. "ACT" \in {"ACT", "REFab"} /\ "PRE" \in {"PRE"} OBVIOUS
  <2>4. /\ Asks(T, 1, "ACT", "PREA", V.nRAS) /\ Asks(T, 1, "PREA", "ACT", V.nRP)
        /\ Asks(T, 1, "PRE", "REFab", V.nRP) /\ Asks(T, 1, "REFab", "ACT", V.nRFC)
    BY <1>2, <1>6, <1>8, <2>3
  <2> QED BY <2>2, <2>4 DEF RankAsks, T
<1> QED BY <1>5, <1>7, <1>8

\* Bursts on the data bus of a rank.  In DDR5 a write to read gap is a value
\* of its own.
BurstTimes ==
  (\E o \in Organizations : o[1] = "DDR5") => V.nCWL + V.nBL <= V.nCL + V.nCCDSWTR

BurstAsks(table, top) ==
  /\ Asks(table, top, "RD", "RD", V.nBL) /\ Asks(table, top, "WR", "WR", V.nBL)
  /\ Asks(table, top, "RD", "WR", V.nCL + V.nBL - V.nCWL)
  /\ Asks(table, top, "WR", "RD", V.nCWL + V.nBL - V.nCL)

LEMMA BurstTable ==
  ASSUME NEW s \in Standards, \E o \in Organizations : o[1] = s, BurstTimes
  PROVE  BurstAsks(Timing[s], RankLevel[s]) /\ RankLevel[s] \in 0 .. 2
<1> DEFINE T == Timing[s]
           r == RankLevel[s]
           turn == V.nCL + V.nBL + 2 - V.nCWL + 2
           rw == V.nCL + V.nBL - V.nCWL
           wr == V.nCWL + V.nBL - V.nCL
<1>1. T = Timings(s, V) BY FineTables
<1>2. r = IF s \in {"GDDR6", "HBM"} THEN 0 ELSE IF s = "HBM3" THEN 2 ELSE 1
  BY StandardsAre DEF RankLevel
<1>3. /\ V.nCL \in Nat /\ V.nBL \in Nat /\ V.nCWL \in Nat /\ V.nWTRS \in Nat /\ V.nCCDSWTR \in Nat
  BY TimingValues DEF TimingNames
<1>4. r \in Nat /\ r \in 0 .. 2 BY <1>2
<1> DEFINE Bussed == \E level \in 0 .. r : Bus(level, V.nBL) \subseteq T
           Turned == \/ \E level \in 0 .. r : \E bubble \in {2, 4} : Turnaround(level, V, bubble, V.nWTRS) \subseteq T
                     \/ /\ s = "DDR5"
                        /\ \E level \in 0 .. r : Rule(level, Reads, Writes, turn) \subseteq T
                                        /\ Rule(level, Writes, Reads, V.nCCDSWTR) \subseteq T
<1>5. Bussed
  <2>1. CASE s \in {"DDR3", "DDR4", "DDR4_VRR", "DDR5", "LPDDR5", "GDDR6", "HBM"}
    <3>1. 0 \in 0 .. r BY <1>4
    <3>2. Bus(0, V.nBL) \subseteq T
      BY <1>1, <2>1
      DEF Timings, DDR3Timings, DDR4Timings, DDR4VRRTimings, DDR5Timings, LPDDR5Timings, GDDR6Timings, HBMTimings
    <3> QED BY <3>1, <3>2
  <2>2. CASE s \in {"HBM2", "HBM3"}
    <3>1. 1 \in 0 .. r BY <1>2, <2>2
    <3>2. Bus(1, V.nBL) \subseteq T BY <1>1, <2>2 DEF Timings, HBM2Timings, HBM3Timings
    <3> QED BY <3>1, <3>2
  <2> QED BY <2>1, <2>2 DEF Standards
<1>6. Turned
  <2>1. CASE s \in {"DDR3", "DDR4", "DDR4_VRR", "LPDDR5", "HBM2"}
    <3>1. 1 \in 0 .. r BY <1>2, <2>1
    <3>2. Turnaround(1, V, 2, V.nWTRS) \subseteq T
      BY <1>1, <2>1 DEF Timings, DDR3Timings, DDR4Timings, DDR4VRRTimings, LPDDR5Timings, HBM2Timings
    <3> QED BY <3>1, <3>2
  <2>2. CASE s = "DDR5"
    <3>1. 1 \in 0 .. r BY <1>2, <2>2
    <3>2. Rule(1, Reads, Writes, turn) \subseteq T /\ Rule(1, Writes, Reads, V.nCCDSWTR) \subseteq T
      BY <1>1, <2>2 DEF Timings, DDR5Timings
    <3> QED BY <2>2, <3>1, <3>2
  <2>3. CASE s \in {"GDDR6", "HBM"}
    <3>1. 0 \in 0 .. r BY <1>4
    <3>2. Turnaround(0, V, 4, V.nWTRS) \subseteq T \/ Turnaround(0, V, 2, V.nWTRS) \subseteq T
      BY <1>1, <2>3 DEF Timings, GDDR6Timings, HBMTimings
    <3> QED BY <3>1, <3>2
  <2>4. CASE s = "HBM3"
    <3>1. 2 \in 0 .. r BY <1>2, <2>4
    <3>2. Turnaround(2, V, 2, V.nWTRS) \subseteq T BY <1>1, <2>4 DEF Timings, HBM3Timings
    <3> QED BY <3>1, <3>2
  <2> QED BY <2>1, <2>2, <2>3, <2>4 DEF Standards
<1>7. "RD" \in Reads /\ "WR" \in Writes BY DEF Reads, Writes
<1> HIDE DEF T, r
<1>8. Asks(T, r, "RD", "RD", V.nBL) /\ Asks(T, r, "WR", "WR", V.nBL)
  <2>1. PICK level \in 0 .. r : Bus(level, V.nBL) \subseteq T BY <1>5
  <2>2. /\ Rule(level, Reads, Reads, V.nBL) \subseteq T /\ Rule(level, Writes, Writes, V.nBL) \subseteq T
    BY <2>1 DEF Bus
  <2>3. V.nBL \in Int /\ V.nBL <= V.nBL BY <1>3
  <2> QED BY <1>4, <1>7, <2>1, <2>2, <2>3, AskedByRule
<1>9. \E level \in 0 .. r : \E a, b \in Int :
        /\ Rule(level, Reads, Writes, a) \subseteq T /\ Rule(level, Writes, Reads, b) \subseteq T
        /\ rw <= a /\ wr <= b
  <2>1. ASSUME NEW level \in 0 .. r, NEW bubble \in {2, 4}, Turnaround(level, V, bubble, V.nWTRS) \subseteq T
        PROVE  \E a, b \in Int :
                 /\ Rule(level, Reads, Writes, a) \subseteq T /\ Rule(level, Writes, Reads, b) \subseteq T
                 /\ rw <= a /\ wr <= b
    <3> DEFINE a == V.nCL + V.nBL + bubble - V.nCWL
               b == WriteEnd(V) + V.nWTRS
    <3>1. a \in Int /\ b \in Int /\ rw <= a /\ wr <= b BY <1>3 DEF WriteEnd
    <3>2. Rule(level, Reads, Writes, a) \subseteq T /\ Rule(level, Writes, Reads, b) \subseteq T
      BY <2>1 DEF Turnaround
    <3> HIDE DEF a, b
    <3> QED BY <3>1, <3>2
  <2>2. ASSUME s = "DDR5", NEW level \in 0 .. r, Rule(level, Reads, Writes, turn) \subseteq T,
               Rule(level, Writes, Reads, V.nCCDSWTR) \subseteq T
        PROVE  \E a, b \in Int :
                 /\ Rule(level, Reads, Writes, a) \subseteq T /\ Rule(level, Writes, Reads, b) \subseteq T
                 /\ rw <= a /\ wr <= b
    <3>1. turn \in Int /\ V.nCCDSWTR \in Int /\ rw <= turn /\ wr <= V.nCCDSWTR
      BY <1>3, <2>2 DEF BurstTimes
    <3> HIDE DEF turn
    <3> QED BY <2>2, <3>1
  <2> QED BY <1>6, <2>1, <2>2
<1>10. PICK level \in 0 .. r : \E a, b \in Int :
         /\ Rule(level, Reads, Writes, a) \subseteq T /\ Rule(level, Writes, Reads, b) \subseteq T
         /\ rw <= a /\ wr <= b
  BY <1>9
<1>11. rw \in Int /\ wr \in Int BY <1>3
<1> HIDE DEF rw, wr
<1>12. Asks(T, r, "RD", "WR", rw) /\ Asks(T, r, "WR", "RD", wr)
  BY <1>4, <1>7, <1>10, <1>11, AskedByRule
<1> QED BY <1>4, <1>8, <1>12 DEF BurstAsks, T, r, rw, wr

----------------------------------------------------------------------------
(* The commands.                                                           *)

\* What a standard with banks at level leaf says of its commands.
CommandsAt(t, leaf) ==
  /\ \A c \in {"ACT", "PRE", "RD", "WR"} : c \in DOMAIN t.scope /\ t.scope[c] = leaf
  /\ {"PREA", "REFab"} \subseteq DOMAIN t.scope

RankCommands(t) == t.scope["PREA"] = 1 /\ t.scope["REFab"] = 1

LEMMA TableScopes ==
  ASSUME NEW levels, NEW leaf, NEW all
  PROVE  /\ CommandsAt(CommandTable(levels, leaf, all), leaf)
         /\ all = 1 => RankCommands(CommandTable(levels, leaf, all))
<1> DEFINE t == CommandTable(levels, leaf, all)
<1>1. t.scope = [ACT |-> leaf, PRE |-> leaf, RD |-> leaf, WR |-> leaf,
                 RDA |-> leaf, WRA |-> leaf, PREA |-> all, REFab |-> all]
  BY DEF CommandTable
<1> HIDE DEF t
<1> QED BY <1>1 DEF CommandsAt, RankCommands, t

LEMMA CommandFacts ==
  ASSUME NEW s \in Standards
  PROVE  /\ CommandsAt(Commands[s], Depth(s))
         /\ s \in Ranked => RankCommands(Commands[s]) /\ Rules[s].all = 1
         /\ Rules[s].twoStep => {"ACT2", "CASRD", "CASWR"} \subseteq Cmds(s)
         /\ ~Rules[s].twoStep => Rules[s].opens = {"ACT"}
         /\ s = "DDR4_VRR" => "VRR" \in Cmds(s)
<1>1. Depth(s) = IF s \in {"DDR3", "GDDR6", "HBM"} THEN 2 ELSE IF s = "HBM3" THEN 4 ELSE 3
  BY DepthIs
<1>2. CASE s \in {"DDR3", "DDR4", "DDR5", "HBM", "HBM2", "HBM3"}
  <2>1. /\ Commands["DDR3"] = CommandTable(<<"channel", "rank", "bank">>, 2, 1)
        /\ Commands["DDR4"] = CommandTable(<<"channel", "rank", "bankgroup", "bank">>, 3, 1)
        /\ Commands["DDR5"] = CommandTable(<<"channel", "rank", "bankgroup", "bank">>, 3, 1)
        /\ Commands["HBM"] = CommandTable(<<"channel", "bankgroup", "bank">>, 2, 0)
        /\ Commands["HBM2"] = CommandTable(<<"channel", "pseudochannel", "bankgroup", "bank">>, 3, 0)
        /\ Commands["HBM3"] =
             CommandTable(<<"channel", "pseudochannel", "rank", "bankgroup", "bank">>, 4, 0)
    BY DEF Commands, DDR3Commands, DDR4Commands, DDR5Commands, HBMCommands, HBM2Commands, HBM3Commands
  <2>2. \E levels : \E all \in {0, 1} :
          Commands[s] = CommandTable(levels, Depth(s), all) /\ (s \in Ranked => all = 1)
    <3>1. CASE s \in {"DDR3", "DDR4", "DDR5"} BY <1>1, <2>1, <3>1
    <3>2. CASE s \in {"HBM", "HBM2", "HBM3"} BY <1>1, <2>1, <3>2 DEF Ranked
    <3> QED BY <1>2, <3>1, <3>2
  <2>3. CommandsAt(Commands[s], Depth(s)) /\ (s \in Ranked => RankCommands(Commands[s]))
    BY <2>2, TableScopes
  <2>4. Rules[s] \in {BankRules(0), BankRules(1)} /\ (s \in Ranked => Rules[s] = BankRules(1))
    BY <1>2 DEF Rules, DDR3Rules, DDR4Rules, DDR5Rules, HBMRules, HBM2Rules, HBM3Rules, Ranked
  <2>5. Rules[s].opens = {"ACT"} /\ Rules[s].twoStep = FALSE /\ (s \in Ranked => Rules[s].all = 1)
    BY <2>4 DEF BankRules
  <2> QED BY <1>2, <2>3, <2>5
<1>3. CASE s = "DDR4_VRR"
  <2>1. Commands[s] = DDR4VRRCommands /\ Rules[s] = DDR4VRRRules BY <1>3 DEF Commands, Rules
  <2>2. CommandsAt(DDR4VRRCommands, 3) /\ RankCommands(DDR4VRRCommands)
    BY DEF DDR4VRRCommands, CommandsAt, RankCommands
  <2>3. "VRR" \in DOMAIN DDR4VRRCommands.scope BY DEF DDR4VRRCommands
  <2>4. DDR4VRRRules.opens = {"ACT"} /\ DDR4VRRRules.twoStep = FALSE /\ DDR4VRRRules.all = 1
    BY DEF DDR4VRRRules, BankRules
  <2> QED BY <1>1, <1>3, <2>1, <2>2, <2>3, <2>4 DEF Cmds
<1>4. CASE s = "LPDDR5"
  <2>1. Commands[s] = LPDDR5Commands /\ Rules[s] = LPDDR5Rules BY <1>4 DEF Commands, Rules
  <2>2. CommandsAt(LPDDR5Commands, 3) /\ RankCommands(LPDDR5Commands)
    BY DEF LPDDR5Commands, CommandsAt, RankCommands
  <2>3. {"ACT2", "CASRD", "CASWR"} \subseteq DOMAIN LPDDR5Commands.scope BY DEF LPDDR5Commands
  <2>4. LPDDR5Rules.twoStep = TRUE /\ LPDDR5Rules.all = 1 BY DEF LPDDR5Rules, BankRules
  <2> QED BY <1>1, <1>4, <2>1, <2>2, <2>3, <2>4 DEF Cmds
<1>5. CASE s = "GDDR6"
  <2>1. Commands[s] = GDDR6Commands /\ Rules[s] = BankRules(0)
    BY <1>5 DEF Commands, Rules, GDDR6Rules
  <2>2. CommandsAt(GDDR6Commands, 2) BY DEF GDDR6Commands, CommandsAt
  <2>3. BankRules(0).opens = {"ACT"} /\ BankRules(0).twoStep = FALSE BY DEF BankRules
  <2> QED BY <1>1, <1>5, <2>1, <2>2, <2>3 DEF Ranked
<1> QED BY <1>2, <1>3, <1>4, <1>5 DEF Standards

----------------------------------------------------------------------------
(* Paths: the nodes above a bank are its beginnings.                       *)

\* Down to level top the two paths are the same.
Share(p, q, top) == \A l \in 0 .. top : SubSeq(p, 1, l) = SubSeq(q, 1, l)

LEMMA BeginningFacts ==
  ASSUME NEW S, NEW p \in Seq(S), NEW l \in 0 .. Len(p)
  PROVE  /\ SubSeq(p, 1, l) \in [1 .. l -> S] /\ Len(SubSeq(p, 1, l)) = l
         /\ \A i \in 1 .. l : SubSeq(p, 1, l)[i] = p[i] /\ i \in DOMAIN p
<1>1. l \in Nat /\ l <= Len(p) /\ DOMAIN p = 1 .. Len(p) OBVIOUS
<1>2. SubSeq(p, 1, l) = [i \in 1 .. l |-> p[i]] BY <1>1
<1>3. \A i \in 1 .. l : i \in DOMAIN p /\ p[i] \in S BY <1>1
<1>4. [i \in 1 .. l |-> p[i]] \in Seq(S) /\ Len([i \in 1 .. l |-> p[i]]) = l BY <1>1, <1>3
<1> QED BY <1>2, <1>3, <1>4

LEMMA PathFacts ==
  ASSUME NEW sh \in Shapes, NEW p \in PathsTo(sh), NEW l \in 0 .. Len(p)
  PROVE  SubSeq(p, 1, l) \in PathsTo(sh) /\ Len(SubSeq(p, 1, l)) = l
<1>1. Len(sh) \in Nat
  <2>1. PICK o \in Organizations : sh = o[2] BY DEF Shapes
  <2> QED BY <2>1, ShapeFacts
<1>2. p \in Seq(0 .. 1) /\ Len(p) \in 0 .. Len(sh) BY NodeFacts
<1>3. \A i \in DOMAIN p : p[i] < sh[i] BY DEF PathsTo
<1> DEFINE q == SubSeq(p, 1, l)
<1>4. /\ l \in Nat /\ l <= Len(sh) /\ Len(q) = l /\ q \in [1 .. l -> 0 .. 1]
      /\ \A i \in 1 .. l : q[i] = p[i] /\ i \in DOMAIN p
  <2>1. l \in Nat /\ l <= Len(sh) BY <1>1, <1>2
  <2> QED BY <1>2, <2>1, BeginningFacts
<1>5. l \in 0 .. Len(sh) BY <1>1, <1>4
<1>6. \A i \in DOMAIN q : q[i] < sh[i] BY <1>3, <1>4
<1> HIDE DEF q
<1>7. q \in PathsTo(sh) BY <1>4, <1>5, <1>6 DEF PathsTo
<1> QED BY <1>4, <1>7 DEF q

LEMMA SharedAbove ==
  ASSUME NEW sh \in Shapes, NEW p \in PathsTo(sh), NEW q \in PathsTo(sh),
         NEW top \in Nat, top <= Len(p), top <= Len(q), SubSeq(p, 1, top) = SubSeq(q, 1, top)
  PROVE  Share(p, q, top)
<1>1. p \in Seq(0 .. 1) /\ q \in Seq(0 .. 1) BY NodeFacts
<1>2. ASSUME NEW l \in 0 .. top PROVE SubSeq(p, 1, l) = SubSeq(q, 1, l)
  <2>1. top \in 0 .. Len(p) /\ top \in 0 .. Len(q) /\ l \in 0 .. Len(p) /\ l \in 0 .. Len(q)
    BY <1>1
  <2>2. \A i \in 1 .. top : SubSeq(p, 1, top)[i] = p[i] /\ SubSeq(q, 1, top)[i] = q[i]
    BY <1>1, <2>1, BeginningFacts
  <2>3. \A i \in 1 .. l : p[i] = q[i] BY <2>2
  <2>4. /\ SubSeq(p, 1, l) \in [1 .. l -> 0 .. 1] /\ SubSeq(q, 1, l) \in [1 .. l -> 0 .. 1]
        /\ \A i \in 1 .. l : SubSeq(p, 1, l)[i] = p[i] /\ SubSeq(q, 1, l)[i] = q[i]
    BY <1>1, <2>1, BeginningFacts
  <2> QED BY <2>3, <2>4
<1> QED BY <1>2 DEF Share

LEMMA PrefixIs ==
  ASSUME NEW sh \in Shapes, NEW p \in PathsTo(sh), NEW n \in PathsTo(sh)
  PROVE  /\ IsPrefix(n, p) <=> Len(n) <= Len(p) /\ n = SubSeq(p, 1, Len(n))
         /\ IsPrefix(n, p) => Share(n, p, Len(n))
         /\ \A l \in 0 .. Len(p) : IsPrefix(SubSeq(p, 1, l), p)
<1>1. /\ n \in Seq(0 .. 1) /\ p \in Seq(0 .. 1) /\ Len(n) \in Nat /\ Len(p) \in Nat
  BY NodeFacts
<1>2. SubSeq(n, 1, Len(n)) = n BY <1>1
<1>3. IsPrefix(n, p) <=> Len(n) <= Len(p) /\ n = SubSeq(p, 1, Len(n)) BY <1>2 DEF IsPrefix
<1>4. IsPrefix(n, p) => Share(n, p, Len(n)) BY <1>1, <1>2, <1>3, SharedAbove
<1>5. ASSUME NEW l \in 0 .. Len(p) PROVE IsPrefix(SubSeq(p, 1, l), p)
  <2> DEFINE q == SubSeq(p, 1, l)
  <2>1. Len(q) = l /\ q \in Seq(0 .. 1) BY <1>1
  <2>2. SubSeq(q, 1, Len(q)) = q BY <2>1
  <2>3. l <= Len(p) BY <1>1
  <2> HIDE DEF q
  <2>4. SubSeq(q, 1, Len(q)) = SubSeq(p, 1, Len(q)) BY <2>1, <2>2 DEF q
  <2>5. IsPrefix(q, p) BY <2>1, <2>3, <2>4 DEF IsPrefix
  <2> QED BY <2>5 DEF q
<1> QED BY <1>3, <1>4, <1>5

\* The window of a standard: it admits four activations, at one level.
LEMMA WindowIs ==
  ASSUME NEW s \in Standards
  PROVE  /\ WindowLevel[s] = WindowAt[s] /\ WindowSize[s] = 4
         /\ WindowAt[s] \in 0 .. Depth(s) /\ WindowAt[s] \in Nat
<1> DEFINE T == Timing[s]
           w == WindowAt[s]
<1>1. Fine(T, w) /\ T = Timings(s, V) BY FineTables
<1>2. w = IF s \in {"GDDR6", "HBM"} THEN 0 ELSE IF s = "HBM3" THEN 2 ELSE 1 BY DEF WindowAt
<1>3. Window(w, {"ACT"}, V) \subseteq T
  <2>1. CASE s \in {"DDR3", "DDR4", "DDR4_VRR", "DDR5", "LPDDR5"}
    <3>1. Window(1, {"ACT"}, V) \subseteq T
      BY <1>1, <2>1 DEF Timings, DDR3Timings, DDR4Timings, DDR4VRRTimings, DDR5Timings, LPDDR5Timings
    <3>2. w = 1 BY <1>2, <2>1
    <3> QED BY <3>1, <3>2
  <2>2. CASE s \in {"GDDR6", "HBM"}
    <3>1. Window(0, {"ACT"}, V) \subseteq T BY <1>1, <2>2 DEF Timings, GDDR6Timings, HBMTimings
    <3>2. w = 0 BY <1>2, <2>2
    <3> QED BY <3>1, <3>2
  <2>3. CASE s = "HBM2"
    <3>1. Window(1, {"ACT"}, V) \subseteq T BY <1>1, <2>3 DEF Timings, HBM2Timings
    <3>2. w = 1 BY <1>2, <2>3
    <3> QED BY <3>1, <3>2
  <2>4. CASE s = "HBM3"
    <3>1. Window(2, {"ACT"}, V) \subseteq T BY <1>1, <2>4 DEF Timings, HBM3Timings
    <3>2. w = 2 BY <1>2, <2>4
    <3> QED BY <3>1, <3>2
  <2> QED BY <2>1, <2>2, <2>3, <2>4 DEF Standards
<1>4. \E k \in T : k.level = w /\ k.window = 4
  <2> DEFINE k == [level |-> w, prev |-> "ACT", next |-> "ACT", lat |-> V.nFAW, window |-> 4, sibling |-> FALSE]
  <2>1. k \in Window(w, {"ACT"}, V) BY DEF Window, Entry
  <2>2. k.level = w /\ k.window = 4 OBVIOUS
  <2> HIDE DEF k
  <2> QED BY <1>3, <2>1, <2>2
<1>5. \A k \in T : k.window = 1 \/ (k.window = 4 /\ k.level = w) BY <1>1 DEF Fine
<1>6. w \in 0 .. 2 BY <1>2
<1> HIDE DEF T, w
<1>7. WindowLevel[s] = w
  <2>1. WindowLevel[s] = CHOOSE l \in 0 .. 2 : \E k \in T : k.level = l /\ k.window > 1
    BY StandardsAre DEF WindowLevel, T
  <2>2. \E k \in T : k.level = w /\ k.window > 1 BY <1>4
  <2>3. \A l \in 0 .. 2 : (\E k \in T : k.level = l /\ k.window > 1) => l = w BY <1>5
  <2> DEFINE P(l) == \E k \in T : k.level = l /\ k.window > 1
  <2> HIDE DEF P
  <2>4. P(w) /\ \A l \in 0 .. 2 : P(l) => l = w BY <2>2, <2>3 DEF P
  <2>5. WindowLevel[s] = CHOOSE l \in 0 .. 2 : P(l) BY <2>1 DEF P
  <2> QED BY <1>6, <2>4, <2>5
<1>8. WindowSize[s] = 4
  <2> DEFINE Q(v) == \E k \in T : k.window = v
  <2>1. WindowSize[s] = CHOOSE v \in 2 .. 5 : Q(v) BY StandardsAre DEF WindowSize, T
  <2>2. Q(4) BY <1>4
  <2>3. \A v \in 2 .. 5 : Q(v) => v = 4 BY <1>5
  <2> HIDE DEF Q
  <2> QED BY <2>1, <2>2, <2>3
<1>9. w \in 0 .. Depth(s) BY <1>2, DepthIs
<1> QED BY <1>6, <1>7, <1>8, <1>9 DEF w

----------------------------------------------------------------------------
(* The state of a device.                                                  *)

States == {"Closed", "PreOpened", "Opened"}

Device ==
  /\ \E o \in Organizations : std = o[1] /\ shape = o[2]
  /\ bank \in [Banks -> [state : States, rows : SUBSET Rows]]

Typed ==
  /\ Device
  /\ wait \in [Nodes -> [Cmds(std) -> Nat]]
  /\ activates \in [Nodes -> SUBSET (1 .. V.nFAW)]
  /\ age \in [Banks -> 0 .. Idle] /\ refreshed \in [Banks -> 0 .. Idle]
  /\ bursts \subseteq [at : Int, read : BOOLEAN, path : Banks]

LEMMA DeviceFacts ==
  ASSUME Device
  PROVE  /\ std \in Standards /\ shape \in Shapes /\ Depth(std) \in 2 .. 4 /\ Len(shape) = Depth(std)
         /\ Nodes = PathsTo(shape) /\ Banks \subseteq Nodes
         /\ \A b \in Banks : Len(b) = Depth(std)
         /\ \A n \in Nodes : Len(n) \in 0 .. Depth(std)
         /\ \A n \in Nodes : Len(n) = Depth(std) => n \in Banks
<1>1. PICK o \in Organizations : std = o[1] /\ shape = o[2] BY DEF Device
<1>2. std \in Standards /\ shape \in Shapes /\ Depth(std) \in 2 .. 4 /\ Len(shape) = Depth(std)
  BY <1>1, ShapeFacts
<1>3. Nodes = PathsTo(shape) /\ Banks = { n \in PathsTo(shape) : Len(n) = Len(shape) }
  BY <1>2, NodeFacts DEF Nodes, Banks
<1>4. \A n \in Nodes : Len(n) \in 0 .. Depth(std) BY <1>2, <1>3, NodeFacts
<1> QED BY <1>2, <1>3, <1>4

\* What an issue makes the nodes wait.
LEMMA WindowWaitFacts ==
  ASSUME Device, NEW ages \in SUBSET (0 .. V.nFAW)
  PROVE  /\ WindowWait(ages) \in Int
         /\ \A a \in ages : Cardinality({ o \in ages : o < a }) = 3 => WindowWait(ages) = V.nFAW - a
<1>1. WindowSize[std] = 4 BY DeviceFacts, WindowIs
<1>2. V.nFAW \in Int BY TimingValues DEF TimingNames
<1> DEFINE younger(a) == { o \in ages : o < a }
           fourth == { a \in ages : Cardinality(younger(a)) = 3 }
<1>3. WindowWait(ages) = IF fourth = {} THEN 0 ELSE V.nFAW - (CHOOSE a \in fourth : TRUE)
  <2> DEFINE those(k) == { a \in ages : Cardinality({ o \in ages : o < a }) = k }
             from(set) == IF set = {} THEN 0 ELSE V.nFAW - (CHOOSE a \in set : TRUE)
  <2>1. WindowWait(ages) = from(those(WindowSize[std] - 1)) BY Zenon DEF WindowWait
  <2>2. fourth = those(3) OBVIOUS
  <2>3. WindowSize[std] - 1 = 3 BY <1>1
  <2> HIDE DEF those
  <2> QED BY <2>1, <2>2, <2>3
<1>4. (\A a \in ages : a \in Int) /\ IsFiniteSet(ages)
  <2>1. 0 \in Int /\ V.nFAW \in Int BY <1>2
  <2>2. IsFiniteSet(0 .. V.nFAW) BY <2>1, FS_Interval
  <2>3. IsFiniteSet(ages) BY <2>2, FS_Subset
  <2>4. \A a \in ages : a \in 0 .. V.nFAW OBVIOUS
  <2>5. \A a \in ages : a \in Int BY <2>4
  <2> QED BY <2>3, <2>5
<1>5. ASSUME NEW a \in ages, NEW b \in ages, Cardinality(younger(a)) = 3, Cardinality(younger(b)) = 3, a < b
      PROVE  FALSE
  <2>1. younger(a) \subseteq younger(b)
    <3> SUFFICES ASSUME NEW o \in younger(a) PROVE o \in younger(b) OBVIOUS
    <3>1. o \in ages /\ o < a OBVIOUS
    <3>2. o \in Int /\ a \in Int /\ b \in Int BY <1>4, <3>1
    <3>3. o < b BY <1>5, <3>1, <3>2
    <3> QED BY <3>1, <3>3
  <2>2. IsFiniteSet(younger(b)) BY <1>4, FS_Subset
  <2>3. younger(a) = younger(b) BY <1>5, <2>1, <2>2, FS_Subset
  <2>4. a \in younger(b) /\ a \notin younger(a) BY <1>4, <1>5
  <2> QED BY <2>3, <2>4
<1>6. \A a, b \in fourth : a = b
  <2> SUFFICES ASSUME NEW a \in fourth, NEW b \in fourth, a # b PROVE FALSE OBVIOUS
  <2>1. a \in Int /\ b \in Int BY <1>4
  <2>2. a < b \/ b < a BY <2>1
  <2> QED BY <1>5, <2>2
<1> HIDE DEF fourth
<1>7. fourth # {} => (CHOOSE a \in fourth : TRUE) \in fourth OBVIOUS
<1>8. \A a \in fourth : a \in Int BY <1>4 DEF fourth
<1>9. WindowWait(ages) \in Int BY <1>2, <1>3, <1>7, <1>8
<1>10. ASSUME NEW a \in ages, Cardinality(younger(a)) = 3 PROVE WindowWait(ages) = V.nFAW - a
  <2>1. a \in fourth BY <1>10 DEF fourth
  <2>2. (CHOOSE x \in fourth : TRUE) = a BY <1>6, <1>7, <2>1
  <2> QED BY <1>3, <2>1, <2>2
<1> QED BY <1>9, <1>10

LEMMA LongerFacts ==
  ASSUME Typed, NEW cmd \in Cmds(std), NEW n \in Nodes, NEW beside \in BOOLEAN,
         NEW ages \in SUBSET (0 .. V.nFAW)
  PROVE  /\ Longer(n, cmd, beside, ages) \in [Cmds(std) -> Nat]
         /\ \A c \in Cmds(std) :
              /\ wait[n][c] <= Longer(n, cmd, beside, ages)[c]
              /\ Latency[std][Len(n)][beside][cmd][c] <= Longer(n, cmd, beside, ages)[c]
         /\ cmd = "ACT" /\ ~beside => WindowWait(ages) <= Longer(n, cmd, beside, ages)["ACT"]
<1> DEFINE window == IF cmd = "ACT" /\ ~beside THEN WindowWait(ages) ELSE 0
           lat(c) == Latency[std][Len(n)][beside][cmd][c]
           part(c) == IF c = "ACT" THEN window ELSE 0
           full(c) == Larger(wait[n][c], Larger(lat(c), part(c)))
<1>1. Device BY DEF Typed
<1>2. std \in Standards /\ Len(n) \in 0 .. Depth(std) BY <1>1, DeviceFacts
<1>3. \A c \in Cmds(std) : lat(c) \in Nat BY <1>2, LatencyFacts
<1>4. window \in Int BY <1>1, WindowWaitFacts
<1>5. \A c \in Cmds(std) : wait[n][c] \in Nat BY DEF Typed
<1>6. Longer(n, cmd, beside, ages) = [c \in Cmds(std) |-> full(c)] BY DEF Longer
<1>7. "ACT" \in Cmds(std) BY <1>2, CommandFacts DEF CommandsAt, Cmds
<1> HIDE DEF window, lat
<1>8. \A c \in Cmds(std) : /\ full(c) \in Nat /\ wait[n][c] <= full(c) /\ lat(c) <= full(c)
                           /\ c = "ACT" => window <= full(c)
  <2> TAKE c \in Cmds(std)
  <2> DEFINE x == wait[n][c]
             y == lat(c)
             z == part(c)
  <2>1. x \in Nat /\ y \in Nat /\ z \in Int BY <1>3, <1>4, <1>5
  <2>2. full(c) = Larger(x, Larger(y, z)) OBVIOUS
  <2>3. c = "ACT" => z = window OBVIOUS
  <2> HIDE DEF x, y, z, full
  <2>4. full(c) \in Nat /\ x <= full(c) /\ y <= full(c) /\ z <= full(c) BY <2>1, <2>2 DEF Larger
  <2> QED BY <2>3, <2>4 DEF x, y
<1> HIDE DEF full
<1>9. Longer(n, cmd, beside, ages) \in [Cmds(std) -> Nat] BY <1>6, <1>8
<1>10. \A c \in Cmds(std) : Longer(n, cmd, beside, ages)[c] = full(c) BY <1>6
<1>11. cmd = "ACT" /\ ~beside => window = WindowWait(ages) BY DEF window
<1> QED BY <1>7, <1>8, <1>9, <1>10, <1>11 DEF lat

LEMMA UpdateFacts ==
  ASSUME Typed, NEW cmd \in Cmds(std), NEW path \in Nodes,
         NEW history \in [Nodes -> SUBSET (0 .. V.nFAW)]
  PROVE  LET w == UpdateTiming(cmd, path, history)
         IN  /\ w \in [Nodes -> [Cmds(std) -> Nat]]
             /\ \A n \in Nodes : \A c \in Cmds(std) : wait[n][c] <= w[n][c]
             /\ \A n \in Nodes : \A c \in Cmds(std) :
                  IsPrefix(n, path) => Latency[std][Len(n)][FALSE][cmd][c] <= w[n][c]
             /\ \A n \in Nodes :
                  cmd = "ACT" /\ IsPrefix(n, path) => WindowWait(history[n]) <= w[n]["ACT"]
<1> DEFINE w == UpdateTiming(cmd, path, history)
           at(n) == IF IsPrefix(n, path) THEN Longer(n, cmd, FALSE, history[n])
                    ELSE IF IsBeside(n, path) THEN Longer(n, cmd, TRUE, history[n]) ELSE wait[n]
<1>1. w = [n \in Nodes |-> at(n)] BY DEF UpdateTiming
<1>2. ASSUME NEW n \in Nodes
      PROVE  /\ at(n) \in [Cmds(std) -> Nat]
             /\ \A c \in Cmds(std) : /\ wait[n][c] <= at(n)[c]
                                     /\ IsPrefix(n, path) => Latency[std][Len(n)][FALSE][cmd][c] <= at(n)[c]
             /\ cmd = "ACT" /\ IsPrefix(n, path) => WindowWait(history[n]) <= at(n)["ACT"]
  <2>1. history[n] \in SUBSET (0 .. V.nFAW) OBVIOUS
  <2>2. CASE IsPrefix(n, path)
    <3>1. at(n) = Longer(n, cmd, FALSE, history[n]) BY <2>2
    <3> HIDE DEF at
    <3>2. FALSE \in BOOLEAN OBVIOUS
    <3> DEFINE long == Longer(n, cmd, FALSE, history[n])
    <3>3. /\ long \in [Cmds(std) -> Nat]
          /\ \A c \in Cmds(std) : /\ wait[n][c] <= long[c]
                                  /\ Latency[std][Len(n)][FALSE][cmd][c] <= long[c]
          /\ cmd = "ACT" => WindowWait(history[n]) <= long["ACT"]
      BY Zenon, <2>1, <3>2, LongerFacts
    <3> HIDE DEF long
    <3>4. at(n) = long BY <3>1 DEF long
    <3> QED BY <3>3, <3>4
  <2>3. CASE ~IsPrefix(n, path) /\ IsBeside(n, path)
    <3>1. at(n) = Longer(n, cmd, TRUE, history[n]) BY <2>3
    <3> HIDE DEF at
    <3>2. TRUE \in BOOLEAN OBVIOUS
    <3> DEFINE long == Longer(n, cmd, TRUE, history[n])
    <3>3. /\ long \in [Cmds(std) -> Nat]
          /\ \A c \in Cmds(std) : wait[n][c] <= long[c]
      BY Zenon, <2>1, <3>2, LongerFacts
    <3> HIDE DEF long
    <3>4. at(n) = long BY <3>1 DEF long
    <3> QED BY <2>3, <3>3, <3>4
  <2>4. CASE ~IsPrefix(n, path) /\ ~IsBeside(n, path)
    <3>1. at(n) = wait[n] BY <2>4
    <3>2. wait[n] \in [Cmds(std) -> Nat] BY DEF Typed
    <3>3. \A c \in Cmds(std) : wait[n][c] \in Nat BY <3>2
    <3>4. \A c \in Cmds(std) : wait[n][c] <= wait[n][c] BY <3>3
    <3> HIDE DEF at
    <3> DEFINE same == wait[n]
    <3> HIDE DEF same
    <3>5. /\ at(n) = same /\ same \in [Cmds(std) -> Nat]
          /\ \A c \in Cmds(std) : wait[n][c] <= same[c]
      BY <3>1, <3>2, <3>4 DEF same
    <3> QED BY <2>4, <3>5
  <2> QED BY <2>2, <2>3, <2>4
<1> HIDE DEF at
<1>3. w \in [Nodes -> [Cmds(std) -> Nat]] /\ \A n \in Nodes : w[n] = at(n) BY <1>1, <1>2
<1> HIDE DEF w
<1> QED BY <1>2, <1>3 DEF w

----------------------------------------------------------------------------
(* What is due: a command may not be issued to a bank for t cycles, because *)
(* of one of its nodes down to level top.                                   *)

Due(w, b, c, top, t) == \E l \in 0 .. top : t <= w[SubSeq(b, 1, l)][c]

LEMMA DueLonger ==
  ASSUME Typed, NEW b \in Banks, NEW c \in Cmds(std), NEW top \in 0 .. Depth(std), NEW t \in Int,
         NEW w \in [Nodes -> [Cmds(std) -> Nat]],
         \A n \in Nodes : \A d \in Cmds(std) : wait[n][d] <= w[n][d],
         Due(wait, b, c, top, t)
  PROVE  Due(w, b, c, top, t)
<1>1. Device BY DEF Typed
<1>2. PICK l \in 0 .. top : t <= wait[SubSeq(b, 1, l)][c] BY DEF Due
<1>3. SubSeq(b, 1, l) \in Nodes
  <2>1. shape \in Shapes /\ b \in PathsTo(shape) /\ l \in 0 .. Len(b) /\ Nodes = PathsTo(shape)
    BY <1>1, DeviceFacts
  <2> QED BY <2>1, PathFacts
<1> DEFINE n == SubSeq(b, 1, l)
<1>4. wait[n][c] \in Nat /\ w[n][c] \in Nat /\ wait[n][c] <= w[n][c] BY <1>3 DEF Typed
<1>5. t <= w[n][c] BY <1>2, <1>4
<1> QED BY <1>5 DEF Due

\* A cycle later, one cycle less.
LEMMA DueNext ==
  ASSUME Device, NEW b \in Banks, NEW c \in Cmds(std), NEW top \in 0 .. Depth(std), NEW t \in Int,
         NEW w \in [Nodes -> [Cmds(std) -> Nat]], NEW x,
         x = [n \in Nodes |-> [d \in Cmds(std) |-> Larger(0, w[n][d] - 1)]],
         Due(w, b, c, top, t)
  PROVE  Due(x, b, c, top, t - 1)
<1>1. PICK l \in 0 .. top : t <= w[SubSeq(b, 1, l)][c] BY DEF Due
<1>2. SubSeq(b, 1, l) \in Nodes
  <2>1. shape \in Shapes /\ b \in PathsTo(shape) /\ l \in 0 .. Len(b) /\ Nodes = PathsTo(shape)
    BY DeviceFacts
  <2> QED BY <2>1, PathFacts
<1> DEFINE n == SubSeq(b, 1, l)
<1>3. x[n][c] = Larger(0, w[n][c] - 1) /\ w[n][c] \in Nat BY <1>2
<1>4. t - 1 <= x[n][c] BY <1>1, <1>3 DEF Larger
<1> QED BY <1>4 DEF Due

\* What is ready is not due.
LEMMA ReadyNotDue ==
  ASSUME Typed, NEW b \in Banks, NEW path \in Nodes, NEW c \in Cmds(std), NEW top \in Nat,
         top <= Len(path), top <= Commands[std].scope[c], Commands[std].scope[c] \in Nat,
         Share(b, path, top), NEW t \in Int, Due(wait, b, c, top, t), CheckReady(c, path)
  PROVE  t <= 0
<1>1. PICK l \in 0 .. top : t <= wait[SubSeq(b, 1, l)][c] BY DEF Due
<1>2. SubSeq(b, 1, l) = SubSeq(path, 1, l) BY DEF Share
<1>3. Len(path) \in Nat
  <2>1. Device BY DEF Typed
  <2> QED BY <2>1, DeviceFacts
<1> DEFINE scope == Commands[std].scope[c]
           last == IF scope < Len(path) THEN scope ELSE Len(path)
<1>4. l \in 0 .. last BY <1>3
<1>5. \A k \in 0 .. last : wait[SubSeq(path, 1, k)][c] = 0 BY DEF CheckReady
<1>6. wait[SubSeq(path, 1, l)][c] = 0 BY <1>4, <1>5
<1> QED BY <1>1, <1>2, <1>6

\* What the tables ask is due after the issue.
LEMMA AskedIsDue ==
  ASSUME Typed, NEW b \in Banks, NEW path \in Nodes, NEW cmd \in Cmds(std), NEW c \in Cmds(std),
         NEW top \in Nat, top <= Len(path), Share(b, path, top), NEW t \in Int,
         Asks(Timing[std], top, cmd, c, t), NEW w \in [Nodes -> [Cmds(std) -> Nat]],
         \A n \in Nodes : \A d \in Cmds(std) :
           IsPrefix(n, path) => Latency[std][Len(n)][FALSE][cmd][d] <= w[n][d]
  PROVE  Due(w, b, c, top, t)
<1>1. /\ Device /\ std \in Standards /\ Nodes = PathsTo(shape) /\ shape \in Shapes
      /\ Len(path) \in 0 .. Depth(std) /\ Depth(std) \in Nat
  BY DeviceFacts DEF Typed
<1>2. PICK l \in 0 .. top : \E lat \in Int : t <= lat /\ Waits(l, cmd, c, lat) \in Timing[std]
  BY DEF Asks
<1>3. PICK lat \in Int : t <= lat /\ Waits(l, cmd, c, lat) \in Timing[std] BY <1>2
<1> DEFINE n == SubSeq(path, 1, l)
<1>4. l \in 0 .. Len(path) /\ l \in 0 .. Depth(std) BY <1>1
<1>5. n \in Nodes /\ Len(n) = l /\ IsPrefix(n, path) BY <1>1, <1>4, PathFacts, PrefixIs
<1> HIDE DEF n
<1>6. /\ Latency[std][l][FALSE][cmd][c] \in Nat /\ lat <= Latency[std][l][FALSE][cmd][c]
  BY <1>1, <1>3, <1>4, LatencyFacts
<1>7. Latency[std][l][FALSE][cmd][c] <= w[n][c] /\ w[n][c] \in Nat BY <1>5
<1>8. t <= w[n][c]
  <2> DEFINE x == Latency[std][l][FALSE][cmd][c]
             y == w[n][c]
  <2>1. t <= lat /\ lat <= x /\ x <= y /\ x \in Nat /\ y \in Nat BY <1>3, <1>6, <1>7
  <2> HIDE DEF x, y
  <2>2. t <= y BY <2>1
  <2> QED BY <2>2 DEF y
<1>9. SubSeq(b, 1, l) = n BY DEF Share, n
<1> QED BY <1>8, <1>9 DEF Due

LEMMA DueAbove ==
  ASSUME NEW w, NEW b, NEW c, NEW low \in Nat, NEW top \in Nat, low <= top, NEW t, Due(w, b, c, low, t)
  PROVE  Due(w, b, c, top, t)
<1>1. PICK l \in 0 .. low : t <= w[SubSeq(b, 1, l)][c] BY DEF Due
<1>2. l \in 0 .. top OBVIOUS
<1> QED BY <1>1, <1>2 DEF Due

\* What is due long is due short.
LEMMA DueShorter ==
  ASSUME Device, NEW b \in Banks, NEW c \in Cmds(std), NEW top \in 0 .. Depth(std), NEW t \in Int,
         NEW s \in Int, s <= t, NEW w \in [Nodes -> [Cmds(std) -> Nat]], Due(w, b, c, top, t)
  PROVE  Due(w, b, c, top, s)
<1>1. PICK l \in 0 .. top : t <= w[SubSeq(b, 1, l)][c] BY DEF Due
<1>2. shape \in Shapes /\ b \in PathsTo(shape) /\ l \in 0 .. Len(b) /\ Nodes = PathsTo(shape)
  BY DeviceFacts
<1>3. SubSeq(b, 1, l) \in Nodes BY <1>2, PathFacts
<1>4. w[SubSeq(b, 1, l)][c] \in Nat BY <1>3
<1>5. s <= w[SubSeq(b, 1, l)][c] BY <1>1, <1>4
<1> QED BY <1>5 DEF Due

----------------------------------------------------------------------------
(* The commands that go to the device.                                     *)

Shut(b) == bank[b].state = "Closed"

\* A bank that opens in one step is open or closed; an open one has a row.
Shaped(t, twoStep) ==
  /\ t.state = "Closed" <=> t.rows = {}
  /\ ~twoStep => t.state # "PreOpened" /\ (t.rows = {} \/ \E r \in Rows : t.rows = {r})

BanksShaped == \A b \in Banks : Shaped(bank[b], Rules[std].twoStep)

BankLegal(cmd, path) ==
  \/ cmd = "ACT" /\ Shut(path)
  \/ cmd = "ACT2" /\ bank[path].state = "PreOpened" /\ Rules[std].twoStep
  \/ cmd = "PRE" /\ ~Shut(path)
  \/ cmd \in {"RD", "WR"}
  \/ cmd \in {"CASRD", "CASWR"} /\ Rules[std].twoStep
  \/ cmd = "VRR" /\ std = "DDR4_VRR"

RankLegal(cmd, path) ==
  /\ std \in Refreshed /\ Len(path) = 1
  /\ cmd = "PREA" \/ (cmd = "REFab" /\ AllClosed(SubSeq(path, 1, Rules[std].all)))

Legal(cmd, path) ==
  path \in Nodes /\ ((path \in Banks /\ BankLegal(cmd, path)) \/ RankLegal(cmd, path))

LEMMA BankCommand ==
  ASSUME Typed, BanksShaped, NEW path \in Banks, NEW row \in Rows, NEW cmd,
         \/ cmd \in {RowPreq("RD", path, row), RowPreq("WR", path, row)}
         \/ std = "DDR4_VRR" /\ cmd = (IF Shut(path) THEN "VRR" ELSE "PRE")
  PROVE  BankLegal(cmd, path)
<1>1. Shaped(bank[path], Rules[std].twoStep) BY DEF BanksShaped
<1>2. Rules[std].twoStep \in BOOLEAN
  <2>1. std \in Standards BY DeviceFacts DEF Typed
  <2> QED BY <2>1, RulesFacts DEF RulesTable
<1>3. CASE std = "DDR4_VRR" /\ cmd = (IF Shut(path) THEN "VRR" ELSE "PRE")
  BY <1>3 DEF BankLegal
<1>4. ASSUME NEW want \in {"RD", "WR"}, cmd = RowPreq(want, path, row) PROVE BankLegal(cmd, path)
  <2>1. CASE Shut(path) BY <1>4, <2>1 DEF BankLegal, RowPreq, Shut
  <2>2. CASE bank[path].state = "PreOpened"
    <3>1. Rules[std].twoStep BY <1>1, <1>2, <2>2 DEF Shaped
    <3>2. cmd = "ACT2" BY <1>4, <2>2 DEF RowPreq
    <3> QED BY <2>2, <3>1, <3>2 DEF BankLegal
  <2>3. CASE ~Shut(path) /\ bank[path].state # "PreOpened"
    <3>1. cmd = IF row \notin bank[path].rows THEN "PRE"
                ELSE IF Rules[std].twoStep /\ sync[SubSeq(path, 1, 1)] < 0
                  THEN IF want = "RD" THEN "CASRD" ELSE "CASWR"
                ELSE want
      BY <1>4, <2>3 DEF RowPreq, Shut
    <3>2. \/ cmd = "PRE" \/ cmd \in {"RD", "WR"}
          \/ cmd \in {"CASRD", "CASWR"} /\ Rules[std].twoStep
      BY <3>1
    <3> QED BY <2>3, <3>2 DEF BankLegal
  <2> QED BY <2>1, <2>2, <2>3
<1> QED BY <1>3, <1>4

LEMMA RequestLegal ==
  ASSUME Typed, BanksShaped, NEW type \in {"Read", "Write", "Refresh", "VictimRefresh"},
         type = "VictimRefresh" => std = "DDR4_VRR",
         NEW path \in Targets(type), NEW row \in Rows
  PROVE  Legal(NextCommand(type, path, row), path)
<1>1. /\ std \in Standards /\ Banks \subseteq Nodes
  BY DeviceFacts DEF Typed
<1>2. RequestTable(Commands[std]) /\ RulesTable(Rules[std]) BY <1>1, RequestFacts, RulesFacts
<1> DEFINE cmd == NextCommand(type, path, row)
<1>3. CASE type \in {"Read", "Write"}
  <2>1. path \in Banks BY <1>3 DEF Targets
  <2>2. Commands[std].requests[type] \in {"RD", "WR"} BY <1>2, <1>3 DEF RequestTable
  <2>3. \A c \in {"RD", "WR"} : GetPreqCommand(c, path, row) = RowPreq(c, path, row)
    <3> TAKE c \in {"RD", "WR"}
    <3>1. c # "REFab" /\ c \in Rules[std].needRow /\ c \notin Rules[std].needClosed
      BY <1>2 DEF RulesTable
    <3> QED BY <3>1 DEF GetPreqCommand
  <2>4. cmd \in {RowPreq("RD", path, row), RowPreq("WR", path, row)} BY <2>2, <2>3 DEF NextCommand
  <2> HIDE DEF cmd
  <2> QED BY <1>1, <2>1, <2>4, BankCommand DEF Legal, cmd
<1>4. CASE type = "VictimRefresh"
  <2>1. std = "DDR4_VRR" /\ path \in Banks BY <1>4 DEF Targets
  <2>2. Commands[std].requests[type] = "VRR"
    <3>1. Commands[std] = DDR4VRRCommands BY <2>1 DEF Commands
    <3> QED BY <1>4, <3>1 DEF DDR4VRRCommands
  <2>3. Rules[std].needClosed = {"VRR"} /\ Rules[std].needRow = {"RD", "WR"}
    <3>1. Rules[std] = DDR4VRRRules BY <2>1 DEF Rules
    <3> QED BY <3>1 DEF DDR4VRRRules, BankRules
  <2>4. cmd = GetPreqCommand("VRR", path, row) BY <2>2 DEF NextCommand
  <2>5. cmd = IF Shut(path) THEN "VRR" ELSE "PRE" BY <2>3, <2>4 DEF GetPreqCommand, Shut
  <2> HIDE DEF cmd
  <2> QED BY <1>1, <2>1, <2>5, BankCommand DEF Legal, cmd
<1>5. CASE type = "Refresh"
  <2>1. std \in Refreshed /\ path \in Nodes /\ Len(path) = 1 BY <1>5 DEF Targets
  <2>2. Commands[std].requests[type] = "REFab" BY <1>2, <1>5 DEF RequestTable
  <2>3. cmd = IF AllClosed(SubSeq(path, 1, Rules[std].all)) THEN "REFab" ELSE "PREA"
    <3>1. "REFab" \notin Rules[std].needRow /\ "REFab" \notin Rules[std].needClosed
      BY <1>2 DEF RulesTable
    <3>2. cmd = GetPreqCommand("REFab", path, row) BY <2>2 DEF NextCommand
    <3> QED BY <3>1, <3>2 DEF GetPreqCommand
  <2> HIDE DEF cmd
  <2>4. RankLegal(cmd, path) BY <2>1, <2>3 DEF RankLegal
  <2> QED BY <2>1, <2>4 DEF Legal, cmd
<1> QED BY <1>3, <1>4, <1>5

\* A step of the device: a cycle without a command, or with a legal one.
LEMMA NextIs ==
  ASSUME Typed, BanksShaped, Next
  PROVE  \/ Cycle(wait, activates, bank, sync, {}, {})
         \/ \E path \in Nodes, row \in Rows : \E cmd :
              Legal(cmd, path) /\ CheckReady(cmd, path) /\ Issue(cmd, path, row)
<1> DEFINE Went == \E path \in Nodes, row \in Rows : \E cmd :
                     Legal(cmd, path) /\ CheckReady(cmd, path) /\ Issue(cmd, path, row)
<1>1. ASSUME NEW type \in {"Read", "Write", "Refresh", "VictimRefresh"},
             type = "VictimRefresh" => std = "DDR4_VRR", Request(type)
      PROVE  Went
  <2>1. PICK path \in Targets(type), row \in Rows :
          LET cmd == NextCommand(type, path, row)
          IN  CheckReady(cmd, path) /\ Issue(cmd, path, row)
    BY <1>1 DEF Request
  <2> DEFINE cmd == NextCommand(type, path, row)
  <2>2. CheckReady(cmd, path) /\ Issue(cmd, path, row) BY <2>1
  <2>3. Legal(cmd, path) BY <1>1, RequestLegal
  <2>4. path \in Nodes BY <2>3 DEF Legal
  <2> HIDE DEF cmd
  <2> QED BY <2>2, <2>3, <2>4
<1>2. CASE Read BY <1>1, <1>2 DEF Read
<1>3. CASE Write BY <1>1, <1>3 DEF Write
<1>4. CASE Refresh BY <1>1, <1>4 DEF Refresh
<1>5. CASE VictimRefresh BY <1>1, <1>5 DEF VictimRefresh
<1>6. CASE Tick BY <1>6 DEF Tick
<1> QED BY <1>2, <1>3, <1>4, <1>5, <1>6 DEF Next

LEMMA LegalCommand ==
  ASSUME Typed, NEW path, NEW cmd, Legal(cmd, path)
  PROVE  cmd \in Cmds(std)
<1>1. std \in Standards BY DeviceFacts DEF Typed
<1>2. /\ CommandsAt(Commands[std], Depth(std))
      /\ Rules[std].twoStep => {"ACT2", "CASRD", "CASWR"} \subseteq Cmds(std)
      /\ std = "DDR4_VRR" => "VRR" \in Cmds(std)
  BY <1>1, CommandFacts
<1>3. {"ACT", "PRE", "RD", "WR", "PREA", "REFab"} \subseteq Cmds(std) BY <1>2 DEF CommandsAt, Cmds
<1> QED BY <1>2, <1>3 DEF Legal, BankLegal, RankLegal

\* What a legal command does to the state of a bank.
Opens(cmd, path, b) == cmd = "ACT" /\ b = path
ClosesIt(cmd, path, b) ==
  /\ ~Shut(b)
  /\ \/ cmd = "PRE" /\ b = path
     \/ cmd = "PREA" /\ std \in Refreshed /\ IsPrefix(path, b)

LEMMA StateAfter ==
  ASSUME Typed, BanksShaped, NEW path, NEW cmd, Legal(cmd, path), NEW row \in Rows, NEW b \in Banks,
         Refreshed \subseteq Ranked
  PROVE  LET after == UpdateStates(cmd, path, row)[b]
         IN  /\ after \in [state : States, rows : SUBSET Rows]
             /\ Shaped(after, Rules[std].twoStep)
             /\ Opens(cmd, path, b) => /\ Shut(b) /\ after.state # "Closed" /\ after.rows = {row}
                                       /\ std \notin Refreshed \/ cmd # "REFab"
             /\ ClosesIt(cmd, path, b) => after = Closed
             /\ ~Opens(cmd, path, b) /\ ~ClosesIt(cmd, path, b) =>
                  \/ after = bank[b]
                  \/ /\ bank[b].state = "PreOpened" /\ after.state = "Opened"
                     /\ after.rows = bank[b].rows \cup {row}
<1> DEFINE after == UpdateStates(cmd, path, row)[b]
           put == [state |-> IF cmd \in Rules[std].opens THEN "Opened" ELSE "PreOpened",
                   rows |-> bank[b].rows \cup {row}]
<1>1. /\ std \in Standards /\ shape \in Shapes /\ Nodes = PathsTo(shape) /\ Banks \subseteq Nodes
      /\ \A c \in Banks : Len(c) = Depth(std)
      /\ Depth(std) \in 2 .. 4
  BY DeviceFacts DEF Typed
<1>2. RulesTable(Rules[std]) BY <1>1, RulesFacts
<1>3. /\ Rules[std].closes = {"PRE", "RDA", "WRA"} /\ Rules[std].opens \subseteq {"ACT", "ACT2"}
      /\ Rules[std].twoStep \in BOOLEAN /\ (~Rules[std].twoStep => Rules[std].opens = {"ACT"})
      /\ std \in Ranked => Rules[std].all = 1
  BY <1>1, <1>2, CommandFacts DEF RulesTable
<1>4. bank[b] \in [state : States, rows : SUBSET Rows] /\ Shaped(bank[b], Rules[std].twoStep)
  BY DEF Typed, Device, BanksShaped
<1>5. after = IF b \in ClosedBy(cmd, path) THEN Closed
              ELSE IF b = path /\ cmd \in {"ACT", "ACT2"} THEN put ELSE bank[b]
  BY DEF UpdateStates
<1>6. Closed.state = "Closed" /\ Closed.rows = {} /\ Closed \in [state : States, rows : SUBSET Rows]
  BY DEF Closed, States
<1>7. Shut(b) => bank[b] = Closed
  <2> SUFFICES ASSUME Shut(b) PROVE bank[b] = Closed OBVIOUS
  <2>1. bank[b].state = "Closed" /\ bank[b].rows = {} BY <1>4 DEF Shaped, Shut
  <2> QED BY <1>4, <2>1 DEF Closed
<1>8. b \in ClosedBy(cmd, path) <=>
        \/ cmd = "PRE" /\ b = path
        \/ cmd = "PREA" /\ std \in Refreshed /\ IsPrefix(path, b)
  <2>1. CASE cmd = "PREA"
    <3>1. std \in Refreshed /\ Len(path) = 1 /\ path \in Nodes
      BY <2>1 DEF Legal, BankLegal, RankLegal
    <3>2. SubSeq(path, 1, 1) = path
      <4>1. path \in Seq(0 .. 1) BY <1>1, <3>1, NodeFacts
      <4> QED BY <3>1, <4>1
    <3>3. ClosedBy(cmd, path) = Below(path) BY <1>3, <2>1, <3>1, <3>2 DEF ClosedBy
    <3> QED BY <2>1, <3>1, <3>3 DEF Below
  <2>2. CASE cmd # "PREA"
    <3>1. cmd \in Rules[std].closes <=> cmd = "PRE"
      BY <1>3 DEF Legal, BankLegal, RankLegal
    <3>2. ClosedBy(cmd, path) = IF cmd = "PRE" THEN {path} ELSE {}
      BY <2>2, <3>1 DEF ClosedBy
    <3> QED BY <2>2, <3>2
  <2> QED BY <2>1, <2>2
<1>9. Opens(cmd, path, b) =>
        Shut(b) /\ b \notin ClosedBy(cmd, path)
  BY <1>8 DEF Opens, Legal, BankLegal, RankLegal
<1>10. cmd = "ACT2" /\ b = path => /\ bank[b].state = "PreOpened" /\ Rules[std].twoStep
                                  /\ b \notin ClosedBy(cmd, path)
  BY <1>8 DEF Legal, BankLegal, RankLegal
<1>11. put \in [state : States, rows : SUBSET Rows] /\ put.rows = bank[b].rows \cup {row}
       /\ put.state # "Closed"
  BY <1>4 DEF States
<1>12. /\ put.state = "PreOpened" => cmd \notin Rules[std].opens
       /\ cmd \in Rules[std].opens => put.state = "Opened"
  OBVIOUS
<1> HIDE DEF after, put
<1>13. CASE Opens(cmd, path, b)
  <2>1. after = put /\ Shut(b) BY <1>5, <1>9, <1>13 DEF Opens
  <2>2. bank[b].rows = {} BY <1>6, <1>7, <2>1
  <2>3. put.rows = {row} BY <1>11, <2>2
  <2>4. Shaped(put, Rules[std].twoStep) BY <1>3, <1>11, <1>12, <1>13, <2>3 DEF Shaped, Opens
  <2>5. cmd # "REFab" /\ ~ClosesIt(cmd, path, b) BY <1>13, <2>1 DEF Opens, ClosesIt
  <2> QED BY <1>11, <1>13, <2>1, <2>3, <2>4, <2>5 DEF after
<1>14. CASE ClosesIt(cmd, path, b)
  <2>1. after = Closed BY <1>5, <1>8, <1>14 DEF ClosesIt
  <2>2. Shaped(Closed, Rules[std].twoStep) BY <1>6 DEF Shaped
  <2>3. ~Opens(cmd, path, b) BY <1>14 DEF Opens, ClosesIt
  <2> QED BY <1>6, <1>14, <2>1, <2>2, <2>3 DEF after
<1>15. CASE ~Opens(cmd, path, b) /\ ~ClosesIt(cmd, path, b)
  <2>1. CASE b \in ClosedBy(cmd, path)
    <3>1. Shut(b) BY <1>8, <1>15, <2>1 DEF ClosesIt
    <3>2. after = bank[b] BY <1>5, <1>7, <2>1, <3>1
    <3> QED BY <1>4, <1>15, <3>2 DEF after
  <2>2. CASE b \notin ClosedBy(cmd, path) /\ cmd = "ACT2" /\ b = path
    <3>1. after = put /\ bank[b].state = "PreOpened" /\ Rules[std].twoStep BY <1>5, <1>10, <2>2
    <3>2. put.state = "Opened" BY <1>2, <1>12, <2>2, <3>1 DEF RulesTable
    <3>3. put.rows # {} BY <1>11
    <3>4. Shaped(put, Rules[std].twoStep) BY <1>11, <3>1, <3>3 DEF Shaped
    <3> QED BY <1>11, <1>15, <3>1, <3>2, <3>4 DEF after
  <2>3. CASE b \notin ClosedBy(cmd, path) /\ ~(cmd = "ACT2" /\ b = path)
    <3>1. after = bank[b] BY <1>5, <1>15, <2>3 DEF Opens
    <3> QED BY <1>4, <1>15, <3>1 DEF after
  <2> QED BY <2>1, <2>2, <2>3
<1> QED BY <1>13, <1>14, <1>15

----------------------------------------------------------------------------
(* The row cycle and the refreshes of a bank: how far back it opened or     *)
(* closed (a) and was refreshed (r) is what its nodes wait for.             *)

\* The assumptions on refreshes: they go to ranks, and the precharge of all
\* banks takes no less than that of one.
RefreshTimes == Refreshed \subseteq Ranked /\ ("LPDDR5" \in Refreshed => V.nRP <= V.nRPab)

Timed(s, w, b, closed, a, r) ==
  /\ closed => Due(w, b, "ACT", Depth(s), V.nRP - 1 - a)
  /\ ~closed => Due(w, b, "PRE", Depth(s), V.nRAS - 1 - a)
  /\ s \in Refreshed /\ ~closed => Due(w, b, "PREA", 1, V.nRAS - 1 - a)
  /\ s \in Refreshed /\ closed => Due(w, b, "REFab", 1, V.nRP - 1 - a)
  /\ r < V.nRFC => closed /\ Due(w, b, "ACT", Depth(s), V.nRFC - 1 - r)
  /\ r = 0 => a >= V.nRP

BanksTimed == \A b \in Banks : Timed(std, wait, b, Shut(b), age[b], refreshed[b])

\* The waiting times one cycle later.
IsNext(w, x) == x = [n \in Nodes |-> [d \in Cmds(std) |-> Larger(0, w[n][d] - 1)]]

Waitings == [Nodes -> [Cmds(std) -> Nat]]

LEMMA OlderFacts ==
  ASSUME NEW a \in 0 .. Idle
  PROVE  /\ Older(a) \in 0 .. Idle /\ a <= Older(a)
         /\ \A t \in 0 .. Idle : t - 1 - a <= 0 => Older(a) >= t
         /\ \A t \in 0 .. Idle : t - 1 - Older(a) <= 0 \/ t - 1 - Older(a) = (t - 1 - a) - 1
         /\ Older(a) = 0 => Idle = 0
<1>1. Idle \in Nat BY DRAMDeviceAssumption
<1> QED BY <1>1 DEF Older

LEMMA TimeFacts == V.nRP \in 0 .. Idle /\ V.nRAS \in 0 .. Idle /\ V.nRFC \in 0 .. Idle /\ Idle \in Nat
BY DRAMDeviceAssumption

LEMMA BaseCommands ==
  ASSUME Device
  PROVE  /\ \A c \in {"ACT", "PRE", "RD", "WR", "PREA", "REFab"} : c \in Cmds(std)
         /\ \A c \in {"ACT", "PRE", "RD", "WR"} : Commands[std].scope[c] = Depth(std)
         /\ Depth(std) \in Nat /\ Depth(std) \in 0 .. Depth(std) /\ 1 \in 0 .. Depth(std)
         /\ 0 \in 0 .. Depth(std)
<1>1. std \in Standards /\ Depth(std) \in 2 .. 4 BY DeviceFacts
<1>2. CommandsAt(Commands[std], Depth(std)) BY <1>1, CommandFacts
<1> QED BY <1>1, <1>2 DEF CommandsAt, Cmds

LEMMA DueAtOnce ==
  ASSUME Device, NEW w \in Waitings, NEW b \in Banks, NEW c \in Cmds(std), NEW top \in Nat,
         NEW t \in Int, t <= 0
  PROVE  Due(w, b, c, top, t)
<1>1. shape \in Shapes /\ b \in PathsTo(shape) /\ 0 \in 0 .. Len(b) /\ Nodes = PathsTo(shape)
  BY DeviceFacts
<1>2. SubSeq(b, 1, 0) \in Nodes BY <1>1, PathFacts
<1>3. w[SubSeq(b, 1, 0)][c] \in Nat BY <1>2 DEF Waitings
<1>4. 0 \in 0 .. top OBVIOUS
<1> QED BY <1>3, <1>4 DEF Due

\* A bank that only gets older.
LEMMA DueOlder ==
  ASSUME Device, NEW w \in Waitings, NEW x \in Waitings, IsNext(w, x), NEW b \in Banks,
         NEW c \in Cmds(std), NEW top \in 0 .. Depth(std), NEW t \in 0 .. Idle, NEW a \in 0 .. Idle,
         Due(w, b, c, top, t - 1 - a)
  PROVE  Due(x, b, c, top, t - 1 - Older(a))
<1>1. Older(a) \in 0 .. Idle /\ (t - 1 - Older(a) <= 0 \/ t - 1 - Older(a) = (t - 1 - a) - 1)
  BY OlderFacts
<1>2. t - 1 - a \in Int /\ t - 1 - Older(a) \in Int BY <1>1
<1>3. CASE t - 1 - Older(a) <= 0 BY <1>2, <1>3, BaseCommands, DueAtOnce
<1>4. CASE t - 1 - Older(a) = (t - 1 - a) - 1
  <2> DEFINE d == t - 1 - a
  <2>1. d \in Int /\ Due(w, b, c, top, d) BY <1>2
  <2> HIDE DEF d
  <2>2. Due(x, b, c, top, d - 1) BY <2>1, DueNext DEF IsNext, Waitings
  <2>3. d - 1 = t - 1 - Older(a) BY <1>4 DEF d
  <2> QED BY <2>2, <2>3
<1> QED BY <1>1, <1>3, <1>4

LEMMA TimedOlder ==
  ASSUME Device, NEW w \in Waitings, NEW x \in Waitings, IsNext(w, x), NEW b \in Banks,
         NEW closed \in BOOLEAN, NEW a \in 0 .. Idle, NEW r \in 0 .. Idle,
         Timed(std, w, b, closed, a, r)
  PROVE  Timed(std, x, b, closed, Older(a), Older(r))
<1>1. /\ \A c \in {"ACT", "PRE", "PREA", "REFab"} : c \in Cmds(std)
      /\ Depth(std) \in 0 .. Depth(std) /\ 1 \in 0 .. Depth(std)
  BY BaseCommands
<1>2. V.nRP \in 0 .. Idle /\ V.nRAS \in 0 .. Idle /\ V.nRFC \in 0 .. Idle BY TimeFacts
<1>3. closed => Due(x, b, "ACT", Depth(std), V.nRP - 1 - Older(a))
  BY <1>1, <1>2, DueOlder DEF Timed
<1>4. ~closed => Due(x, b, "PRE", Depth(std), V.nRAS - 1 - Older(a))
  BY <1>1, <1>2, DueOlder DEF Timed
<1>5. std \in Refreshed /\ ~closed => Due(x, b, "PREA", 1, V.nRAS - 1 - Older(a))
  BY <1>1, <1>2, DueOlder DEF Timed
<1>6. std \in Refreshed /\ closed => Due(x, b, "REFab", 1, V.nRP - 1 - Older(a))
  BY <1>1, <1>2, DueOlder DEF Timed
<1>7. Older(r) < V.nRFC => closed /\ Due(x, b, "ACT", Depth(std), V.nRFC - 1 - Older(r))
  <2> SUFFICES ASSUME Older(r) < V.nRFC
               PROVE  closed /\ Due(x, b, "ACT", Depth(std), V.nRFC - 1 - Older(r))
    OBVIOUS
  <2>1. r < V.nRFC BY <1>2, OlderFacts
  <2>2. closed /\ Due(w, b, "ACT", Depth(std), V.nRFC - 1 - r) BY <2>1 DEF Timed
  <2> QED BY <1>1, <1>2, <2>2, DueOlder
<1>8. Older(r) = 0 => Older(a) >= V.nRP BY <1>2, OlderFacts
<1> QED BY <1>3, <1>4, <1>5, <1>6, <1>7, <1>8 DEF Timed

\* What an issue leaves of the waiting times: they are no shorter, and along the
\* path of the command as long as the table asks.
NoShorter(w) == \A n \in Nodes : \A d \in Cmds(std) : wait[n][d] <= w[n][d]
AsLong(w, cmd, path) ==
  \A n \in Nodes : \A d \in Cmds(std) :
    IsPrefix(n, path) => Latency[std][Len(n)][FALSE][cmd][d] <= w[n][d]

LEMMA TimedLonger ==
  ASSUME Typed, NEW w \in Waitings, NoShorter(w),
         NEW b \in Banks, Timed(std, wait, b, Shut(b), age[b], refreshed[b])
  PROVE  Timed(std, w, b, Shut(b), age[b], refreshed[b])
<1>1. Device /\ age[b] \in 0 .. Idle /\ refreshed[b] \in 0 .. Idle BY DEF Typed
<1>2. /\ \A c \in {"ACT", "PRE", "PREA", "REFab"} : c \in Cmds(std)
      /\ Depth(std) \in 0 .. Depth(std) /\ 1 \in 0 .. Depth(std)
  BY <1>1, BaseCommands
<1>3. /\ V.nRP - 1 - age[b] \in Int /\ V.nRAS - 1 - age[b] \in Int /\ V.nRFC - 1 - refreshed[b] \in Int
  BY <1>1, TimeFacts
<1>4. /\ w \in [Nodes -> [Cmds(std) -> Nat]]
      /\ \A n \in Nodes : \A d \in Cmds(std) : wait[n][d] <= w[n][d]
  BY DEF Waitings, NoShorter
<1> QED BY <1>2, <1>3, <1>4, DueLonger DEF Timed

\* What a command that a table asks to be waited for leaves due, a cycle later.
LEMMA DueIssued ==
  ASSUME Typed, NEW path \in Nodes, NEW cmd \in Cmds(std), NEW w \in Waitings,
         AsLong(w, cmd, path),
         NEW x \in Waitings, IsNext(w, x), NEW b \in Banks, NEW c \in Cmds(std),
         NEW top \in 0 .. Depth(std), top <= Len(path), Share(b, path, top), NEW t \in Int,
         Asks(Timing[std], top, cmd, c, t)
  PROVE  Due(x, b, c, top, t - 1)
<1>1. Device /\ w \in [Nodes -> [Cmds(std) -> Nat]] /\ x = [n \in Nodes |-> [d \in Cmds(std) |-> Larger(0, w[n][d] - 1)]]
  BY DEF Typed, Waitings, IsNext
<1>2. top \in Nat BY <1>1, BaseCommands
<1>4. \A n \in Nodes : \A d \in Cmds(std) :
        IsPrefix(n, path) => Latency[std][Len(n)][FALSE][cmd][d] <= w[n][d]
  BY DEF AsLong
<1>3. Due(w, b, c, top, t) BY <1>1, <1>2, <1>4, AskedIsDue
<1> QED BY <1>1, <1>3, DueNext

LEMMA TimedOpened ==
  ASSUME Typed, RefreshTimes, NEW b \in Banks, Shut(b),
         Timed(std, wait, b, Shut(b), age[b], refreshed[b]), CheckReady("ACT", b),
         NEW w \in Waitings, NEW x \in Waitings, IsNext(w, x),
         AsLong(w, "ACT", b)
  PROVE  Timed(std, x, b, FALSE, 0, Older(refreshed[b])) /\ Older(age[b]) >= V.nRP
<1>1. Device /\ age[b] \in 0 .. Idle /\ refreshed[b] \in 0 .. Idle BY DEF Typed
<1>2. /\ std \in Standards /\ Banks \subseteq Nodes /\ Len(b) = Depth(std) /\ Depth(std) \in 2 .. 4
      /\ b \in Nodes
  BY <1>1, DeviceFacts
<1>3. /\ \A c \in {"ACT", "PRE", "PREA", "REFab"} : c \in Cmds(std)
      /\ Commands[std].scope["ACT"] = Depth(std)
      /\ Depth(std) \in 0 .. Depth(std) /\ 1 \in 0 .. Depth(std) /\ Depth(std) \in Nat
  BY <1>1, BaseCommands
<1>4. V.nRP \in 0 .. Idle /\ V.nRAS \in 0 .. Idle /\ V.nRFC \in 0 .. Idle BY TimeFacts
<1>5. \A top \in 0 .. Depth(std) : Share(b, b, top) BY DEF Share
<1>6. ASSUME NEW t \in Int, Due(wait, b, "ACT", Depth(std), t) PROVE t <= 0
  BY <1>2, <1>3, <1>5, <1>6, ReadyNotDue
<1>7. Older(age[b]) >= V.nRP
  <2>1. V.nRP - 1 - age[b] \in Int BY <1>1, <1>4
  <2>2. V.nRP - 1 - age[b] <= 0 BY <1>6, <2>1 DEF Timed
  <2> QED BY <1>1, <1>4, <2>2, OlderFacts
<1>8. ~(Older(refreshed[b]) < V.nRFC)
  <2> SUFFICES ASSUME Older(refreshed[b]) < V.nRFC PROVE FALSE OBVIOUS
  <2>1. refreshed[b] < V.nRFC BY <1>1, <1>4, OlderFacts
  <2>2. V.nRFC - 1 - refreshed[b] \in Int BY <1>1, <1>4
  <2>3. V.nRFC - 1 - refreshed[b] <= 0 BY <1>6, <2>1, <2>2 DEF Timed
  <2>4. Older(refreshed[b]) >= V.nRFC BY <1>1, <1>4, <2>3, OlderFacts
  <2>5. Older(refreshed[b]) \in 0 .. Idle BY <1>1, OlderFacts
  <2> QED BY <1>4, <2>4, <2>5
<1>9. Asks(Timing[std], Depth(std), "ACT", "PRE", V.nRAS) BY <1>2, BankTable DEF BankAsks
<1>10. Due(x, b, "PRE", Depth(std), V.nRAS - 1)
  BY <1>2, <1>3, <1>4, <1>5, <1>9, DueIssued
<1>11. std \in Refreshed => Due(x, b, "PREA", 1, V.nRAS - 1)
  <2> SUFFICES ASSUME std \in Refreshed PROVE Due(x, b, "PREA", 1, V.nRAS - 1) OBVIOUS
  <2>1. Asks(Timing[std], 1, "ACT", "PREA", V.nRAS) BY RankTable DEF RefreshTimes, RankAsks
  <2>2. 1 <= Len(b) BY <1>2
  <2> QED BY <1>2, <1>3, <1>4, <1>5, <2>1, <2>2, DueIssued
<1>12. Older(refreshed[b]) = 0 => 0 >= V.nRP BY <1>1, <1>4, OlderFacts
<1>13. V.nRAS - 1 - 0 = V.nRAS - 1 BY <1>4
<1> QED BY <1>7, <1>8, <1>10, <1>11, <1>12, <1>13 DEF Timed

LEMMA TimedClosed ==
  ASSUME Typed, RefreshTimes, NEW b \in Banks, ~Shut(b), NEW path \in Nodes, NEW cmd,
         \/ cmd = "PRE" /\ b = path
         \/ cmd = "PREA" /\ std \in Refreshed /\ Len(path) = 1 /\ IsPrefix(path, b),
         Timed(std, wait, b, Shut(b), age[b], refreshed[b]), CheckReady(cmd, path),
         NEW w \in Waitings, NEW x \in Waitings, IsNext(w, x),
         AsLong(w, cmd, path)
  PROVE  Timed(std, x, b, TRUE, 0, Older(refreshed[b])) /\ Older(age[b]) >= V.nRAS
<1>1. Device /\ age[b] \in 0 .. Idle /\ refreshed[b] \in 0 .. Idle BY DEF Typed
<1>2. /\ std \in Standards /\ Banks \subseteq Nodes /\ Len(b) = Depth(std) /\ Depth(std) \in 2 .. 4
      /\ b \in Nodes /\ shape \in Shapes /\ Nodes = PathsTo(shape)
  BY <1>1, DeviceFacts
<1>3. /\ \A c \in {"ACT", "PRE", "PREA", "REFab"} : c \in Cmds(std)
      /\ Commands[std].scope["PRE"] = Depth(std)
      /\ Depth(std) \in 0 .. Depth(std) /\ 1 \in 0 .. Depth(std) /\ Depth(std) \in Nat
  BY <1>1, BaseCommands
<1>4. V.nRP \in 0 .. Idle /\ V.nRAS \in 0 .. Idle /\ V.nRFC \in 0 .. Idle BY TimeFacts
<1>5. ~(Older(refreshed[b]) < V.nRFC)
  <2>1. ~(refreshed[b] < V.nRFC) BY DEF Timed
  <2>2. refreshed[b] <= Older(refreshed[b]) /\ Older(refreshed[b]) \in 0 .. Idle BY <1>1, OlderFacts
  <2> QED BY <1>1, <1>4, <2>1, <2>2
<1>6. Older(refreshed[b]) = 0 => 0 >= V.nRP BY <1>1, <1>4, OlderFacts
<1>7. V.nRP - 1 - 0 = V.nRP - 1 /\ V.nRAS - 1 - age[b] \in Int BY <1>1, <1>4
<1>8. V.nRAS - 1 - age[b] <= 0 =>  Older(age[b]) >= V.nRAS BY <1>1, <1>4, OlderFacts
<1>9. CASE cmd = "PRE" /\ b = path
  <2>1. \A top \in 0 .. Depth(std) : Share(b, b, top) BY DEF Share
  <2>2. V.nRAS - 1 - age[b] <= 0
    <3>1. Due(wait, b, "PRE", Depth(std), V.nRAS - 1 - age[b]) BY DEF Timed
    <3> QED BY <1>2, <1>3, <1>7, <1>9, <2>1, <3>1, ReadyNotDue
  <2>3. Asks(Timing[std], Depth(std), "PRE", "ACT", V.nRP) BY <1>2, BankTable DEF BankAsks
  <2>4. Due(x, b, "ACT", Depth(std), V.nRP - 1)
    BY <1>2, <1>3, <1>4, <1>9, <2>1, <2>3, DueIssued
  <2>5. std \in Refreshed => Due(x, b, "REFab", 1, V.nRP - 1)
    <3> SUFFICES ASSUME std \in Refreshed PROVE Due(x, b, "REFab", 1, V.nRP - 1) OBVIOUS
    <3>1. Asks(Timing[std], 1, "PRE", "REFab", V.nRP) BY RankTable DEF RefreshTimes, RankAsks
    <3>2. 1 <= Len(b) BY <1>2
    <3> QED BY <1>2, <1>3, <1>4, <1>9, <2>1, <3>1, <3>2, DueIssued
  <2> QED BY <1>5, <1>6, <1>7, <1>8, <2>2, <2>4, <2>5 DEF Timed
<1>10. CASE cmd = "PREA" /\ std \in Refreshed /\ Len(path) = 1 /\ IsPrefix(path, b)
  <2>1. Share(b, path, 1)
    <3>1. Share(path, b, Len(path)) BY <1>2, <1>10, PrefixIs
    <3> QED BY <1>10, <3>1 DEF Share
  <2>2. RankCommands(Commands[std]) /\ RankAsks(Timing[std])
    BY <1>2, <1>10, CommandFacts, RankTable DEF RefreshTimes
  <2>3. V.nRAS - 1 - age[b] <= 0
    <3>1. Due(wait, b, "PREA", 1, V.nRAS - 1 - age[b]) BY <1>10 DEF Timed
    <3>2. Commands[std].scope["PREA"] = 1 BY <2>2 DEF RankCommands
    <3>3. 1 <= Len(path) /\ 1 \in Nat /\ 1 <= Commands[std].scope["PREA"] /\ Commands[std].scope["PREA"] \in Nat
      BY <1>10, <3>2
    <3>4. CheckReady("PREA", path) /\ "PREA" \in Cmds(std) BY <1>3, <1>10
    <3> QED BY <1>7, <2>1, <3>1, <3>3, <3>4, ReadyNotDue
  <2>4. /\ Asks(Timing[std], 1, "PREA", "ACT", V.nRP) /\ Asks(Timing[std], 1, "PREA", "REFab", V.nRP)
    BY <2>2 DEF RankAsks
  <2>5. Due(x, b, "ACT", 1, V.nRP - 1) /\ Due(x, b, "REFab", 1, V.nRP - 1)
    <3>1. 1 <= Len(path) /\ V.nRP \in Int BY <1>4, <1>10
    <3>2. AsLong(w, "PREA", path) /\ "PREA" \in Cmds(std) /\ "ACT" \in Cmds(std) /\ "REFab" \in Cmds(std)
      BY <1>3, <1>10
    <3>3. 1 \in 0 .. Depth(std) BY <1>3
    <3>4. Due(x, b, "ACT", 1, V.nRP - 1) BY <2>1, <2>4, <3>1, <3>2, <3>3, DueIssued
    <3>5. Due(x, b, "REFab", 1, V.nRP - 1) BY <2>1, <2>4, <3>1, <3>2, <3>3, DueIssued
    <3> QED BY <3>4, <3>5
  <2>6. Due(x, b, "ACT", Depth(std), V.nRP - 1) BY <1>2, <2>5, DueAbove
  <2> QED BY <1>5, <1>6, <1>7, <1>8, <2>3, <2>5, <2>6 DEF Timed
<1> QED BY <1>9, <1>10

LEMMA TimedRefreshed ==
  ASSUME Typed, RefreshTimes, NEW b \in Banks, Shut(b), NEW path \in Nodes,
         std \in Refreshed, Len(path) = 1, IsPrefix(path, b),
         Timed(std, wait, b, Shut(b), age[b], refreshed[b]), CheckReady("REFab", path),
         NEW w \in Waitings, NEW x \in Waitings, IsNext(w, x),
         NoShorter(w),
         AsLong(w, "REFab", path)
  PROVE  Timed(std, x, b, TRUE, Older(age[b]), 0)
<1>1. Device /\ age[b] \in 0 .. Idle /\ refreshed[b] \in 0 .. Idle BY DEF Typed
<1>2. /\ std \in Standards /\ Len(b) = Depth(std) /\ Depth(std) \in 2 .. 4
      /\ b \in Nodes /\ shape \in Shapes /\ Nodes = PathsTo(shape)
  BY <1>1, DeviceFacts
<1>3. /\ \A c \in {"ACT", "PRE", "PREA", "REFab"} : c \in Cmds(std)
      /\ Depth(std) \in 0 .. Depth(std) /\ 1 \in 0 .. Depth(std) /\ Depth(std) \in Nat
  BY <1>1, BaseCommands
<1>4. V.nRP \in 0 .. Idle /\ V.nRAS \in 0 .. Idle /\ V.nRFC \in 0 .. Idle BY TimeFacts
<1>5. Timed(std, x, b, TRUE, Older(age[b]), Older(refreshed[b]))
  <2>1. Timed(std, w, b, Shut(b), age[b], refreshed[b]) BY TimedLonger
  <2>2. Shut(b) = TRUE BY DEF Shut
  <2>3. Timed(std, w, b, TRUE, age[b], refreshed[b]) BY <2>1, <2>2
  <2> QED BY <1>1, <2>3, TimedOlder
<1>6. Share(b, path, 1)
  <2>1. Share(path, b, Len(path)) BY <1>2, PrefixIs
  <2> QED BY <2>1 DEF Share
<1>7. RankCommands(Commands[std]) /\ RankAsks(Timing[std])
  BY <1>2, CommandFacts, RankTable DEF RefreshTimes
<1>8. Older(age[b]) >= V.nRP
  <2>1. Due(wait, b, "REFab", 1, V.nRP - 1 - age[b]) BY DEF Timed
  <2>2. Commands[std].scope["REFab"] = 1 BY <1>7 DEF RankCommands
  <2>3. V.nRP - 1 - age[b] \in Int BY <1>1, <1>4
  <2>5. 1 <= Len(path) /\ 1 \in Nat /\ 1 <= Commands[std].scope["REFab"] /\ Commands[std].scope["REFab"] \in Nat
    BY <2>2
  <2>4. V.nRP - 1 - age[b] <= 0 BY <1>3, <1>6, <2>1, <2>5, <2>3, ReadyNotDue
  <2> QED BY <1>1, <1>4, <2>4, OlderFacts
<1>9. Due(x, b, "ACT", Depth(std), V.nRFC - 1)
  <2>1. Asks(Timing[std], 1, "REFab", "ACT", V.nRFC) BY <1>7 DEF RankAsks
  <2>2. Due(x, b, "ACT", 1, V.nRFC - 1)
    <3>1. 1 <= Len(path) /\ V.nRFC \in Int BY <1>4
    <3> QED BY <1>3, <1>6, <2>1, <3>1, DueIssued
  <2> QED BY <1>2, <2>2, DueAbove
<1>10. V.nRFC - 1 - 0 = V.nRFC - 1 BY <1>4
<1> QED BY <1>5, <1>8, <1>9, <1>10 DEF Timed

----------------------------------------------------------------------------
(* The types are kept.                                                     *)

LEMMA ShapedAfter ==
  ASSUME Typed, BanksShaped, NEW path, NEW cmd, Legal(cmd, path), NEW row \in Rows
  PROVE  LET after == UpdateStates(cmd, path, row)
         IN  /\ after \in [Banks -> [state : States, rows : SUBSET Rows]]
             /\ \A b \in Banks : Shaped(after[b], Rules[std].twoStep)
<1> DEFINE put(b) == [state |-> IF cmd \in Rules[std].opens THEN "Opened" ELSE "PreOpened",
                      rows |-> bank[b].rows \cup {row}]
           at(b) == IF b \in ClosedBy(cmd, path) THEN Closed
                    ELSE IF b = path /\ cmd \in {"ACT", "ACT2"} THEN put(b) ELSE bank[b]
           after == UpdateStates(cmd, path, row)
<1>1. std \in Standards BY DeviceFacts DEF Typed
<1>2. Rules[std].opens \subseteq {"ACT", "ACT2"} /\ (~Rules[std].twoStep => Rules[std].opens = {"ACT"})
  BY <1>1, RulesFacts, CommandFacts DEF RulesTable
<1>3. ASSUME NEW b \in Banks
      PROVE  at(b) \in [state : States, rows : SUBSET Rows] /\ Shaped(at(b), Rules[std].twoStep)
  <2>1. bank[b] \in [state : States, rows : SUBSET Rows] /\ Shaped(bank[b], Rules[std].twoStep)
    BY DEF Typed, Device, BanksShaped
  <2>2. Closed \in [state : States, rows : SUBSET Rows] /\ Shaped(Closed, Rules[std].twoStep)
    BY DEF Closed, States, Shaped
  <2>3. ASSUME b = path, cmd \in {"ACT", "ACT2"}
        PROVE  put(b) \in [state : States, rows : SUBSET Rows] /\ Shaped(put(b), Rules[std].twoStep)
    <3>1. /\ put(b) \in [state : States, rows : SUBSET Rows] /\ put(b).rows = bank[b].rows \cup {row}
          /\ put(b).state # "Closed" /\ (put(b).state = "PreOpened" => cmd \notin Rules[std].opens)
      BY <2>1 DEF States
    <3> HIDE DEF put
    <3>2. CASE cmd = "ACT"
      <4>1. bank[b].rows = {} BY <2>1, <2>3, <3>2 DEF Legal, BankLegal, RankLegal, Shut, Shaped
      <4>2. put(b).rows = {row} BY <3>1, <4>1
      <4> QED BY <1>2, <3>1, <3>2, <4>2 DEF Shaped
    <3>3. CASE cmd = "ACT2"
      <4>1. Rules[std].twoStep BY <3>3 DEF Legal, BankLegal, RankLegal
      <4>2. put(b).rows # {} BY <3>1
      <4> QED BY <3>1, <4>1, <4>2 DEF Shaped
    <3> QED BY <2>3, <3>2, <3>3
  <2> HIDE DEF put
  <2> QED BY <2>1, <2>2, <2>3
<1>4. after = [b \in Banks |-> at(b)] BY DEF UpdateStates
<1> HIDE DEF at
<1>5. after \in [Banks -> [state : States, rows : SUBSET Rows]] /\ \A b \in Banks : after[b] = at(b)
  BY <1>3, <1>4
<1> HIDE DEF after
<1>6. \A b \in Banks : Shaped(after[b], Rules[std].twoStep) BY <1>3, <1>5
<1> QED BY <1>5, <1>6 DEF after

Histories == [Nodes -> SUBSET (0 .. V.nFAW)]

LEMMA HistoryAfter ==
  ASSUME Typed, NEW cmd, NEW path
  PROVE  UpdateHistory(cmd, path) \in Histories /\ activates \in Histories
<1>1. V.nFAW \in Nat BY TimingValues DEF TimingNames
<1>2. \A n \in Nodes : activates[n] \in SUBSET (0 .. V.nFAW)
  <2>1. 1 .. V.nFAW \subseteq 0 .. V.nFAW BY <1>1
  <2> QED BY <2>1 DEF Typed
<1>3. 0 \in 0 .. V.nFAW BY <1>1
<1>4. activates \in Histories BY <1>2 DEF Histories, Typed
<1>5. UpdateHistory(cmd, path) \in Histories BY <1>2, <1>3 DEF Histories, UpdateHistory
<1> QED BY <1>4, <1>5

\* A step of the device, of whatever kind: what it leaves.
Goes(w, h, k, s, r, d) ==
  /\ Cycle(w, h, k, s, r, d)
  /\ w \in Waitings /\ h \in Histories
  /\ k \in [Banks -> [state : States, rows : SUBSET Rows]]
  /\ \A b \in Banks : Shaped(k[b], Rules[std].twoStep)
  /\ d \subseteq [at : Int, read : BOOLEAN, path : Banks]
  /\ \A n \in Nodes : \A c \in Cmds(std) : wait[n][c] <= w[n][c]

\* A command whose effects the tables say.
Issued(cmd, path, w, h, d) ==
  /\ Legal(cmd, path) /\ CheckReady(cmd, path) /\ path \in Nodes /\ cmd \in Cmds(std)
  /\ h = UpdateHistory(cmd, path) /\ d = Burst(cmd, path)
  /\ \A n \in Nodes : \A c \in Cmds(std) :
       IsPrefix(n, path) => Latency[std][Len(n)][FALSE][cmd][c] <= w[n][c]
  /\ \A n \in Nodes : cmd = "ACT" /\ IsPrefix(n, path) => WindowWait(h[n]) <= w[n]["ACT"]

LEMMA StepIs ==
  ASSUME Typed, BanksShaped, Next
  PROVE  \/ Goes(wait, activates, bank, sync, {}, {})
         \/ \E cmd : \E path \in Nodes, row \in Rows : \E w, h, s, d :
              /\ Goes(w, h, UpdateStates(cmd, path, row), s, IF cmd = "REFab" THEN Below(path) ELSE {}, d)
              /\ Issued(cmd, path, w, h, d)
<1>1. CASE Cycle(wait, activates, bank, sync, {}, {})
  <2>1. activates \in Histories BY HistoryAfter
  <2>2. wait \in Waitings /\ bank \in [Banks -> [state : States, rows : SUBSET Rows]]
    BY DEF Typed, Device, Waitings
  <2>3. \A n \in Nodes : \A c \in Cmds(std) : wait[n][c] <= wait[n][c]
    <3>1. \A n \in Nodes : \A c \in Cmds(std) : wait[n][c] \in Nat BY DEF Typed
    <3> QED BY <3>1
  <2>4. Goes(wait, activates, bank, sync, {}, {})
    BY <1>1, <2>1, <2>2, <2>3 DEF Goes, BanksShaped
  <2> QED BY <2>4
<1>2. ASSUME NEW path \in Nodes, NEW row \in Rows, NEW cmd, Legal(cmd, path), CheckReady(cmd, path),
             Issue(cmd, path, row)
      PROVE  \E w, h, s, d :
              /\ Goes(w, h, UpdateStates(cmd, path, row), s, IF cmd = "REFab" THEN Below(path) ELSE {}, d)
              /\ Issued(cmd, path, w, h, d)
  <2> DEFINE h == UpdateHistory(cmd, path)
             w == UpdateTiming(cmd, path, h)
             k == UpdateStates(cmd, path, row)
             s == UpdateSync(cmd, path)
             r == IF cmd = "REFab" THEN Below(path) ELSE {}
             d == Burst(cmd, path)
  <2>1. Cycle(w, h, k, s, r, d) BY <1>2 DEF Issue
  <2>2. cmd \in Cmds(std) BY <1>2, LegalCommand
  <2>3. h \in Histories BY HistoryAfter
  <2>4. /\ k \in [Banks -> [state : States, rows : SUBSET Rows]]
        /\ \A b \in Banks : Shaped(k[b], Rules[std].twoStep)
    BY <1>2, ShapedAfter
  <2>5. d \subseteq [at : Int, read : BOOLEAN, path : Banks]
    <3>1. V.nCL \in Int /\ V.nCWL \in Int BY TimingValues DEF TimingNames
    <3>2. cmd \in Reads \cup Writes => path \in Banks
      BY <1>2 DEF Legal, RankLegal, BankLegal, Reads, Writes
    <3>3. CASE cmd \in Reads
      <4>1. cmd \notin Writes BY <3>3 DEF Reads, Writes
      <4> QED BY <3>1, <3>2, <3>3, <4>1 DEF Burst
    <3>4. CASE cmd \notin Reads /\ cmd \in Writes BY <3>1, <3>2, <3>4 DEF Burst
    <3>5. CASE cmd \notin Reads /\ cmd \notin Writes BY <3>5 DEF Burst
    <3> QED BY <3>3, <3>4, <3>5
  <2> HIDE DEF h
  <2>6. /\ w \in [Nodes -> [Cmds(std) -> Nat]]
        /\ \A n \in Nodes : \A c \in Cmds(std) : wait[n][c] <= w[n][c]
        /\ \A n \in Nodes : \A c \in Cmds(std) :
             IsPrefix(n, path) => Latency[std][Len(n)][FALSE][cmd][c] <= w[n][c]
        /\ \A n \in Nodes : cmd = "ACT" /\ IsPrefix(n, path) => WindowWait(h[n]) <= w[n]["ACT"]
    BY <2>2, <2>3, UpdateFacts DEF Histories
  <2>7. h = UpdateHistory(cmd, path) BY DEF h
  <2> HIDE DEF w, k, s, r, d
  <2>8. Goes(w, h, k, s, r, d) BY <2>1, <2>3, <2>4, <2>5, <2>6 DEF Goes, Waitings
  <2>9. d = Burst(cmd, path) BY DEF d
  <2>10. Issued(cmd, path, w, h, d) BY <1>2, <2>2, <2>6, <2>7, <2>9 DEF Issued
  <2> QED BY <2>8, <2>10 DEF k, r
<1> QED BY <1>1, <1>2, NextIs

LEMMA GoesFacts ==
  ASSUME Typed, NEW w, NEW h, NEW k, NEW s, NEW r, NEW d, Goes(w, h, k, s, r, d)
  PROVE  /\ std' = std /\ shape' = shape /\ Nodes' = Nodes /\ Banks' = Banks /\ Waitings' = Waitings
         /\ IsNext(w, wait') /\ wait' \in Waitings
         /\ \A n \in Nodes : activates'[n] = { a \in 1 .. V.nFAW : a - 1 \in h[n] }
         /\ bank' = k /\ Device' /\ BanksShaped'
         /\ \A b \in Banks : /\ age'[b] = IF Shut(b) # (k[b].state = "Closed") THEN 0 ELSE Older(age[b])
                             /\ refreshed'[b] = IF b \in r THEN 0 ELSE Older(refreshed[b])
         /\ bursts' = { [u EXCEPT !.at = u.at - 1] : u \in { v \in bursts : v.at + V.nBL > 1 } \cup d }
<1>1. /\ std' = std /\ shape' = shape /\ bank' = k
      /\ wait' = [n \in Nodes |-> [c \in Cmds(std) |-> Larger(0, w[n][c] - 1)]]
      /\ activates' = [n \in Nodes |-> { a \in 1 .. V.nFAW : a - 1 \in h[n] }]
      /\ age' = [b \in Banks |-> IF Shut(b) # (k[b].state = "Closed") THEN 0 ELSE Older(age[b])]
      /\ refreshed' = [b \in Banks |-> IF b \in r THEN 0 ELSE Older(refreshed[b])]
      /\ bursts' = { [u EXCEPT !.at = u.at - 1] : u \in { v \in bursts : v.at + V.nBL > 1 } \cup d }
  BY DEF Goes, Cycle, Clock, Shut
<1>2. Nodes' = Nodes /\ Banks' = Banks BY <1>1 DEF Nodes, Banks
<1>3. Cmds(std)' = Cmds(std) BY <1>1 DEF Cmds
<1>4. Waitings' = Waitings BY <1>2, <1>3 DEF Waitings
<1>5. wait' \in Waitings
  <2>1. \A n \in Nodes : \A c \in Cmds(std) : Larger(0, w[n][c] - 1) \in Nat
    <3>1. \A n \in Nodes : \A c \in Cmds(std) : w[n][c] \in Nat BY DEF Goes, Waitings
    <3> QED BY <3>1 DEF Larger
  <2> QED BY <1>1, <2>1 DEF Waitings
<1>6. Device'
  <2>1. \E o \in Organizations : std' = o[1] /\ shape' = o[2] BY <1>1 DEF Typed, Device
  <2>2. bank' \in [Banks' -> [state : States, rows : SUBSET Rows]] BY <1>1, <1>2 DEF Goes
  <2> QED BY <2>1, <2>2 DEF Device
<1>7. BanksShaped' BY <1>1, <1>2 DEF BanksShaped, Goes
<1> QED BY <1>1, <1>2, <1>4, <1>5, <1>6, <1>7 DEF IsNext

LEMMA TypedNext ==
  ASSUME Typed, NEW w, NEW h, NEW k, NEW s, NEW r, NEW d, Goes(w, h, k, s, r, d)
  PROVE  Typed'
<1>1. /\ std' = std /\ Nodes' = Nodes /\ Banks' = Banks /\ wait' \in Waitings /\ Device'
      /\ bursts' = { [u EXCEPT !.at = u.at - 1] : u \in { v \in bursts : v.at + V.nBL > 1 } \cup d }
  BY GoesFacts
<1>2. wait' \in [Nodes' -> [Cmds(std)' -> Nat]] BY <1>1 DEF Waitings, Cmds
<1>3. /\ activates' = [n \in Nodes |-> { a \in 1 .. V.nFAW : a - 1 \in h[n] }]
      /\ age' = [b \in Banks |-> IF Shut(b) # (k[b].state = "Closed") THEN 0 ELSE Older(age[b])]
      /\ refreshed' = [b \in Banks |-> IF b \in r THEN 0 ELSE Older(refreshed[b])]
  BY DEF Goes, Cycle, Clock, Shut
<1>4. activates' \in [Nodes' -> SUBSET (1 .. V.nFAW)] BY <1>1, <1>3
<1>5. \A b \in Banks : Older(age[b]) \in 0 .. Idle /\ Older(refreshed[b]) \in 0 .. Idle /\ 0 \in 0 .. Idle
  BY OlderFacts, TimeFacts DEF Typed
<1>6. age' \in [Banks' -> 0 .. Idle] /\ refreshed' \in [Banks' -> 0 .. Idle] BY <1>1, <1>3, <1>5
<1>7. bursts' \subseteq [at : Int, read : BOOLEAN, path : Banks']
  <2>1. bursts \cup d \subseteq [at : Int, read : BOOLEAN, path : Banks] BY DEF Typed, Goes
  <2> SUFFICES ASSUME NEW v \in bursts' PROVE v \in [at : Int, read : BOOLEAN, path : Banks] BY <1>1
  <2>2. PICK u \in bursts \cup d : v = [u EXCEPT !.at = u.at - 1] BY <1>1
  <2>3. u \in [at : Int, read : BOOLEAN, path : Banks] BY <2>1
  <2>4. u.at - 1 \in Int BY <2>3
  <2> QED BY <2>2, <2>3, <2>4
<1> QED BY <1>1, <1>2, <1>4, <1>6, <1>7 DEF Typed

LEMMA InitTyped == Init => Typed /\ BanksShaped
<1> SUFFICES ASSUME Init PROVE Typed /\ BanksShaped OBVIOUS
<1>1. Closed \in [state : States, rows : SUBSET Rows] /\ \A f \in BOOLEAN : Shaped(Closed, f)
  BY DEF Closed, States, Shaped
<1>2. bank \in [Banks -> [state : States, rows : SUBSET Rows]] BY <1>1 DEF Init
<1>3. Device BY <1>2 DEF Init, Device
<1>4. Rules[std].twoStep \in BOOLEAN BY <1>3, DeviceFacts, RulesFacts DEF RulesTable
<1>5. BanksShaped BY <1>1, <1>4 DEF Init, BanksShaped
<1>6. wait \in [Nodes -> [Cmds(std) -> Nat]] BY DEF Init
<1>7. activates \in [Nodes -> SUBSET (1 .. V.nFAW)] BY DEF Init
<1>8. age \in [Banks -> 0 .. Idle] /\ refreshed \in [Banks -> 0 .. Idle] BY TimeFacts DEF Init
<1>9. bursts \subseteq [at : Int, read : BOOLEAN, path : Banks] BY DEF Init
<1> QED BY <1>3, <1>5, <1>6, <1>7, <1>8, <1>9 DEF Typed

LEMMA NextTyped ==
  ASSUME Typed, BanksShaped, [Next]_vars
  PROVE  Typed' /\ BanksShaped'
<1>1. CASE UNCHANGED vars
  BY <1>1 DEF vars, Typed, BanksShaped, Device, Nodes, Banks, Cmds, Shaped
<1>2. CASE Next
  <2>1. PICK w, h, k, s, r, d : Goes(w, h, k, s, r, d) BY <1>2, StepIs
  <2>2. Typed' BY <2>1, TypedNext
  <2>3. BanksShaped' BY <2>1, GoesFacts
  <2> QED BY <2>2, <2>3
<1> QED BY <1>1, <1>2

LEMMA DeviceTyped == Spec => [](Typed /\ BanksShaped)
<1>1. Typed /\ BanksShaped /\ [Next]_vars => (Typed /\ BanksShaped)' BY NextTyped
<1> QED BY <1>1, InitTyped, PTL DEF Spec

----------------------------------------------------------------------------
(* The row cycle of a bank, step by step.                                  *)

Rests(b) ==
  bank'[b] = bank[b] /\ age'[b] = Older(age[b])

Completed(b) ==
  /\ bank[b].state = "PreOpened" /\ bank'[b].state # "PreOpened"
  /\ \E row \in Rows : bank'[b].rows = bank[b].rows \cup {row}
  /\ age'[b] = Older(age[b])

Activated(b) ==
  /\ bank[b].rows = {} /\ Older(age[b]) >= V.nRP
  /\ age'[b] = 0 /\ \E row \in Rows : bank'[b].rows = {row}

Precharges(b) ==
  /\ bank[b].rows # {} /\ Older(age[b]) >= V.nRAS
  /\ age'[b] = 0 /\ bank'[b] = Closed

Cycled(b) == Rests(b) \/ Activated(b) \/ Completed(b) \/ Precharges(b)

LEMMA BankIdles ==
  ASSUME Typed, BanksShaped, BanksTimed, RefreshTimes,
         Goes(wait, activates, bank, sync, {}, {}), NEW b \in Banks
  PROVE  Timed(std, wait', b, Shut(b)', age'[b], refreshed'[b]) /\ Cycled(b)
<1>1. /\ bank' = bank /\ wait' \in Waitings /\ IsNext(wait, wait')
      /\ age'[b] = IF Shut(b) # (bank[b].state = "Closed") THEN 0 ELSE Older(age[b])
      /\ refreshed'[b] = IF b \in {} THEN 0 ELSE Older(refreshed[b])
  BY GoesFacts
<1>2. Shut(b) \in BOOLEAN /\ Shut(b) = (bank[b].state = "Closed") /\ Shut(b)' = Shut(b)
  BY <1>1 DEF Shut
<1>3. age'[b] = Older(age[b]) /\ refreshed'[b] = Older(refreshed[b]) BY <1>1, <1>2
<1>4. Timed(std, wait, b, Shut(b), age[b], refreshed[b]) BY DEF BanksTimed
<1>5. Device /\ wait \in Waitings /\ age[b] \in 0 .. Idle /\ refreshed[b] \in 0 .. Idle
  BY DEF Typed, Waitings
<1>6. Timed(std, wait', b, Shut(b), Older(age[b]), Older(refreshed[b]))
  BY <1>1, <1>2, <1>4, <1>5, TimedOlder
<1> QED BY <1>1, <1>2, <1>3, <1>6 DEF Cycled, Rests

LEMMA BankIssues ==
  ASSUME Typed, BanksShaped, BanksTimed, RefreshTimes, NEW cmd, NEW path \in Nodes, NEW row \in Rows,
         NEW w, NEW h, NEW s, NEW d,
         Goes(w, h, UpdateStates(cmd, path, row), s, IF cmd = "REFab" THEN Below(path) ELSE {}, d),
         Issued(cmd, path, w, h, d), NEW b \in Banks
  PROVE  Timed(std, wait', b, Shut(b)', age'[b], refreshed'[b]) /\ Cycled(b)
<1> DEFINE k == UpdateStates(cmd, path, row)
           r == IF cmd = "REFab" THEN Below(path) ELSE {}
           after == k[b]
<1>1. /\ bank' = k /\ wait' \in Waitings /\ IsNext(w, wait')
      /\ age'[b] = IF Shut(b) # (after.state = "Closed") THEN 0 ELSE Older(age[b])
      /\ refreshed'[b] = IF b \in r THEN 0 ELSE Older(refreshed[b])
  BY GoesFacts
<1>2. /\ w \in Waitings /\ NoShorter(w) /\ AsLong(w, cmd, path)
      /\ Legal(cmd, path) /\ CheckReady(cmd, path)
  BY DEF Goes, Issued, NoShorter, AsLong
<1>3. /\ Shaped(after, Rules[std].twoStep)
      /\ Opens(cmd, path, b) => Shut(b) /\ after.state # "Closed" /\ after.rows = {row}
      /\ ClosesIt(cmd, path, b) => after = Closed
      /\ ~Opens(cmd, path, b) /\ ~ClosesIt(cmd, path, b) =>
           \/ after = bank[b]
           \/ /\ bank[b].state = "PreOpened" /\ after.state = "Opened"
              /\ after.rows = bank[b].rows \cup {row}
  BY <1>2, StateAfter DEF RefreshTimes
<1> HIDE DEF k
<1>4. Shut(b) \in BOOLEAN /\ Shut(b) = (bank[b].state = "Closed") BY DEF Shut
<1>5. Shut(b)' = (after.state = "Closed") BY <1>1 DEF Shut
<1>6. Shaped(bank[b], Rules[std].twoStep) /\ (Shut(b) <=> bank[b].rows = {})
  BY <1>4 DEF BanksShaped, Shaped
<1>7. Timed(std, wait, b, Shut(b), age[b], refreshed[b]) BY DEF BanksTimed
<1>8. Device /\ age[b] \in 0 .. Idle /\ refreshed[b] \in 0 .. Idle BY DEF Typed
<1>9. bank'[b] = after BY <1>1
<1> HIDE DEF after
<1>10. CASE Opens(cmd, path, b)
  <2>1. cmd = "ACT" /\ path = b /\ Shut(b) BY <1>3, <1>10 DEF Opens
  <2>2. after.state # "Closed" /\ after.rows = {row} BY <1>3, <1>10
  <2>3. age'[b] = 0 BY <1>1, <1>4, <2>1, <2>2
  <2>4. refreshed'[b] = Older(refreshed[b]) BY <1>1, <2>1
  <2>5. CheckReady("ACT", b) /\ AsLong(w, "ACT", b) BY <1>2, <2>1
  <2>6. Timed(std, wait', b, FALSE, 0, Older(refreshed[b])) /\ Older(age[b]) >= V.nRP
    BY <1>1, <1>2, <1>7, <2>1, <2>5, TimedOpened
  <2>7. Shut(b)' = FALSE BY <1>5, <2>2
  <2>8. Activated(b) BY <1>6, <1>9, <2>1, <2>2, <2>3, <2>6 DEF Activated
  <2> QED BY <2>3, <2>4, <2>6, <2>7, <2>8 DEF Cycled
<1>11. CASE ClosesIt(cmd, path, b)
  <2>1. /\ ~Shut(b)
        /\ \/ cmd = "PRE" /\ b = path
           \/ cmd = "PREA" /\ std \in Refreshed /\ Len(path) = 1 /\ IsPrefix(path, b)
    BY <1>2, <1>11 DEF ClosesIt, Legal, BankLegal, RankLegal
  <2>2. after = Closed /\ after.state = "Closed" BY <1>3, <1>11 DEF Closed
  <2>3. age'[b] = 0 BY <1>1, <1>4, <2>1, <2>2
  <2>4. refreshed'[b] = Older(refreshed[b]) BY <1>1, <2>1
  <2>5. Timed(std, wait', b, TRUE, 0, Older(refreshed[b])) /\ Older(age[b]) >= V.nRAS
    BY <1>1, <1>2, <1>7, <2>1, TimedClosed
  <2>6. Shut(b)' = TRUE BY <1>5, <2>2
  <2>7. Precharges(b) BY <1>6, <1>9, <2>1, <2>2, <2>3, <2>5 DEF Precharges
  <2> QED BY <2>3, <2>4, <2>5, <2>6, <2>7 DEF Cycled
<1>12. CASE ~Opens(cmd, path, b) /\ ~ClosesIt(cmd, path, b)
  <2>1. (after.state = "Closed") = Shut(b) BY <1>3, <1>4, <1>12
  <2>2. age'[b] = Older(age[b]) /\ Shut(b)' = Shut(b) BY <1>1, <1>5, <2>1
  <2>3. Rests(b) \/ Completed(b)
    <3>1. CASE after = bank[b] BY <1>9, <2>2, <3>1 DEF Rests
    <3>2. CASE /\ bank[b].state = "PreOpened" /\ after.state = "Opened"
               /\ after.rows = bank[b].rows \cup {row}
      BY <1>9, <2>2, <3>2 DEF Completed
    <3> QED BY <1>3, <1>12, <3>1, <3>2
  <2>4. CASE b \in r
    <3>1. cmd = "REFab" /\ IsPrefix(path, b) BY <2>4 DEF Below
    <3>2. std \in Refreshed /\ Len(path) = 1 /\ AllClosed(SubSeq(path, 1, Rules[std].all))
      BY <1>2, <3>1 DEF Legal, BankLegal, RankLegal
    <3>3. Shut(b)
      <4>1. std \in Standards /\ std \in Ranked /\ Nodes = PathsTo(shape) /\ shape \in Shapes
        BY <1>8, <3>2, DeviceFacts DEF RefreshTimes
      <4>2. Rules[std].all = 1 BY <4>1, CommandFacts
      <4>3. SubSeq(path, 1, 1) = path
        <5>1. path \in Seq(0 .. 1) BY <4>1, NodeFacts
        <5> QED BY <3>2, <5>1
      <4> QED BY <3>1, <3>2, <4>2, <4>3 DEF AllClosed, Below, Shut
    <3>4. refreshed'[b] = 0 BY <1>1, <2>4
    <3>5. CheckReady("REFab", path) /\ AsLong(w, "REFab", path) BY <1>2, <3>1
    <3>6. Timed(std, wait', b, TRUE, Older(age[b]), 0)
      BY <1>1, <1>2, <1>7, <3>1, <3>2, <3>3, <3>5, TimedRefreshed
    <3>7. Shut(b)' = TRUE BY <1>4, <2>2, <3>3
    <3> QED BY <2>2, <2>3, <3>4, <3>6, <3>7 DEF Cycled
  <2>5. CASE b \notin r
    <3>1. refreshed'[b] = Older(refreshed[b]) BY <1>1, <2>5
    <3>2. Timed(std, w, b, Shut(b), age[b], refreshed[b]) BY <1>2, <1>7, TimedLonger
    <3>3. Timed(std, wait', b, Shut(b), Older(age[b]), Older(refreshed[b]))
      BY <1>1, <1>2, <1>4, <1>8, <3>2, TimedOlder
    <3> QED BY <2>2, <2>3, <3>1, <3>3 DEF Cycled
  <2> QED BY <2>4, <2>5
<1> QED BY <1>10, <1>11, <1>12

TimedInv == Typed /\ BanksShaped /\ BanksTimed

LEMMA InitTimed == Init => TimedInv
<1> SUFFICES ASSUME Init PROVE TimedInv OBVIOUS
<1>1. Typed /\ BanksShaped BY InitTyped
<1>2. Device /\ wait \in Waitings BY <1>1 DEF Typed, Waitings
<1>3. /\ "ACT" \in Cmds(std) /\ "REFab" \in Cmds(std) /\ Depth(std) \in Nat /\ 1 \in Nat
  BY <1>2, BaseCommands
<1>4. V.nRP \in 0 .. Idle /\ V.nRFC \in 0 .. Idle /\ Idle \in Nat BY TimeFacts
<1>5. V.nRP - 1 - Idle \in Int /\ V.nRP - 1 - Idle <= 0 /\ ~(Idle < V.nRFC) /\ Idle >= V.nRP
  BY <1>4
<1>6. ASSUME NEW b \in Banks PROVE Timed(std, wait, b, Shut(b), age[b], refreshed[b])
  <2>1. Shut(b) = TRUE /\ age[b] = Idle /\ refreshed[b] = Idle BY DEF Init, Closed, Shut
  <2>2. Due(wait, b, "ACT", Depth(std), V.nRP - 1 - Idle) /\ Due(wait, b, "REFab", 1, V.nRP - 1 - Idle)
    BY <1>2, <1>3, <1>5, DueAtOnce
  <2>3. Timed(std, wait, b, TRUE, Idle, Idle) BY <1>5, <2>2 DEF Timed
  <2> QED BY <2>1, <2>3
<1> QED BY <1>1, <1>6 DEF TimedInv, BanksTimed

LEMMA NextTimed ==
  ASSUME TimedInv, RefreshTimes, [Next]_vars
  PROVE  /\ TimedInv'
         /\ Next => std' = std /\ Banks' = Banks /\ \A b \in Banks : Cycled(b)
<1>1. Typed /\ BanksShaped /\ BanksTimed BY DEF TimedInv
<1>2. Typed' /\ BanksShaped' BY <1>1, NextTyped
<1>3. ASSUME UNCHANGED vars PROVE TimedInv'
  <2>1. BanksTimed' BY <1>1, <1>3 DEF vars, BanksTimed, Timed, Due, Shut, Depth, Banks
  <2> QED BY <1>2, <1>3, <2>1 DEF TimedInv
<1>4. ASSUME Next
      PROVE  TimedInv' /\ std' = std /\ Banks' = Banks /\ \A b \in Banks : Cycled(b)
  <2>1. /\ std' = std /\ Banks' = Banks
        /\ \A b \in Banks : Timed(std, wait', b, Shut(b)', age'[b], refreshed'[b]) /\ Cycled(b)
    <3>1. CASE Goes(wait, activates, bank, sync, {}, {})
      <4>1. std' = std /\ Banks' = Banks BY <1>1, <3>1, GoesFacts
      <4> QED BY <1>1, <3>1, <4>1, BankIdles
    <3>2. ASSUME NEW cmd, NEW path \in Nodes, NEW row \in Rows, NEW w, NEW h, NEW s, NEW d,
                 Goes(w, h, UpdateStates(cmd, path, row), s, IF cmd = "REFab" THEN Below(path) ELSE {}, d),
                 Issued(cmd, path, w, h, d)
          PROVE  /\ std' = std /\ Banks' = Banks
                 /\ \A b \in Banks : Timed(std, wait', b, Shut(b)', age'[b], refreshed'[b]) /\ Cycled(b)
      <4>1. std' = std /\ Banks' = Banks BY <1>1, <3>2, GoesFacts
      <4> QED BY <1>1, <3>2, <4>1, BankIssues
    <3> QED BY <1>1, <1>4, <3>1, <3>2, StepIs
  <2>2. BanksTimed'
    <3>1. \A b \in Banks' : Timed(std', wait', b, Shut(b)', age'[b], refreshed'[b]) BY <2>1
    <3> QED BY <3>1 DEF BanksTimed
  <2> QED BY <1>2, <1>4, <2>1, <2>2 DEF TimedInv
<1> QED BY <1>3, <1>4

\* RefreshesQuiet: in the DDR standards and LPDDR5 nothing opens in a rank for
\* nRFC cycles after a refresh of it, and the refresh comes nRP cycles or more
\* after the last bank was closed, whichever precharge closed it.
THEOREM RefreshesQuiet ==
  ASSUME RefreshTimes
  PROVE  Spec => []RefreshQuiet
<1>1. TimedInv /\ [Next]_vars => TimedInv' BY NextTimed
<1>2. TimedInv => RefreshQuiet BY DEF TimedInv, BanksTimed, Timed, RefreshQuiet, Shut
<1> QED BY <1>1, <1>2, InitTimed, PTL DEF Spec

\* Every organization has two banks that differ in the node of some level.
TwoBanks == \A sh \in Shapes : \E i \in DOMAIN sh : sh[i] = 2

LEMMA BothBanks ==
  ASSUME Device, TwoBanks, NEW i \in {0, 1}
  PROVE  BankNo(i) \in Banks
<1>1. shape \in Shapes /\ Nodes = PathsTo(shape) /\ Banks = { n \in PathsTo(shape) : Len(n) = Len(shape) }
  BY DeviceFacts, NodeFacts DEF Banks
<1>2. PICK o \in Organizations : shape = o[2] BY <1>1 DEF Shapes
<1>3. shape \in Seq({1, 2}) /\ Len(shape) \in Nat BY <1>2, ShapeFacts
<1>4. PICK l \in DOMAIN shape : shape[l] = 2 BY <1>1 DEF TwoBanks
<1> DEFINE n == Len(shape)
           b == [k \in 1 .. n |-> IF k = l THEN i ELSE 0]
<1>5. b \in [1 .. n -> 0 .. 1] /\ DOMAIN b = 1 .. n /\ l \in 1 .. n BY <1>3
<1>6. b \in PathsTo(shape) /\ Len(b) = n
  <2>1. \A k \in DOMAIN b : b[k] < shape[k]
    <3>1. \A k \in 1 .. n : shape[k] \in {1, 2} BY <1>3
    <3> QED BY <1>4, <1>5, <3>1
  <2>2. n \in 0 .. Len(shape) BY <1>3
  <2>3. Len(b) = n BY <1>3, <1>5
  <2> HIDE DEF b, n
  <2> QED BY <1>5, <2>1, <2>2, <2>3 DEF PathsTo
<1>7. (1 \in Range(b)) = (i = 1)
  <2>1. Range(b) = { b[k] : k \in 1 .. n } BY <1>5 DEF Range
  <2>2. b[l] = i /\ \A k \in 1 .. n : b[k] = 1 => i = 1 BY <1>5
  <2> HIDE DEF b
  <2> QED BY <1>5, <2>1, <2>2
<1> HIDE DEF b
<1>8. b \in Banks BY <1>1, <1>6
<1> QED BY <1>7, <1>8 DEF BankNo

LEMMA ProtocolStep ==
  ASSUME TimedInv, RefreshTimes, TwoBanks, Next
  PROVE  Protocol!Next
<1>1. Device BY DEF TimedInv, Typed
<1>2. std' = std /\ Banks' = Banks /\ \A b \in Banks : Cycled(b) BY NextTimed
<1>3. ASSUME NEW i \in {0, 1}
      PROVE  \/ Protocol!Rest(i) \/ Protocol!Activate(i)
             \/ Protocol!Complete(i) \/ Protocol!Precharge(i)
  <2> DEFINE b == BankNo(i)
             opens == [j \in {0, 1} |-> bank[BankNo(j)].rows]
             halves == { j \in {0, 1} : bank[BankNo(j)].state = "PreOpened" }
             ages == [j \in {0, 1} |-> age[BankNo(j)]]
  <2>1. b \in Banks /\ Cycled(b) BY <1>1, <1>2, BothBanks
  <2>2. \A j \in {0, 1} : BankNo(j)' = BankNo(j) BY <1>2 DEF BankNo
  <2>3. opens[i] = bank[b].rows /\ opens'[i] = bank'[b].rows BY <2>2
  <2>4. ages[i] = age[b] /\ ages'[i] = age'[b] BY <2>2
  <2>5. Protocol!Older(i) = Older(age[b]) BY <2>4 DEF Protocol!Older, Older
  <2>6. /\ i \in halves <=> bank[b].state = "PreOpened"
        /\ i \in halves' <=> bank'[b].state = "PreOpened"
    BY <2>2
  <2> HIDE DEF b, opens, halves, ages
  <2>7. CASE Rests(b)
    BY <2>3, <2>4, <2>5, <2>6, <2>7 DEF Rests, Protocol!Rest, opens, halves, ages
  <2>8. CASE Activated(b)
    BY <2>3, <2>4, <2>5, <2>8 DEF Activated, Protocol!Activate, opens, ages
  <2>9. CASE Completed(b)
    BY <2>3, <2>4, <2>5, <2>6, <2>9 DEF Completed, Protocol!Complete, opens, halves, ages
  <2>10. CASE Precharges(b)
    <3>1. bank'[b].rows = {} /\ bank'[b].state # "PreOpened" BY <2>10 DEF Precharges, Closed
    <3> QED BY <2>3, <2>4, <2>5, <2>6, <2>10, <3>1
            DEF Precharges, Protocol!Precharge, opens, halves, ages
  <2> QED BY <2>1, <2>7, <2>8, <2>9, <2>10 DEF Cycled
<1> QED BY <1>3 DEF Protocol!Next

\* RowCyclesOfAll: in all nine standards, and whatever is asked of the device in
\* whatever order, each bank goes through the row cycle of BankProtocol: nRP or
\* more cycles closed before it opens and nRAS or more open before it closes,
\* whichever of PRE and PREA closes it.  A bank never has two open rows but one
\* of LPDDR5 after its ACT-2, which may name another row than its ACT-1.
THEOREM RowCyclesOfAll ==
  ASSUME RefreshTimes, TwoBanks
  PROVE  Spec => RowCycle
<1>1. Init => Protocol!Init
  <2> SUFFICES ASSUME Init PROVE Protocol!Init OBVIOUS
  <2>1. Device BY InitTyped DEF Typed
  <2>2. \A i \in {0, 1} : BankNo(i) \in Banks BY <2>1, BothBanks
  <2>3. \A b \in Banks : bank[b].rows = {} /\ bank[b].state # "PreOpened" /\ age[b] = Idle
    BY DEF Init, Closed
  <2> HIDE DEF Init
  <2> QED BY <2>2, <2>3 DEF Protocol!Init
<1>2. TimedInv /\ [Next]_vars => [Protocol!Next]_(Protocol!vars)
  <2> SUFFICES ASSUME TimedInv, [Next]_vars PROVE [Protocol!Next]_(Protocol!vars) OBVIOUS
  <2>1. CASE UNCHANGED vars
    BY <2>1 DEF vars, Protocol!vars, BankNo, Banks
  <2>2. CASE Next BY <2>2, ProtocolStep
  <2> QED BY <2>1, <2>2
<1>3. TimedInv /\ [Next]_vars => TimedInv' BY NextTimed
<1> QED BY <1>1, <1>2, <1>3, InitTimed, PTL DEF Spec, RowCycle, Protocol!Spec

----------------------------------------------------------------------------
(* The activation window.                                                  *)

\* A set of ages a cycle later is as large.
LEMMA OneUp ==
  ASSUME NEW S \in SUBSET Int, IsFiniteSet(S), NEW T, T = { a + 1 : a \in S }
  PROVE  Cardinality(T) = Cardinality(S)
<1> DEFINE f == [a \in S |-> a + 1]
<1>1. f \in [S -> T] OBVIOUS
<1>2. \A a, b \in DOMAIN f : f[a] = f[b] => a = b OBVIOUS
<1>3. \A t \in T : \E a \in S : f[a] = t OBVIOUS
<1> HIDE DEF f
<1>4. f \in Bijection(S, T) BY <1>1, <1>2, <1>3 DEF Bijection, Injection, Surjection, IsInjective
<1>5. ExistsBijection(S, T) BY <1>4 DEF ExistsBijection
<1> QED BY <1>5, FS_Bijection

LEMMA Oldest ==
  ASSUME NEW N \in Nat, NEW S \in SUBSET (0 .. N), S # {}
  PROVE  \E m \in S : \A a \in S : a <= m
<1> DEFINE above == { m \in Nat : \A a \in S : a <= m }
           least == Min(above)
<1>1. above \in SUBSET Nat /\ N \in above OBVIOUS
<1>2. least \in above /\ \A m \in above : least <= m
  <2> HIDE DEF above
  <2> QED BY <1>1, LeastOf
<1> HIDE DEF least
<1>3. least \in Nat /\ \A a \in S : a <= least BY <1>2
<1>4. least \in S
  <2> SUFFICES ASSUME least \notin S PROVE FALSE OBVIOUS
  <2>1. \A a \in S : a \in Nat /\ a <= least /\ a # least BY <1>3
  <2>2. least - 1 \in Nat /\ \A a \in S : a <= least - 1
    <3>1. PICK a \in S : TRUE OBVIOUS
    <3> QED BY <1>3, <2>1, <3>1
  <2>3. least - 1 \in above BY <2>2
  <2> HIDE DEF above
  <2> QED BY <1>2, <1>3, <2>3
<1> QED BY <1>3, <1>4

Younger(S, a) == { o \in S : o < a }
SameAge(S, T) == \A a \in T : Cardinality(Younger(T, a)) = Cardinality(Younger(S, a - 1))

\* A window whose ages go up by one and end at N.
LEMMA WindowShift ==
  ASSUME NEW N \in Nat, NEW S \in SUBSET (0 .. N), NEW T, T = { a \in 1 .. N : a - 1 \in S }
  PROVE  /\ Cardinality(T) = Cardinality({ a \in S : a < N })
         /\ SameAge(S, T)
<1>1. IsFiniteSet(S)
  <2>1. 0 \in Int /\ N \in Int OBVIOUS
  <2>2. IsFiniteSet(0 .. N) BY <2>1, FS_Interval
  <2> QED BY <2>2, FS_Subset
<1>2. \A a \in S : a \in Int /\ 0 <= a OBVIOUS
<1>3. Cardinality(T) = Cardinality({ a \in S : a < N })
  <2> DEFINE U == { a \in S : a < N }
  <2>1. U \in SUBSET Int /\ IsFiniteSet(U)
    <3>1. IsFiniteSet(U) BY <1>1, FS_Subset
    <3> QED BY <1>2, <3>1
  <2>2. T = { a + 1 : a \in U } BY <1>2
  <2> HIDE DEF U
  <2>3. Cardinality(T) = Cardinality(U) BY <2>1, <2>2, OneUp
  <2> QED BY <2>3 DEF U
<1>4. ASSUME NEW a \in T PROVE Cardinality(Younger(T, a)) = Cardinality(Younger(S, a - 1))
  <2> DEFINE U == Younger(S, a - 1)
             W == Younger(T, a)
  <2>1. U \in SUBSET Int /\ IsFiniteSet(U)
    <3>1. U \in SUBSET S BY DEF Younger
    <3>2. IsFiniteSet(U) BY <1>1, <3>1, FS_Subset
    <3> QED BY <1>2, <3>1, <3>2
  <2>2. a \in Int /\ a <= N OBVIOUS
  <2>3. W = { o + 1 : o \in U } BY <1>2, <2>2 DEF Younger
  <2> HIDE DEF U, W
  <2>4. Cardinality(W) = Cardinality(U) BY <2>1, <2>3, OneUp
  <2> QED BY <2>4 DEF U, W
<1> QED BY <1>3, <1>4 DEF SameAge

\* What an activation that the window admits leaves in it.
LEMMA WindowAdmits ==
  ASSUME NEW N \in Nat, NEW S \in SUBSET (1 .. N), Cardinality(S) <= 4,
         \A a \in S : Cardinality(Younger(S, a)) = 3 => N <= a
  PROVE  Cardinality({ a \in S \cup {0} : a < N }) <= 4
<1>1. IsFiniteSet(S)
  <2>1. 1 \in Int /\ N \in Int OBVIOUS
  <2>2. IsFiniteSet(1 .. N) BY <2>1, FS_Interval
  <2> QED BY <2>2, FS_Subset
<1>2. Cardinality(S) \in Nat BY <1>1, FS_CardinalityType
<1> DEFINE left == { a \in S \cup {0} : a < N }
<1>3. CASE Cardinality(S) <= 3
  <2>1. /\ IsFiniteSet(S \cup {0})
        /\ Cardinality(S \cup {0}) = IF 0 \in S THEN Cardinality(S) ELSE Cardinality(S) + 1
    BY <1>1, FS_AddElement
  <2>2. left \in SUBSET (S \cup {0}) OBVIOUS
  <2>3. Cardinality(left) <= Cardinality(S \cup {0}) /\ Cardinality(left) \in Nat
    BY <2>1, <2>2, FS_Subset, FS_CardinalityType
  <2> QED BY <1>2, <1>3, <2>1, <2>3
<1>4. CASE Cardinality(S) = 4
  <2>1. S # {} BY <1>1, <1>4, FS_EmptySet
  <2>2. S \in SUBSET (0 .. N) OBVIOUS
  <2>3. PICK m \in S : \A a \in S : a <= m BY <2>1, <2>2, Oldest
  <2>4. Younger(S, m) = S \ {m}
    <3>1. \A a \in S : a < m <=> a # m BY <2>3
    <3> QED BY <3>1 DEF Younger
  <2>5. IsFiniteSet(S \ {m}) /\ Cardinality(S \ {m}) = 3 BY <1>1, <1>4, FS_RemoveElement
  <2>6. m = N BY <2>3, <2>4, <2>5
  <2> DEFINE kept == (S \ {m}) \cup {0}
  <2>7. /\ IsFiniteSet(kept)
        /\ Cardinality(kept) = IF 0 \in S \ {m} THEN 3 ELSE 3 + 1
    BY <2>5, FS_AddElement
  <2>8. left \in SUBSET kept BY <2>6
  <2> HIDE DEF kept
  <2>9. Cardinality(left) <= Cardinality(kept) /\ Cardinality(left) \in Nat
    BY <2>7, <2>8, FS_Subset, FS_CardinalityType
  <2> QED BY <2>7, <2>9
<1> QED BY <1>2, <1>3, <1>4

Windowed(acts, n, t) ==
  /\ Len(n) # WindowAt[std] => acts = {}
  /\ Cardinality(acts) <= 4
  /\ \A a \in acts : Cardinality(Younger(acts, a)) = 3 => V.nFAW - a <= t

Windows == \A n \in Nodes : Windowed(activates[n], n, wait[n]["ACT"])

LEMMA WindowGoes ==
  ASSUME Typed, NEW w, NEW h, NEW k, NEW s, NEW r, NEW d, Goes(w, h, k, s, r, d), NEW n \in Nodes,
         Len(n) # WindowAt[std] => h[n] = {},
         Cardinality({ a \in h[n] : a < V.nFAW }) <= 4,
         \A a \in h[n] : Cardinality(Younger(h[n], a)) = 3 => V.nFAW - a <= w[n]["ACT"]
  PROVE  Windowed(activates'[n], n, wait'[n]["ACT"])
<1>1. /\ activates'[n] = { a \in 1 .. V.nFAW : a - 1 \in h[n] }
      /\ h[n] \in SUBSET (0 .. V.nFAW)
  <2>1. h \in Histories BY DEF Goes
  <2> QED BY <2>1, GoesFacts DEF Histories
<1>2. V.nFAW \in Nat BY TimingValues DEF TimingNames
<1> DEFINE T == activates'[n]
           S == h[n]
<1>3. /\ Cardinality(T) = Cardinality({ a \in S : a < V.nFAW })
      /\ \A a \in T : Cardinality(Younger(T, a)) = Cardinality(Younger(S, a - 1))
  <2> DEFINE N == V.nFAW
  <2>1. N \in Nat /\ S \in SUBSET (0 .. N) /\ T = { a \in 1 .. N : a - 1 \in S } BY <1>1, <1>2
  <2> HIDE DEF N, S, T
  <2>2. Cardinality(T) = Cardinality({ a \in S : a < N }) BY <2>1, WindowShift
  <2>3. SameAge(S, T) BY <2>1, WindowShift
  <2> QED BY <2>2, <2>3 DEF N, SameAge
<1>4. wait'[n]["ACT"] = Larger(0, w[n]["ACT"] - 1) /\ w[n]["ACT"] \in Nat
  <2>1. "ACT" \in Cmds(std) BY BaseCommands DEF Typed
  <2>2. w \in Waitings /\ IsNext(w, wait') BY GoesFacts DEF Goes
  <2> QED BY <2>1, <2>2 DEF Waitings, IsNext
<1>5. ASSUME NEW a \in T, Cardinality(Younger(T, a)) = 3 PROVE V.nFAW - a <= wait'[n]["ACT"]
  <2>1. a - 1 \in S /\ a \in Int BY <1>1
  <2>2. Cardinality(Younger(S, a - 1)) = 3 BY <1>3, <1>5
  <2>3. V.nFAW - (a - 1) <= w[n]["ACT"] BY <2>1, <2>2
  <2> QED BY <1>2, <1>4, <2>1, <2>3 DEF Larger
<1>6. Len(n) # WindowAt[std] => T = {} BY <1>1
<1> QED BY <1>3, <1>5, <1>6 DEF Windowed

LEMMA WindowsNext ==
  ASSUME Typed, BanksShaped, Windows, [Next]_vars
  PROVE  Windows'
<1>1. CASE UNCHANGED vars
  <2>1. Windows' BY <1>1 DEF vars, Windows, Windowed, Nodes
  <2> QED BY <2>1
<1>2. ASSUME NEW w, NEW h, NEW k, NEW s, NEW r, NEW d, Goes(w, h, k, s, r, d),
             \A n \in Nodes : Windowed(activates'[n], n, wait'[n]["ACT"])
      PROVE  Windows'
  <2>1. Nodes' = Nodes /\ std' = std BY <1>2, GoesFacts
  <2> QED BY <1>2, <2>1 DEF Windows, Windowed
<1>3. V.nFAW \in Nat BY TimingValues DEF TimingNames
<1>4. "ACT" \in Cmds(std) BY BaseCommands DEF Typed
\* Without an activation of its bank the window of a node only gets older.
<1>5. ASSUME NEW w, NEW h, NEW k, NEW s, NEW r, NEW d, Goes(w, h, k, s, r, d), NEW n \in Nodes,
             h[n] = activates[n]
      PROVE  Windowed(activates'[n], n, wait'[n]["ACT"])
  <2>1. Windowed(activates[n], n, wait[n]["ACT"]) BY DEF Windows
  <2> DEFINE S == activates[n]
  <2>2. S \in SUBSET (1 .. V.nFAW) BY DEF Typed
  <2>3. Cardinality({ a \in S : a < V.nFAW }) <= 4
    <3>1. IsFiniteSet(S)
      <4>1. 1 \in Int /\ V.nFAW \in Int BY <1>3
      <4>2. IsFiniteSet(1 .. V.nFAW) BY <4>1, FS_Interval
      <4> QED BY <2>2, <4>2, FS_Subset
    <3> DEFINE U == { a \in S : a < V.nFAW }
    <3>2. U \in SUBSET S OBVIOUS
    <3> HIDE DEF U
    <3>3. Cardinality(U) <= Cardinality(S) /\ Cardinality(U) \in Nat /\ Cardinality(S) \in Nat
      BY <3>1, <3>2, FS_Subset, FS_CardinalityType
    <3>4. Cardinality(S) <= 4 BY <2>1 DEF Windowed
    <3>5. Cardinality(U) <= 4 BY <3>3, <3>4
    <3> QED BY <3>5 DEF U
  <2>4. ASSUME NEW a \in S, Cardinality(Younger(S, a)) = 3 PROVE V.nFAW - a <= w[n]["ACT"]
    <3>1. V.nFAW - a <= wait[n]["ACT"] BY <2>1, <2>4 DEF Windowed
    <3>2. wait[n]["ACT"] <= w[n]["ACT"] BY <1>4, <1>5 DEF Goes
    <3>3. wait[n]["ACT"] \in Nat /\ w[n]["ACT"] \in Nat BY <1>4, <1>5 DEF Typed, Goes, Waitings
    <3>4. a \in Int BY <2>2
    <3> QED BY <1>3, <3>1, <3>2, <3>3, <3>4
  <2>5. Len(n) # WindowAt[std] => S = {} BY <2>1 DEF Windowed
  <2> HIDE DEF S
  <2>6. h[n] = S BY <1>5 DEF S
  <2> QED BY <1>5, <2>3, <2>4, <2>5, <2>6, WindowGoes
<1>6. CASE Goes(wait, activates, bank, sync, {}, {}) BY <1>2, <1>5, <1>6
<1>7. ASSUME NEW cmd, NEW path \in Nodes, NEW row \in Rows, NEW w, NEW h, NEW s, NEW d, NEW k, NEW r,
             Goes(w, h, k, s, r, d), Issued(cmd, path, w, h, d)
      PROVE  Windows'
  <2>1. h = UpdateHistory(cmd, path) BY <1>7 DEF Issued
  <2>2. std \in Standards /\ WindowLevel[std] = WindowAt[std] /\ WindowAt[std] \in 0 .. Depth(std)
    BY DeviceFacts, WindowIs DEF Typed
  <2>3. ASSUME NEW n \in Nodes, cmd = "ACT", IsPrefix(n, path), Len(n) = WindowAt[std]
        PROVE  Windowed(activates'[n], n, wait'[n]["ACT"])
    <3> DEFINE S == activates[n]
    <3>1. h[n] = S \cup {0} BY <2>1, <2>2, <2>3 DEF UpdateHistory
    <3>2. S \in SUBSET (1 .. V.nFAW) BY DEF Typed
    <3>3. wait[n]["ACT"] = 0
      <4>1. CheckReady("ACT", path) /\ path \in Nodes BY <1>7, <2>3 DEF Issued
      <4>2. Commands[std].scope["ACT"] = Depth(std) BY BaseCommands DEF Typed
      <4>3. n = SubSeq(path, 1, Len(n)) /\ Len(n) <= Len(path) /\ Len(n) \in 0 .. Depth(std)
        BY <2>2, <2>3, DeviceFacts, PrefixIs DEF Typed
      <4>4. Len(path) \in Nat BY DeviceFacts DEF Typed
      <4>5. Len(n) \in 0 .. IF Depth(std) < Len(path) THEN Depth(std) ELSE Len(path) BY <4>3, <4>4
      <4> QED BY <4>1, <4>2, <4>3, <4>5 DEF CheckReady
    <3>4. Cardinality(S) <= 4 /\ \A a \in S : Cardinality(Younger(S, a)) = 3 => V.nFAW <= a
      <4>1. Windowed(S, n, 0) BY <3>3 DEF Windows
      <4>2. \A a \in S : a \in Int BY <3>2
      <4> QED BY <1>3, <4>1, <4>2 DEF Windowed
    <3>5. Cardinality({ a \in h[n] : a < V.nFAW }) <= 4
      <4> HIDE DEF S
      <4>1. Cardinality({ a \in S \cup {0} : a < V.nFAW }) <= 4 BY <1>3, <3>2, <3>4, WindowAdmits
      <4> QED BY <3>1, <4>1
    <3>6. ASSUME NEW a \in h[n], Cardinality(Younger(h[n], a)) = 3 PROVE V.nFAW - a <= w[n]["ACT"]
      <4>1. h[n] \in SUBSET (0 .. V.nFAW)
        <5>1. h \in Histories BY <1>7 DEF Goes
        <5> QED BY <5>1 DEF Histories
      <4>2. Cardinality({ o \in h[n] : o < a }) = 3 BY <3>6 DEF Younger
      <4>3. WindowWait(h[n]) = V.nFAW - a BY <3>6, <4>1, <4>2, WindowWaitFacts DEF Typed
      <4>4. WindowWait(h[n]) <= w[n]["ACT"] BY <1>7, <2>3 DEF Issued
      <4> QED BY <4>3, <4>4
    <3> QED BY <1>7, <2>3, <3>5, <3>6, WindowGoes
  <2>4. ASSUME NEW n \in Nodes, ~(cmd = "ACT" /\ IsPrefix(n, path) /\ Len(n) = WindowAt[std])
        PROVE  Windowed(activates'[n], n, wait'[n]["ACT"])
    <3>1. h[n] = activates[n] BY <2>1, <2>2, <2>4 DEF UpdateHistory
    <3> QED BY <1>5, <1>7, <3>1
  <2>5. \A n \in Nodes : Windowed(activates'[n], n, wait'[n]["ACT"]) BY <2>3, <2>4
  <2> QED BY <1>2, <1>7, <2>5
<1>8. CASE Next BY <1>6, <1>7, <1>8, StepIs
<1> QED BY <1>1, <1>8

\* FourActivatesOfAll: in all nine standards, no rank (or pseudo channel, or
\* channel) opens more than four rows in nFAW cycles, although the device keeps
\* a wait for the fourth last activation only and whatever other waits run.
THEOREM FourActivatesOfAll == Spec => []FourActivates
<1> DEFINE Inv == Typed /\ BanksShaped /\ Windows
<1>1. Init => Inv
  <2> SUFFICES ASSUME Init PROVE Inv OBVIOUS
  <2>1. Cardinality({}) <= 4 BY FS_EmptySet
  <2>2. \A n \in Nodes : activates[n] = {} BY DEF Init
  <2>3. Windows BY <2>1, <2>2 DEF Windows, Windowed
  <2> QED BY <2>3, InitTyped
<1>2. Inv /\ [Next]_vars => Inv' BY NextTyped, WindowsNext
<1>3. Inv => FourActivates BY DEF Windows, Windowed, FourActivates
<1> QED BY <1>1, <1>2, <1>3, PTL DEF Spec

----------------------------------------------------------------------------
(* The data bus.                                                           *)

BurstType == [at : Int, read : BOOLEAN, path : Banks]

\* The commands that would start a burst before the end of u's are not due.
BurstDue(w, u) ==
  /\ Due(w, u.path, "RD", RankLevel[std], u.at + V.nBL - V.nCL)
  /\ Due(w, u.path, "WR", RankLevel[std], u.at + V.nBL - V.nCWL)

BurstsApart(B) == \A u, v \in B : u # v /\ RankOf(u.path) = RankOf(v.path) => ~Overlap(u, v)

LEMMA BusValues ==
  /\ V.nCL \in Nat /\ V.nBL \in Nat /\ V.nCWL \in Nat
BY TimingValues DEF TimingNames

LEMMA BusFacts ==
  ASSUME Device, BurstTimes
  PROVE  /\ BurstAsks(Timing[std], RankLevel[std])
         /\ RankLevel[std] \in 0 .. 2 /\ RankLevel[std] \in 0 .. Depth(std) /\ Depth(std) \in Nat
         /\ RankLevel[std] <= Depth(std)
<1>1. std \in Standards /\ Depth(std) \in 2 .. 4 BY DeviceFacts
<1>2. \E o \in Organizations : o[1] = std BY DEF Device
<1>3. BurstAsks(Timing[std], RankLevel[std]) /\ RankLevel[std] \in 0 .. 2 BY <1>1, <1>2, BurstTable
<1> QED BY <1>1, <1>3

\* A cycle later the bursts are one cycle nearer, and no closer to each other.
LEMMA BurstsShift ==
  ASSUME NEW B \in SUBSET BurstType, BurstsApart(B), NEW C,
         C = { [u EXCEPT !.at = u.at - 1] : u \in B }
  PROVE  BurstsApart(C)
<1> SUFFICES ASSUME NEW x \in C, NEW y \in C, x # y, RankOf(x.path) = RankOf(y.path), Overlap(x, y)
             PROVE  FALSE
  BY DEF BurstsApart
<1>1. PICK u \in B : x = [u EXCEPT !.at = u.at - 1] OBVIOUS
<1>2. PICK v \in B : y = [v EXCEPT !.at = v.at - 1] OBVIOUS
<1>3. u \in BurstType /\ v \in BurstType OBVIOUS
<1>4. x.path = u.path /\ x.at = u.at - 1 /\ u.at \in Int BY <1>1, <1>3 DEF BurstType
<1>5. y.path = v.path /\ y.at = v.at - 1 /\ v.at \in Int BY <1>2, <1>3 DEF BurstType
<1>6. u # v BY <1>1, <1>2
<1>7. RankOf(u.path) = RankOf(v.path) BY <1>4, <1>5
<1>8. V.nBL \in Nat BY BusValues
<1>9. Overlap(u, v) BY <1>4, <1>5, <1>8 DEF Overlap
<1> QED BY <1>6, <1>7, <1>9 DEF BurstsApart

LEMMA BurstDueNext ==
  ASSUME Device, BurstTimes, NEW w \in Waitings, NEW x \in Waitings, IsNext(w, x),
         NEW u \in BurstType, BurstDue(w, u), NEW v, v = [u EXCEPT !.at = u.at - 1]
  PROVE  BurstDue(x, v)
<1>1. v.path = u.path /\ v.at = u.at - 1 /\ u.at \in Int /\ u.path \in Banks BY DEF BurstType
<1>2. "RD" \in Cmds(std) /\ "WR" \in Cmds(std) BY BaseCommands
<1>3. RankLevel[std] \in 0 .. Depth(std) BY BusFacts
<1> DEFINE r == u.at + V.nBL - V.nCL
           t == u.at + V.nBL - V.nCWL
<1>4. r \in Int /\ t \in Int /\ v.at + V.nBL - V.nCL = r - 1 /\ v.at + V.nBL - V.nCWL = t - 1
  BY <1>1, BusValues
<1>5. Due(w, u.path, "RD", RankLevel[std], r) /\ Due(w, u.path, "WR", RankLevel[std], t) BY DEF BurstDue
<1> HIDE DEF r, t
<1>6. w \in [Nodes -> [Cmds(std) -> Nat]]
      /\ x = [n \in Nodes |-> [d \in Cmds(std) |-> Larger(0, w[n][d] - 1)]]
  BY DEF Waitings, IsNext
<1>7. Due(x, u.path, "RD", RankLevel[std], r - 1) BY <1>1, <1>2, <1>3, <1>4, <1>5, <1>6, DueNext
<1>8. Due(x, u.path, "WR", RankLevel[std], t - 1) BY <1>1, <1>2, <1>3, <1>4, <1>5, <1>6, DueNext
<1> QED BY <1>1, <1>4, <1>7, <1>8 DEF BurstDue

LEMMA BurstDueLonger ==
  ASSUME Typed, BurstTimes, NEW w \in Waitings, NoShorter(w), NEW u \in BurstType, BurstDue(wait, u)
  PROVE  BurstDue(w, u)
<1>1. u.at \in Int /\ u.path \in Banks BY DEF BurstType
<1>2. "RD" \in Cmds(std) /\ "WR" \in Cmds(std) /\ RankLevel[std] \in 0 .. Depth(std)
  BY BaseCommands, BusFacts DEF Typed
<1> DEFINE r == u.at + V.nBL - V.nCL
           t == u.at + V.nBL - V.nCWL
<1>3. r \in Int /\ t \in Int BY <1>1, BusValues
<1>4. Due(wait, u.path, "RD", RankLevel[std], r) /\ Due(wait, u.path, "WR", RankLevel[std], t) BY DEF BurstDue
<1> HIDE DEF r, t
<1>5. w \in [Nodes -> [Cmds(std) -> Nat]] /\ \A n \in Nodes : \A d \in Cmds(std) : wait[n][d] <= w[n][d]
  BY DEF Waitings, NoShorter
<1>6. Due(w, u.path, "RD", RankLevel[std], r) BY <1>1, <1>2, <1>3, <1>4, <1>5, DueLonger
<1>7. Due(w, u.path, "WR", RankLevel[std], t) BY <1>1, <1>2, <1>3, <1>4, <1>5, DueLonger
<1> QED BY <1>6, <1>7 DEF BurstDue, r, t

\* A read or write that the device takes starts its burst after the end of
\* those of its rank, and keeps others from starting before its own end.
LEMMA NewBurst ==
  ASSUME Typed, BurstTimes, NEW cmd \in {"RD", "WR"}, NEW path \in Banks, CheckReady(cmd, path),
         NEW w \in Waitings, AsLong(w, cmd, path),
         NEW new \in BurstType, new.path = path, new.at = (IF cmd = "RD" THEN V.nCL ELSE V.nCWL)
  PROVE  /\ BurstDue(w, new)
         /\ \A u \in BurstType : BurstDue(wait, u) /\ RankOf(u.path) = RankOf(path) =>
              u.at + V.nBL <= new.at
<1> DEFINE top == RankLevel[std]
           T == Timing[std]
<1>1. Device BY DEF Typed
<1>2. /\ BurstAsks(T, top) /\ top \in Nat /\ top \in 0 .. Depth(std) /\ top <= Depth(std)
      /\ Depth(std) \in Nat
  BY <1>1, BusFacts
<1>3. "RD" \in Cmds(std) /\ "WR" \in Cmds(std) /\ cmd \in Cmds(std)
      /\ Commands[std].scope[cmd] = Depth(std)
  BY <1>1, BaseCommands
<1>4. /\ \A b \in Banks : b \in Nodes /\ Len(b) = Depth(std) /\ b \in PathsTo(shape)
      /\ shape \in Shapes
  BY <1>1, DeviceFacts
<1>5. V.nCL \in Nat /\ V.nBL \in Nat /\ V.nCWL \in Nat BY BusValues
<1>6. w \in [Nodes -> [Cmds(std) -> Nat]]
      /\ \A n \in Nodes : \A d \in Cmds(std) :
           IsPrefix(n, path) => Latency[std][Len(n)][FALSE][cmd][d] <= w[n][d]
  BY DEF Waitings, AsLong
<1> DEFINE r == new.at + V.nBL - V.nCL
           t == new.at + V.nBL - V.nCWL
<1>7. r \in Int /\ t \in Int /\ Asks(T, top, cmd, "RD", r) /\ Asks(T, top, cmd, "WR", t)
  <2>1. CASE cmd = "RD"
    <3>1. r = V.nBL /\ t = V.nCL + V.nBL - V.nCWL BY <1>5, <2>1
    <3> QED BY <1>2, <1>5, <2>1, <3>1 DEF BurstAsks
  <2>2. CASE cmd = "WR"
    <3>1. t = V.nBL /\ r = V.nCWL + V.nBL - V.nCL BY <1>5, <2>2
    <3> QED BY <1>2, <1>5, <2>2, <3>1 DEF BurstAsks
  <2> QED BY <2>1, <2>2
<1> HIDE DEF r, t, top, T
<1>8. Share(path, path, top) /\ top <= Len(path) BY <1>2, <1>4 DEF Share
<1>9. Asks(Timing[std], top, cmd, "RD", r) /\ Asks(Timing[std], top, cmd, "WR", t) BY <1>7 DEF T
<1>10. path \in Nodes BY <1>4
<1>11. Due(w, path, "RD", top, r)
  BY <1>2, <1>3, <1>6, <1>7, <1>8, <1>9, <1>10, AskedIsDue
<1>12. Due(w, path, "WR", top, t)
  BY <1>2, <1>3, <1>6, <1>7, <1>8, <1>9, <1>10, AskedIsDue
<1>13. BurstDue(w, new) BY <1>11, <1>12 DEF BurstDue, r, t, top
<1>14. ASSUME NEW u \in BurstType, BurstDue(wait, u), RankOf(u.path) = RankOf(path)
       PROVE  u.at + V.nBL <= new.at
  <2>1. u.path \in Banks /\ u.at \in Int BY DEF BurstType
  <2>2. SubSeq(u.path, 1, top) = SubSeq(path, 1, top) BY <1>14 DEF RankOf, top
  <2>3. Share(u.path, path, top) BY <1>2, <1>4, <2>1, <2>2, SharedAbove
  <2> DEFINE late == u.at + V.nBL - (IF cmd = "RD" THEN V.nCL ELSE V.nCWL)
  <2>4. late \in Int /\ Due(wait, u.path, cmd, top, late)
    <3>1. CASE cmd = "RD" BY <1>5, <1>14, <2>1, <3>1 DEF BurstDue, top
    <3>2. CASE cmd = "WR" BY <1>5, <1>14, <2>1, <3>2 DEF BurstDue, top
    <3> QED BY <3>1, <3>2
  <2> HIDE DEF late
  <2>5. top <= Commands[std].scope[cmd] /\ Commands[std].scope[cmd] \in Nat BY <1>2, <1>3
  <2>6. late <= 0 BY <1>2, <1>3, <1>8, <1>10, <2>1, <2>3, <2>4, <2>5, ReadyNotDue
  <2> QED BY <1>5, <2>1, <2>6 DEF late
<1> QED BY <1>13, <1>14

BusInv == OneBurst /\ \A u \in bursts : BurstDue(wait, u)

\* What a step needs: the bursts it leaves, with the new one, are apart and due.
LEMMA BusGoes ==
  ASSUME Typed, BurstTimes, BusInv, NEW w, NEW h, NEW k, NEW s, NEW r, NEW d, Goes(w, h, k, s, r, d),
         BurstsApart(bursts \cup d), \A u \in d : BurstDue(w, u)
  PROVE  BusInv'
<1> DEFINE B == { v \in bursts : v.at + V.nBL > 1 } \cup d
<1>1. /\ bursts' = { [u EXCEPT !.at = u.at - 1] : u \in B }
      /\ std' = std /\ wait' \in Waitings /\ IsNext(w, wait') /\ w \in Waitings /\ NoShorter(w)
      /\ Banks' = Banks
  BY GoesFacts DEF Goes, NoShorter
<1>2. bursts \in SUBSET BurstType /\ d \in SUBSET BurstType BY DEF Typed, Goes, BurstType
<1>3. B \in SUBSET (bursts \cup d) /\ B \in SUBSET BurstType BY <1>2
<1> HIDE DEF B
<1>4. BurstsApart(B) BY <1>3 DEF BurstsApart
<1>5. BurstsApart(bursts') BY <1>1, <1>3, <1>4, BurstsShift
<1>6. OneBurst'
  <2>1. \A u, v \in bursts' : u # v /\ RankOf(u.path) = RankOf(v.path) => ~Overlap(u, v)
    BY <1>5 DEF BurstsApart
  <2> QED BY <1>1, <2>1 DEF OneBurst, RankOf, Overlap
<1>7. ASSUME NEW v \in bursts' PROVE BurstDue(wait', v)
  <2>1. PICK u \in B : v = [u EXCEPT !.at = u.at - 1] BY <1>1
  <2>2. u \in BurstType BY <1>3
  <2>3. BurstDue(w, u)
    <3>1. u \in bursts \/ u \in d BY <1>3
    <3>2. CASE u \in bursts
      <4>1. BurstDue(wait, u) BY <3>2 DEF BusInv
      <4> QED BY <1>1, <2>2, <4>1, BurstDueLonger
    <3> QED BY <3>1, <3>2
  <2>4. Device BY DEF Typed
  <2> QED BY <1>1, <2>1, <2>2, <2>3, <2>4, BurstDueNext
<1>8. \A v \in bursts' : BurstDue(wait, v)'
  BY <1>1, <1>7 DEF BurstDue, Due
<1> QED BY <1>6, <1>8 DEF BusInv

LEMMA BusNext ==
  ASSUME Typed, BanksShaped, BurstTimes, BusInv, [Next]_vars
  PROVE  BusInv'
<1>1. CASE UNCHANGED vars
  BY <1>1 DEF vars, BusInv, OneBurst, BurstDue, Due, RankOf, Overlap
<1>2. BurstsApart(bursts) /\ \A u \in bursts : BurstDue(wait, u) BY DEF BusInv, OneBurst, BurstsApart
<1>3. CASE Goes(wait, activates, bank, sync, {}, {})
  <2>1. BurstsApart(bursts \cup {}) /\ \A u \in {} : BurstDue(wait, u) BY <1>2
  <2> QED BY <1>3, <2>1, BusGoes
<1>4. ASSUME NEW cmd, NEW path \in Nodes, NEW w, NEW h, NEW k, NEW s, NEW r, NEW d,
             Goes(w, h, k, s, r, d), Issued(cmd, path, w, h, d)
      PROVE  BusInv'
  <2>1. /\ Legal(cmd, path) /\ CheckReady(cmd, path) /\ d = Burst(cmd, path)
        /\ w \in Waitings /\ AsLong(w, cmd, path) /\ d \subseteq BurstType
        /\ bursts \subseteq BurstType
    BY <1>4 DEF Goes, Issued, AsLong, BurstType, Typed
  <2>2. CASE cmd \notin {"RD", "WR"}
    <3>1. cmd \notin Reads /\ cmd \notin Writes
      BY <2>1, <2>2 DEF Legal, BankLegal, RankLegal, Reads, Writes
    <3>2. d = {} BY <2>1, <3>1 DEF Burst
    <3>3. BurstsApart(bursts \cup d) /\ \A u \in d : BurstDue(w, u) BY <1>2, <3>2
    <3> QED BY <1>4, <3>3, BusGoes
  <2>3. CASE cmd \in {"RD", "WR"}
    <3> DEFINE new == [at |-> IF cmd = "RD" THEN V.nCL ELSE V.nCWL, read |-> cmd = "RD", path |-> path]
    <3>1. path \in Banks BY <2>1, <2>3 DEF Legal, RankLegal
    <3>2. d = {new}
      <4>1. CASE cmd = "RD" BY <2>1, <4>1 DEF Burst, Reads, Writes
      <4>2. CASE cmd = "WR" BY <2>1, <4>2 DEF Burst, Reads, Writes
      <4> QED BY <2>3, <4>1, <4>2
    <3>3. new.path = path /\ new.at = IF cmd = "RD" THEN V.nCL ELSE V.nCWL OBVIOUS
    <3> HIDE DEF new
    <3>4. new \in BurstType BY <2>1, <3>2
    <3>5. /\ BurstDue(w, new)
          /\ \A u \in BurstType : BurstDue(wait, u) /\ RankOf(u.path) = RankOf(path) =>
               u.at + V.nBL <= new.at
      BY <2>1, <2>3, <3>1, <3>3, <3>4, NewBurst
    <3>6. ASSUME NEW u \in bursts, RankOf(u.path) = RankOf(path)
          PROVE  ~Overlap(u, new) /\ ~Overlap(new, u)
      <4>1. u.at + V.nBL <= new.at BY <1>2, <2>1, <3>5, <3>6
      <4>2. u.at \in Int /\ new.at \in Int BY <2>1, <3>4 DEF BurstType
      <4> QED BY <4>1, <4>2, BusValues DEF Overlap
    <3>7. BurstsApart(bursts \cup d)
      <4> SUFFICES ASSUME NEW u \in bursts \cup {new}, NEW v \in bursts \cup {new}, u # v,
                          RankOf(u.path) = RankOf(v.path)
                   PROVE  ~Overlap(u, v)
        BY <3>2 DEF BurstsApart
      <4>1. CASE u \in bursts /\ v \in bursts BY <1>2, <4>1 DEF BurstsApart
      <4>2. CASE u \in bursts /\ v = new BY <3>3, <3>6, <4>2
      <4>3. CASE u = new /\ v \in bursts BY <3>3, <3>6, <4>3
      <4> QED BY <4>1, <4>2, <4>3
    <3>8. \A u \in d : BurstDue(w, u) BY <3>2, <3>5
    <3> QED BY <1>4, <3>7, <3>8, BusGoes
  <2> QED BY <2>2, <2>3
<1>5. CASE Next BY <1>3, <1>4, <1>5, StepIs
<1> QED BY <1>1, <1>5

\* OneBurstOfAll: in all nine standards, reads and writes of one rank never have
\* their data bursts overlap, in whichever order they come and to whichever
\* banks: the entries of the table above the bank are enough.
THEOREM OneBurstOfAll ==
  ASSUME BurstTimes
  PROVE  Spec => []OneBurst
<1> DEFINE Inv == Typed /\ BanksShaped /\ BusInv
<1>1. Init => Inv
  <2>1. Init => BusInv BY DEF Init, BusInv, OneBurst
  <2> QED BY <2>1, InitTyped
<1>2. Inv /\ [Next]_vars => Inv' BY NextTyped, BusNext
<1>3. Inv => OneBurst BY DEF BusInv
<1> QED BY <1>1, <1>2, <1>3, PTL DEF Spec

----------------------------------------------------------------------------
(* FRFCFS::get_best_request.                                               *)

\* The pass over a queue keeps one of its requests, and a ready one if there is
\* one that takes no bank from a row hit.
LEMMA BestFacts ==
  ASSUME NEW S, NEW queue \in Seq(S), queue # <<>>
  PROVE  /\ Best(queue) \in 1 .. Len(queue)
         /\ \A i \in 1 .. Len(queue) :
              IsReady(queue[i]) /\ Takes(queue, queue[i]) => IsReady(queue[Best(queue)])
<1> DEFINE N == Len(queue)
           keep(b, n) == Keeps(queue, queue[b], queue[n])
           body(f, n) == IF n = 1 THEN 1 ELSE IF keep(f[n - 1], n) THEN f[n - 1] ELSE n
           best == CHOOSE f : f = [n \in 1 .. Len(queue) |-> body(f, n)]
           step == [n \in Nat |-> [b \in Nat |-> IF keep(b, n) THEN b ELSE n]]
<1>1. N \in Nat /\ N >= 1 OBVIOUS
<1>2. PICK g \in [1 .. N -> Nat] : IsPassOf(g, N, 1, step)
  <2>1. step \in [Nat -> [Nat -> Nat]] /\ 1 \in Nat OBVIOUS
  <2> HIDE DEF step, N
  <2> QED BY <1>1, <2>1, PassDefined, Zenon
<1>3. g = [n \in 1 .. N |-> body(g, n)]
  <2> HIDE DEF keep
  <2>1. ASSUME NEW n \in 1 .. N PROVE g[n] = body(g, n)
    <3>3. g[n] = IF n = 1 THEN 1 ELSE step[n][g[n - 1]] BY <1>2 DEF IsPassOf
    <3>1. CASE n = 1 BY <3>1, <3>3
    <3>2. CASE n # 1
      <4>1. n \in Nat /\ g[n - 1] \in Nat BY <1>1, <3>2
      <4>2. step[n][g[n - 1]] = IF keep(g[n - 1], n) THEN g[n - 1] ELSE n BY <4>1
      <4> QED BY <3>2, <3>3, <4>2
    <3> QED BY <3>1, <3>2
  <2> HIDE DEF body
  <2> QED BY <2>1
<1>4. best = [n \in 1 .. N |-> body(best, n)] BY <1>3, Zenon
<1>5. Best(queue) = best[N] BY Zenon DEF Best
<1> HIDE DEF best
<1> DEFINE good(n) == /\ best[n] \in 1 .. n
                      /\ \A i \in 1 .. n : IsReady(queue[i]) /\ Takes(queue, queue[i])
                                             => IsReady(queue[best[n]])
           T == { n \in Nat : n + 1 \in 1 .. N => good(n + 1) }
<1>6. ASSUME NEW n \in 1 .. N PROVE best[n] = body(best, n) BY <1>4, <1>6
<1>7. 0 \in T
  <2>1. best[1] = 1 BY <1>1, <1>6
  <2>2. good(1) BY <2>1
  <2> QED BY <2>2
<1>8. ASSUME NEW m \in Nat, m \in T PROVE m + 1 \in T
  <2> SUFFICES ASSUME (m + 1) + 1 \in 1 .. N PROVE good((m + 1) + 1)
    OBVIOUS
  <2> DEFINE n == (m + 1) + 1
  <2>1. m + 1 \in 1 .. N /\ n # 1 /\ n - 1 = m + 1 /\ n \in 1 .. N BY <1>1
  <2>2. good(m + 1) BY <1>8, <2>1
  <2>3. best[n] = IF keep(best[m + 1], n) THEN best[m + 1] ELSE n BY <1>6, <2>1
  <2> DEFINE b == queue[best[m + 1]]
             r == queue[n]
  <2>4. keep(best[m + 1], n) <=>
          IF IsReady(b) # IsReady(r) THEN IsReady(b) \/ ~Takes(queue, r)
          ELSE b.arrive <= r.arrive
    BY DEF Keeps
  <2>5. best[n] \in 1 .. n BY <2>2, <2>3
  <2> HIDE DEF keep, n
  <2>6. IsReady(b) => IsReady(queue[best[n]]) BY <2>3, <2>4
  <2>7. IsReady(r) /\ Takes(queue, r) => IsReady(queue[best[n]]) BY <2>3, <2>4
  <2>8. \A i \in 1 .. n : i \in 1 .. m + 1 \/ i = n BY DEF n
  <2>9. good(n) BY <2>2, <2>5, <2>6, <2>7, <2>8
  <2> QED BY <2>9 DEF n
<1> HIDE DEF T
<1>9. Nat \subseteq T BY <1>7, <1>8, NatSetInduction
<1>10. N - 1 \in Nat /\ (N - 1) + 1 = N BY <1>1
<1>11. N - 1 \in T /\ N \in 1 .. N BY <1>1, <1>9, <1>10
<1>12. \A n \in T : n + 1 \in 1 .. N => good(n + 1) BY DEF T
<1> HIDE DEF good
<1>13. good(N) BY <1>10, <1>11, <1>12
<1> QED BY <1>5, <1>13 DEF good

----------------------------------------------------------------------------
(* The types of the generic controller and its device.                     *)

MemoryReqs(sh) ==
  [id : Nat, type : {"Read", "Write"}, path : BanksOf[sh], row : Rows, col : Nat, arrive : Nat]
RefreshReqs(sh) == { RefreshRequest(<<k>>) : k \in 0 .. sh[1] - 1 }
Reqs(sh) == MemoryReqs(sh) \cup RefreshReqs(sh)

MemoryCommands == {"ACT", "ACT2", "PRE", "CASRD", "CASWR", "RD", "WR"}
AllCommands == MemoryCommands \cup {"REFab", "PREA"}

\* What a buffer is for.
Kept(sh, b) == IF b = "priority" THEN RefreshReqs(sh) ELSE MemoryReqs(sh)

Departures == [id : Nat, wait : Int]

Controllers(sh) ==
  [buf : [Buffers -> Seq(Reqs(sh))], pending : Seq(Departures),
   writeMode : BOOLEAN, sent : Nat, cycle : Nat, done : SUBSET Nat, lost : SUBSET Nat,
   refreshes : Nat, issued : AllCommands \cup {"none"}]

Good(sh, c) == c \in Controllers(sh) /\ \A b \in Buffers : c.buf[b] \in Seq(Kept(sh, b))

LEMMA SystemFacts ==
  ASSUME Device
  PROVE  /\ std \in Standards /\ shape \in Shapes /\ Depth(std) \in 2 .. 4
         /\ shape \in [1 .. Depth(std) -> {1, 2}] /\ Len(shape) = Depth(std)
         /\ shape[1] \in 1 .. 2
         /\ \A b \in Banks : b \in Seq(0 .. 1) /\ Len(b) = Depth(std)
         /\ Menu[std] \subseteq [type : {"Read", "Write"}, path : Banks, row : Rows, col : Nat]
<1>1. PICK o \in Organizations : std = o[1] /\ shape = o[2] BY DEF Device
<1>2. /\ std \in Standards /\ shape \in Shapes /\ Depth(std) \in 2 .. 4
      /\ shape \in [1 .. Depth(std) -> {1, 2}] /\ Len(shape) = Depth(std)
      /\ shape[1] \in 1 .. 2
  BY <1>1, ShapeFacts
<1>3. \A b \in Banks : b \in Seq(0 .. 1) /\ Len(b) = Depth(std)
  BY <1>2, NodeFacts DEF Banks
<1>4. Menu[std] \subseteq [type : {"Read", "Write"}, path : Banks, row : Rows, col : Nat]
  BY <1>1, GenericControllerAssumption DEF Banks
<1> QED BY <1>2, <1>3, <1>4

----------------------------------------------------------------------------
(* The command a request needs.                                            *)

LEMMA MemoryCommand ==
  ASSUME Device, NEW r \in MemoryReqs(shape)
  PROVE  /\ CommandFor(r) \in MemoryCommands
         /\ bank[r.path].state = "Closed" <=> CommandFor(r) = "ACT"
         /\ bank[r.path].state = "PreOpened" <=> CommandFor(r) = "ACT2"
         /\ CommandFor(r) \in {"RD", "WR"} => r.row \in bank[r.path].rows
<1> DEFINE cmd == Commands[std].requests[r.type]
           b == bank[r.path]
<1>1. RequestTable(Commands[std]) /\ RulesTable(Rules[std])
  BY SystemFacts, RequestFacts, RulesFacts
<1>2. r.type \in {"Read", "Write"} /\ r.path \in Banks /\ r.row \in Rows
  BY DEF MemoryReqs, Banks
<1>3. cmd \in {"RD", "WR"}
  <2>1. Commands[std].requests["Read"] = "RD" /\ Commands[std].requests["Write"] = "WR"
    BY <1>1 DEF RequestTable
  <2>2. r.type = "Read" \/ r.type = "Write" BY <1>2
  <2>3. cmd = Commands[std].requests["Read"] \/ cmd = Commands[std].requests["Write"]
    BY <2>2
  <2> QED BY <2>1, <2>3
<1>4. b.state \in {"Closed", "PreOpened", "Opened"} BY <1>2 DEF Device, States
<1> HIDE DEF cmd, b
<1>5. CommandFor(r) = RowPreq(cmd, r.path, r.row)
  <2>1. CommandFor(r) = GetPreqCommand(cmd, r.path, r.row)
    BY DEF CommandFor, NextCommand, cmd
  <2>2. cmd # "REFab" /\ cmd \in Rules[std].needRow /\ cmd \notin Rules[std].needClosed
    BY <1>1, <1>3 DEF RulesTable
  <2> QED BY <2>1, <2>2 DEF GetPreqCommand
<1>6. \/ b.state = "Closed" /\ CommandFor(r) = "ACT"
      \/ b.state = "PreOpened" /\ CommandFor(r) = "ACT2"
      \/ b.state = "Opened" /\ r.row \notin b.rows /\ CommandFor(r) = "PRE"
      \/ b.state = "Opened" /\ r.row \in b.rows /\ CommandFor(r) \in {"CASRD", "CASWR", "RD", "WR"}
  BY <1>3, <1>4, <1>5 DEF RowPreq, b
<1> QED BY <1>6 DEF MemoryCommands, b

LEMMA RefreshCommand ==
  ASSUME Device, NEW r \in RefreshReqs(shape)
  PROVE  CommandFor(r) \in {"REFab", "PREA"}
<1>1. RequestTable(Commands[std]) BY SystemFacts, RequestFacts
<1>2. r.type = "Refresh" BY DEF RefreshReqs, RefreshRequest
<1>3. CommandFor(r) = GetPreqCommand("REFab", r.path, r.row)
  BY <1>1, <1>2 DEF CommandFor, NextCommand, RequestTable
<1>4. "REFab" \notin Rules[std].needRow /\ "REFab" \notin Rules[std].needClosed
  BY SystemFacts, RulesFacts DEF RulesTable
<1> QED BY <1>3, <1>4 DEF GetPreqCommand

\* Which buffer a command comes from.
LEMMA BufferCommand ==
  ASSUME Device, NEW c, Good(shape, c), NEW b \in Buffers, NEW i \in 1 .. Len(c.buf[b])
  PROVE  /\ c.buf[b][i] \in Kept(shape, b)
         /\ CommandFor(c.buf[b][i]) \in AllCommands
         /\ b = "priority" <=> CommandFor(c.buf[b][i]) \in {"REFab", "PREA"}
<1>1. c.buf[b] \in Seq(Kept(shape, b)) BY DEF Good
<1>2. c.buf[b][i] \in Kept(shape, b) BY <1>1
<1>3. CASE b = "priority"
  BY <1>2, <1>3, RefreshCommand DEF Kept, AllCommands
<1>4. CASE b # "priority"
  <2>1. c.buf[b][i] \in MemoryReqs(shape) BY <1>2, <1>4 DEF Kept
  <2> QED BY <1>2, <1>4, <2>1, MemoryCommand DEF MemoryCommands, AllCommands
<1> QED BY <1>3, <1>4

----------------------------------------------------------------------------
(* What schedule_request finds.                                            *)

\* c2 is c, or c with the other write mode.
Moded(c, c2) == \E m \in BOOLEAN : c2 = [c EXCEPT !.writeMode = m]

LEMMA ModedFacts ==
  ASSUME NEW sh, NEW c, Good(sh, c), NEW c2, Moded(c, c2)
  PROVE  /\ Good(sh, c2) /\ c2.buf = c.buf /\ c2.pending = c.pending /\ c2.sent = c.sent
         /\ c2.done = c.done /\ c2.lost = c.lost
BY DEF Moded, Good, Controllers

LEMMA ModedSame ==
  ASSUME NEW sh, NEW c, Good(sh, c)
  PROVE  Moded(c, c)
<1>1. c = [c EXCEPT !.writeMode = c.writeMode] /\ c.writeMode \in BOOLEAN
  BY DEF Good, Controllers
<1> QED BY <1>1 DEF Moded

\* A pick of schedule_request: of a request that is there, when it is found.
IsPick(p) == p = [ctl |-> p.ctl, from |-> p.from, at |-> p.at, cmd |-> p.cmd, found |-> p.found]

Sound(c, p) ==
  /\ IsPick(p) /\ Moded(c, p.ctl) /\ p.found \in BOOLEAN
  /\ p.cmd \in AllCommands \cup {"none"}
  /\ p.found => /\ p.from \in Buffers /\ p.at \in 1 .. Len(p.ctl.buf[p.from])
                /\ p.cmd = CommandFor(Chosen(p))
                /\ CheckReady(p.cmd, Chosen(p).path)

LEMMA PickSound ==
  ASSUME Device, NEW c, Good(shape, c), NEW e, Moded(c, e), NEW b \in Buffers,
         NEW i \in 1 .. Len(e.buf[b]), NEW first
  PROVE  Sound(c, Pick(e, b, i, first))
<1>1. Good(shape, e) BY ModedFacts
<1>2. CommandFor(e.buf[b][i]) \in AllCommands BY <1>1, BufferCommand
<1>3. (Differs(first, CommandFor(e.buf[b][i])) /\ CheckReady(CommandFor(e.buf[b][i]), e.buf[b][i].path))
        \in BOOLEAN
  OBVIOUS
<1> QED BY <1>2, <1>3 DEF Sound, Pick, Chosen, IsPick

LEMMA NoPickSound ==
  ASSUME NEW c, NEW e, Moded(c, e)
  PROVE  Sound(c, NoPick(e))
BY DEF Sound, NoPick, IsPick

LEMMA PickBestSound ==
  ASSUME Device, NEW c, Good(shape, c), NEW e, Moded(c, e), NEW b \in Buffers, NEW first,
         NEW p \in PickBest(e, b, first)
  PROVE  Sound(c, p)
<1>1. CASE e.buf[b] = <<>> BY <1>1, NoPickSound DEF PickBest
<1>2. CASE e.buf[b] # <<>>
  <2>1. e.buf[b] \in Seq(Kept(shape, b)) BY ModedFacts DEF Good
  <2>2. Best(e.buf[b]) \in 1 .. Len(e.buf[b]) BY <1>2, <2>1, BestFacts
  <2>3. p = Pick(e, b, Best(e.buf[b]), first) BY <1>2 DEF PickBest
  <2> QED BY <2>2, <2>3, PickSound
<1> QED BY <1>1, <1>2

LEMMA PickMemorySound ==
  ASSUME Device, NEW c, Good(shape, c), NEW first, NEW p \in PickMemory(c, first)
  PROVE  Sound(c, p)
<1> DEFINE e == [c EXCEPT !.writeMode = WriteMode(c)]
           b == IF e.writeMode THEN "write" ELSE "read"
<1>1. WriteMode(c) \in BOOLEAN BY DEF WriteMode
<1>2. Moded(c, e) BY <1>1 DEF Moded
<1>3. b \in Buffers BY DEF Buffers
<1>4. p \in PickBest(e, b, first) BY Zenon DEF PickMemory
<1> HIDE DEF e, b
<1> QED BY <1>2, <1>3, <1>4, PickBestSound

LEMMA PickUrgentSound ==
  ASSUME Device, NEW c, Good(shape, c), NEW first, NEW p \in PickUrgent(c, first)
  PROVE  Sound(c, p)
<1>1. CASE p \in PickMemory(c, first) BY <1>1, PickMemorySound
<1>2. CASE c.buf["priority"] # <<>> /\ p = Pick(c, "priority", 1, first)
  <2>1. c.buf["priority"] \in Seq(Kept(shape, "priority")) /\ "priority" \in Buffers
    BY DEF Good, Buffers
  <2>2. 1 \in 1 .. Len(c.buf["priority"]) BY <1>2, <2>1
  <2> QED BY <1>2, <2>1, <2>2, ModedSame, PickSound
<1> QED BY <1>1, <1>2 DEF PickUrgent

LEMMA ScheduleSound ==
  ASSUME Device, NEW c, Good(shape, c), NEW first, NEW p \in Schedule(c, first)
  PROVE  Sound(c, p) /\ (p.found => ~Interrupts(p))
<1>1. PICK q \in UNION { IF active.found THEN {active} ELSE PickUrgent(c, first) :
                           active \in PickBest(c, "active", first) } :
        p = [q EXCEPT !.found = @ /\ ~Interrupts(q)]
  BY Zenon DEF Schedule
<1>2. Sound(c, q)
  <2>1. CASE q \in PickBest(c, "active", first)
    <3>1. "active" \in Buffers BY DEF Buffers
    <3> QED BY <2>1, <3>1, ModedSame, PickBestSound
  <2>2. CASE q \in PickUrgent(c, first) BY <2>2, PickUrgentSound
  <2> QED BY <1>1, <2>1, <2>2
<1>3. /\ p.ctl = q.ctl /\ p.from = q.from /\ p.at = q.at /\ p.cmd = q.cmd
      /\ p.found = (q.found /\ ~Interrupts(q)) /\ IsPick(p)
  BY <1>1, <1>2 DEF Sound, IsPick
<1>4. p.found \in BOOLEAN BY <1>3
<1>5. Chosen(p) = Chosen(q) BY <1>3 DEF Chosen
<1>6. p.found => ~Interrupts(p) BY <1>3 DEF Interrupts
<1> QED BY <1>2, <1>3, <1>4, <1>5, <1>6 DEF Sound

----------------------------------------------------------------------------
(* The controller keeps its type and the kinds of its buffers.             *)

LEMMA PutBuffer ==
  ASSUME NEW sh, NEW c, Good(sh, c), NEW b \in Buffers, NEW s \in Seq(Kept(sh, b))
  PROVE  Good(sh, [c EXCEPT !.buf[b] = s])
<1> DEFINE e == [c EXCEPT !.buf[b] = s]
<1>1. s \in Seq(Reqs(sh))
  <2>1. Kept(sh, b) \subseteq Reqs(sh) BY DEF Kept, Reqs
  <2> QED BY <2>1
<1>2. [c.buf EXCEPT ![b] = s] \in [Buffers -> Seq(Reqs(sh))] BY <1>1 DEF Good, Controllers
<1>3. e = [c EXCEPT !.buf = [c.buf EXCEPT ![b] = s]] OBVIOUS
<1>4. e \in Controllers(sh) /\ e.buf = [c.buf EXCEPT ![b] = s]
  <2> DEFINE w == [c.buf EXCEPT ![b] = s]
  <2> HIDE DEF w
  <2>1. w \in [Buffers -> Seq(Reqs(sh))] BY <1>2 DEF w
  <2>2. [c EXCEPT !.buf = w] \in Controllers(sh) /\ [c EXCEPT !.buf = w].buf = w
    BY <2>1 DEF Good, Controllers
  <2> QED BY <1>3, <2>2 DEF w
<1> HIDE DEF e
<1>5. \A a \in Buffers : e.buf[a] = IF a = b THEN s ELSE c.buf[a]
  BY <1>4 DEF Good, Controllers
<1>6. \A a \in Buffers : e.buf[a] \in Seq(Kept(sh, a)) BY <1>5 DEF Good
<1> QED BY <1>4, <1>6 DEF Good, e

\* The other fields do not matter to the buffers.
LEMMA PutOthers ==
  ASSUME NEW sh, NEW c, Good(sh, c)
  PROVE  /\ \A x \in Seq(Departures) : Good(sh, [c EXCEPT !.pending = x])
         /\ \A x \in SUBSET Nat : Good(sh, [c EXCEPT !.done = x])
         /\ \A x \in SUBSET Nat : Good(sh, [c EXCEPT !.lost = x])
         /\ \A x \in Nat : Good(sh, [c EXCEPT !.cycle = x])
         /\ \A x \in Nat : Good(sh, [c EXCEPT !.refreshes = x])
         /\ \A x \in Nat : Good(sh, [c EXCEPT !.sent = x])
         /\ \A x \in AllCommands \cup {"none"} : Good(sh, [c EXCEPT !.issued = x])
<1>1. \A x \in Seq(Departures) : Good(sh, [c EXCEPT !.pending = x])
  BY DEF Good, Controllers
<1>2. \A x \in SUBSET Nat : Good(sh, [c EXCEPT !.done = x]) BY DEF Good, Controllers
<1>3. \A x \in SUBSET Nat : Good(sh, [c EXCEPT !.lost = x]) BY DEF Good, Controllers
<1>4. \A x \in Nat : Good(sh, [c EXCEPT !.cycle = x]) BY DEF Good, Controllers
<1>5. \A x \in Nat : Good(sh, [c EXCEPT !.refreshes = x]) BY DEF Good, Controllers
<1>6. \A x \in Nat : Good(sh, [c EXCEPT !.sent = x]) BY DEF Good, Controllers
<1>7. \A x \in AllCommands \cup {"none"} : Good(sh, [c EXCEPT !.issued = x]) BY DEF Good, Controllers
<1> QED BY <1>1, <1>2, <1>3, <1>4, <1>5, <1>6, <1>7

\* What serve_completed_reads does to the requests that are about to finish.
Aged(c) == [i \in DOMAIN c.pending |-> [c.pending[i] EXCEPT !.wait = Larger(0, @ - 1)]]

LEMMA AgedFacts ==
  ASSUME NEW sh, NEW c, Good(sh, c)
  PROVE  /\ Aged(c) \in Seq(Departures) /\ Len(Aged(c)) = Len(c.pending)
         /\ \A i \in 1 .. Len(c.pending) : Aged(c)[i].id = c.pending[i].id
<1>1. c.pending \in Seq(Departures) BY DEF Good, Controllers
<1>2. \A x \in Int : Larger(0, x - 1) \in Int BY DEF Larger
<1>3. ASSUME NEW i \in 1 .. Len(c.pending)
      PROVE  /\ [c.pending[i] EXCEPT !.wait = Larger(0, @ - 1)] \in Departures
             /\ [c.pending[i] EXCEPT !.wait = Larger(0, @ - 1)].id = c.pending[i].id
  <2>1. c.pending[i] \in Departures BY <1>1
  <2> DEFINE x == c.pending[i]
  <2> HIDE DEF x
  <2>2. x \in Departures /\ Larger(0, x.wait - 1) \in Int BY <1>2, <2>1 DEF x, Departures
  <2>3. /\ [x EXCEPT !.wait = Larger(0, x.wait - 1)] \in Departures
        /\ [x EXCEPT !.wait = Larger(0, x.wait - 1)].id = x.id
    BY <2>2 DEF Departures
  <2> QED BY <2>3 DEF x
<1>4. DOMAIN c.pending = 1 .. Len(c.pending) /\ Len(c.pending) \in Nat BY <1>1
<1>5. Aged(c) \in [1 .. Len(c.pending) -> Departures] BY <1>3, <1>4 DEF Aged
<1>6. \A i \in 1 .. Len(c.pending) : Aged(c)[i].id = c.pending[i].id BY <1>3, <1>4 DEF Aged
<1> QED BY <1>4, <1>5, <1>6, FunctionIsSeq

LEMMA ServeGood ==
  ASSUME NEW sh, NEW c, Good(sh, c)
  PROVE  /\ Good(sh, ServeCompletedReads(c))
         /\ ServeCompletedReads(c).buf = c.buf /\ ServeCompletedReads(c).sent = c.sent
         /\ ServeCompletedReads(c).lost = c.lost
         /\ \/ /\ ServeCompletedReads(c).pending = Aged(c) /\ ServeCompletedReads(c).done = c.done
            \/ /\ Aged(c) # <<>> /\ ServeCompletedReads(c).pending = Tail(Aged(c))
               /\ ServeCompletedReads(c).done = c.done \cup {Aged(c)[1].id}
<1> DEFINE aged == Aged(c)
<1>1. aged \in Seq(Departures) BY AgedFacts
<1>2. ServeCompletedReads(c) =
        IF aged # <<>> /\ aged[1].wait = 0
        THEN [c EXCEPT !.pending = Tail(aged), !.done = @ \cup {aged[1].id}]
        ELSE [c EXCEPT !.pending = aged]
  BY Zenon DEF ServeCompletedReads, Aged
<1> HIDE DEF aged
<1>3. CASE aged # <<>> /\ aged[1].wait = 0
  <2>1. Tail(aged) \in Seq(Departures) /\ aged[1] \in Departures BY <1>1, <1>3
  <2>2. c.done \cup {aged[1].id} \in SUBSET Nat BY <2>1 DEF Good, Controllers, Departures
  <2> DEFINE t == Tail(aged)
             d == c.done \cup {aged[1].id}
             e == [c EXCEPT !.pending = t, !.done = d]
  <2>3. ServeCompletedReads(c) = e BY <1>2, <1>3
  <2> HIDE DEF t, d
  <2>4. t \in Seq(Departures) /\ d \in SUBSET Nat BY <2>1, <2>2 DEF t, d
  <2>5. /\ Good(sh, e) /\ e.buf = c.buf /\ e.sent = c.sent /\ e.lost = c.lost
        /\ e.pending = t /\ e.done = d
    BY <2>4 DEF Good, Controllers
  <2> QED BY <1>3, <2>3, <2>5 DEF t, d, aged
<1>4. CASE ~(aged # <<>> /\ aged[1].wait = 0)
  <2> DEFINE e == [c EXCEPT !.pending = aged]
  <2>1. ServeCompletedReads(c) = e BY <1>2, <1>4
  <2>2. /\ Good(sh, e) /\ e.buf = c.buf /\ e.sent = c.sent /\ e.lost = c.lost
        /\ e.pending = aged /\ e.done = c.done
    BY <1>1 DEF Good, Controllers
  <2> QED BY <2>1, <2>2 DEF aged
<1> QED BY <1>3, <1>4

LEMMA NextCycleGood ==
  ASSUME NEW sh, NEW c, Good(sh, c)
  PROVE  /\ Good(sh, NextCycle(c)) /\ NextCycle(c).buf = c.buf
         /\ NextCycle(c).pending = c.pending /\ NextCycle(c).sent = c.sent
         /\ NextCycle(c).done = c.done /\ NextCycle(c).lost = c.lost
<1>1. c.cycle + 1 \in Nat BY DEF Good, Controllers
<1>2. NextCycle(c) = c \/ NextCycle(c) = [c EXCEPT !.cycle = @ + 1] BY DEF NextCycle
<1>3. CASE NextCycle(c) = c BY <1>3
<1>4. CASE NextCycle(c) = [c EXCEPT !.cycle = @ + 1]
  <2>1. NextCycle(c) = [c EXCEPT !.cycle = c.cycle + 1] BY <1>4
  <2>2. Good(sh, NextCycle(c)) BY <1>1, <2>1, PutOthers
  <2> QED BY <2>1, <2>2 DEF Good, Controllers
<1> QED BY <1>2, <1>3, <1>4

LEMMA RefreshTickGood ==
  ASSUME Device, NEW c, Good(shape, c), NEW e \in RefreshTick(c)
  PROVE  /\ Good(shape, e) /\ e.pending = c.pending /\ e.sent = c.sent
         /\ e.done = c.done /\ e.lost = c.lost
         /\ \A b \in Buffers \ {"priority"} : e.buf[b] = c.buf[b]
<1> DEFINE ranks == IF std \in Refreshed THEN shape[1] ELSE 0
           more == [i \in 1 .. ranks |-> RefreshRequest(<<i - 1>>)]
           s == c.buf["priority"] \o more
<1>1. more \in Seq(RefreshReqs(shape))
  <2>1. ranks \in Nat /\ ranks <= shape[1] /\ shape[1] \in 1 .. 2 BY SystemFacts
  <2>2. \A i \in 1 .. ranks : i - 1 \in 0 .. shape[1] - 1 BY <2>1
  <2>3. \A i \in 1 .. ranks : RefreshRequest(<<i - 1>>) \in RefreshReqs(shape)
    BY <2>2 DEF RefreshReqs
  <2> HIDE DEF ranks
  <2> QED BY <2>1, <2>3
<1>2. "priority" \in Buffers /\ Kept(shape, "priority") = RefreshReqs(shape)
  BY DEF Buffers, Kept
<1>3. s \in Seq(Kept(shape, "priority"))
  <2>1. c.buf["priority"] \in Seq(RefreshReqs(shape)) BY <1>2 DEF Good
  <2> HIDE DEF more
  <2> QED BY <1>1, <1>2, <2>1
<1>4. CASE e = c BY <1>4
<1>5. CASE e = [c EXCEPT !.refreshes = c.refreshes + 1, !.buf["priority"] = s]
  <2> DEFINE d == [c EXCEPT !.buf["priority"] = s]
  <2>1. Good(shape, d) BY <1>2, <1>3, PutBuffer
  <2>2. e = [d EXCEPT !.refreshes = c.refreshes + 1]
    <3> HIDE DEF s
    <3> QED BY <1>5 DEF Good, Controllers
  <2>3. /\ d.pending = c.pending /\ d.sent = c.sent /\ d.done = c.done /\ d.lost = c.lost
        /\ \A b \in Buffers \ {"priority"} : d.buf[b] = c.buf[b]
    <3> HIDE DEF s
    <3> QED BY <1>2 DEF Good, Controllers
  <2>4. c.refreshes + 1 \in Nat BY DEF Good, Controllers
  <2> HIDE DEF d
  <2>5. Good(shape, e) BY <2>1, <2>2, <2>4, PutOthers
  <2>6. /\ e.pending = d.pending /\ e.sent = d.sent /\ e.done = d.done /\ e.lost = d.lost
        /\ e.buf = d.buf
    BY <2>1, <2>2 DEF Good, Controllers
  <2> QED BY <2>3, <2>5, <2>6
<1>6. e = c \/ e = [c EXCEPT !.refreshes = @ + 1, !.buf["priority"] = @ \o more]
  BY Zenon DEF RefreshTick
<1>7. [c EXCEPT !.refreshes = @ + 1, !.buf["priority"] = @ \o more]
        = [c EXCEPT !.refreshes = c.refreshes + 1, !.buf["priority"] = s]
  <2> HIDE DEF more
  <2> QED BY DEF Good, Controllers
<1> QED BY <1>4, <1>5, <1>6, <1>7

\* The controller at the start of a tick.
LEMMA StartGood ==
  ASSUME Device, NEW c, Good(shape, c), NEW e \in RefreshTick(NextCycle(ServeCompletedReads(c)))
  PROVE  /\ Good(shape, e) /\ e.sent = c.sent /\ e.lost = c.lost
         /\ \A b \in Buffers \ {"priority"} : e.buf[b] = c.buf[b]
         /\ e.pending = ServeCompletedReads(c).pending /\ e.done = ServeCompletedReads(c).done
<1> DEFINE s == ServeCompletedReads(c)
           n == NextCycle(s)
<1>1. Good(shape, s) /\ s.buf = c.buf /\ s.sent = c.sent /\ s.lost = c.lost BY ServeGood
<1> HIDE DEF s
<1>2. /\ Good(shape, n) /\ n.buf = s.buf /\ n.sent = s.sent /\ n.lost = s.lost
      /\ n.pending = s.pending /\ n.done = s.done
  BY <1>1, NextCycleGood
<1> HIDE DEF n
<1>3. e \in RefreshTick(n) BY DEF n, s
<1>4. /\ Good(shape, e) /\ e.pending = n.pending /\ e.sent = n.sent
      /\ e.done = n.done /\ e.lost = n.lost
      /\ \A b \in Buffers \ {"priority"} : e.buf[b] = n.buf[b]
  BY <1>2, <1>3, RefreshTickGood
<1> QED BY <1>1, <1>2, <1>4 DEF s

----------------------------------------------------------------------------
(* Issuing the command that was found.                                     *)

\* The request a command was found for.
LEMMA ChosenFacts ==
  ASSUME Device, NEW c, Good(shape, c), NEW p, Sound(c, p), p.found
  PROVE  /\ p.from \in Buffers /\ p.at \in 1 .. Len(p.ctl.buf[p.from])
         /\ Good(shape, p.ctl) /\ Chosen(p) \in Kept(shape, p.from)
         /\ p.cmd = CommandFor(Chosen(p)) /\ p.cmd \in AllCommands
         /\ p.from = "priority" <=> p.cmd \in {"REFab", "PREA"}
         /\ p.from # "priority" => Chosen(p) \in MemoryReqs(shape)
<1>1. /\ p.from \in Buffers /\ p.at \in 1 .. Len(p.ctl.buf[p.from])
      /\ Good(shape, p.ctl) /\ p.cmd = CommandFor(Chosen(p))
  BY ModedFacts DEF Sound
<1>2. /\ Chosen(p) \in Kept(shape, p.from)
      /\ p.cmd \in AllCommands
      /\ p.from = "priority" <=> p.cmd \in {"REFab", "PREA"}
  BY <1>1, BufferCommand DEF Chosen
<1> QED BY <1>1, <1>2 DEF Kept

LEMMA FinishesWhich ==
  ASSUME Device, NEW c, Good(shape, c), NEW p, Sound(c, p), Finishes(p)
  PROVE  p.found /\ p.cmd \in {"RD", "WR", "REFab"}
         /\ (Chosen(p).type = "Read" => p.cmd = "RD")
         /\ (Chosen(p).type = "Write" => p.cmd = "WR")
<1>1. p.found /\ p.cmd = Commands[std].requests[Chosen(p).type] BY DEF Finishes
<1>2. Chosen(p) \in Kept(shape, p.from) BY <1>1, ChosenFacts
<1>3. Chosen(p).type \in {"Read", "Write", "Refresh"}
  BY <1>2 DEF Kept, MemoryReqs, RefreshReqs, RefreshRequest
<1>4. RequestTable(Commands[std]) BY SystemFacts, RequestFacts
<1>5. /\ Commands[std].requests["Read"] = "RD" /\ Commands[std].requests["Write"] = "WR"
      /\ Commands[std].requests["Refresh"] = "REFab"
  BY <1>4 DEF RequestTable
<1> QED BY <1>1, <1>3, <1>5

LEMMA RemovedGood ==
  ASSUME NEW sh, NEW c, Good(sh, c), NEW p, p.from \in Buffers,
         p.at \in 1 .. Len(c.buf[p.from])
  PROVE  /\ Good(sh, Removed(c, p)) /\ Removed(c, p).sent = c.sent
         /\ Removed(c, p).pending = c.pending /\ Removed(c, p).done = c.done
         /\ Removed(c, p).lost = c.lost
         /\ \A b \in Buffers : Removed(c, p).buf[b] =
              IF b = p.from THEN RemoveAt(c.buf[b], p.at) ELSE c.buf[b]
<1> DEFINE s == RemoveAt(c.buf[p.from], p.at)
<1>1. s \in Seq(Kept(sh, p.from))
  <2>1. c.buf[p.from] \in Seq(Kept(sh, p.from)) BY DEF Good
  <2> QED BY <2>1, RemoveAtFacts
<1>2. Removed(c, p) = [c EXCEPT !.buf[p.from] = s] BY DEF Removed
<1> HIDE DEF s
<1>3. Good(sh, Removed(c, p)) BY <1>1, <1>2, PutBuffer
<1>4. /\ Removed(c, p).sent = c.sent
      /\ Removed(c, p).pending = c.pending /\ Removed(c, p).done = c.done
      /\ Removed(c, p).lost = c.lost
      /\ \A b \in Buffers : Removed(c, p).buf[b] = IF b = p.from THEN s ELSE c.buf[b]
  BY <1>2 DEF Good, Controllers
<1> QED BY <1>3, <1>4 DEF s

\* A finished read departs later, a finished write is over.
Finished(c, r, f) ==
  /\ r.type = "Read" =>
       f.pending = Append(c.pending, [id |-> r.id, wait |-> ReadLatency]) /\ f.done = c.done
  /\ r.type = "Write" => f.pending = c.pending /\ f.done = c.done \cup {r.id}
  /\ r.type = "Refresh" => f.pending = c.pending /\ f.done = c.done

LEMMA FinishGood ==
  ASSUME NEW sh, NEW c, Good(sh, c), NEW r \in Reqs(sh)
  PROVE  /\ Good(sh, Finish(c, r)) /\ Finish(c, r).sent = c.sent
         /\ Finish(c, r).buf = c.buf /\ Finish(c, r).lost = c.lost
         /\ Finished(c, r, Finish(c, r))
<1>1. r.id \in Nat /\ r.type \in {"Read", "Write", "Refresh"}
  BY DEF Reqs, MemoryReqs, RefreshReqs, RefreshRequest
<1> DEFINE x == [id |-> r.id, wait |-> ReadLatency]
           s == Append(c.pending, x)
           d == c.done \cup {r.id}
<1>2. s \in Seq(Departures) /\ d \in SUBSET Nat
  <2>1. x \in Departures BY <1>1, GenericControllerAssumption DEF Departures
  <2>2. c.pending \in Seq(Departures) /\ c.done \in SUBSET Nat BY DEF Good, Controllers
  <2> HIDE DEF x
  <2> QED BY <1>1, <2>1, <2>2
<1>3. /\ r.type = "Read" => Finish(c, r) = [c EXCEPT !.pending = s]
      /\ r.type = "Write" => Finish(c, r) = [c EXCEPT !.done = d]
      /\ r.type = "Refresh" => Finish(c, r) = c
  BY <1>1 DEF Finish
<1> HIDE DEF s, d
<1>4. Good(sh, [c EXCEPT !.pending = s]) /\ Good(sh, [c EXCEPT !.done = d])
  BY <1>2, PutOthers
<1>5. CASE r.type = "Read"
  <2>1. Finish(c, r) = [c EXCEPT !.pending = s] BY <1>3, <1>5
  <2>2. /\ Finish(c, r).sent = c.sent /\ Finish(c, r).buf = c.buf /\ Finish(c, r).lost = c.lost
        /\ Finish(c, r).pending = s /\ Finish(c, r).done = c.done
    BY <2>1 DEF Good, Controllers
  <2> QED BY <1>4, <1>5, <2>1, <2>2 DEF s, Finished
<1>6. CASE r.type = "Write"
  <2>1. Finish(c, r) = [c EXCEPT !.done = d] BY <1>3, <1>6
  <2>2. /\ Finish(c, r).sent = c.sent /\ Finish(c, r).buf = c.buf /\ Finish(c, r).lost = c.lost
        /\ Finish(c, r).pending = c.pending /\ Finish(c, r).done = d
    BY <2>1 DEF Good, Controllers
  <2> QED BY <1>4, <1>6, <2>1, <2>2 DEF d, Finished
<1>7. CASE r.type = "Refresh" BY <1>3, <1>7 DEF Finished
<1> QED BY <1>1, <1>5, <1>6, <1>7

LEMMA ActivateGood ==
  ASSUME NEW sh, NEW c, Good(sh, c), NEW r \in MemoryReqs(sh)
  PROVE  /\ Good(sh, Activate(c, r)) /\ Activate(c, r).sent = c.sent
         /\ Activate(c, r).pending = c.pending /\ Activate(c, r).done = c.done
         /\ Len(c.buf["active"]) <= BufSize =>
              /\ Activate(c, r).lost = c.lost
              /\ \A b \in Buffers : Activate(c, r).buf[b] =
                   IF b = "active" THEN Append(c.buf[b], r) ELSE c.buf[b]
         /\ ~(Len(c.buf["active"]) <= BufSize) =>
              Activate(c, r).lost = c.lost \cup {r.id} /\ Activate(c, r).buf = c.buf
<1> DEFINE s == Append(c.buf["active"], r)
           l == c.lost \cup {r.id}
<1>1. "active" \in Buffers /\ Kept(sh, "active") = MemoryReqs(sh) BY DEF Buffers, Kept
<1>2. s \in Seq(Kept(sh, "active")) BY <1>1 DEF Good
<1>3. l \in SUBSET Nat BY DEF Good, Controllers, MemoryReqs
<1>4. /\ Len(c.buf["active"]) <= BufSize => Activate(c, r) = [c EXCEPT !.buf["active"] = s]
      /\ ~(Len(c.buf["active"]) <= BufSize) => Activate(c, r) = [c EXCEPT !.lost = l]
  BY DEF Activate
<1> HIDE DEF s, l
<1>5. CASE Len(c.buf["active"]) <= BufSize
  <2>1. Activate(c, r) = [c EXCEPT !.buf["active"] = s] BY <1>4, <1>5
  <2>2. Good(sh, Activate(c, r)) BY <1>1, <1>2, <2>1, PutBuffer
  <2>3. /\ Activate(c, r).sent = c.sent /\ Activate(c, r).pending = c.pending
        /\ Activate(c, r).done = c.done /\ Activate(c, r).lost = c.lost
        /\ \A b \in Buffers : Activate(c, r).buf[b] = IF b = "active" THEN s ELSE c.buf[b]
    BY <2>1 DEF Good, Controllers
  <2> QED BY <1>5, <2>2, <2>3 DEF s
<1>6. CASE ~(Len(c.buf["active"]) <= BufSize)
  <2>1. Activate(c, r) = [c EXCEPT !.lost = l] BY <1>4, <1>6
  <2>2. Good(sh, Activate(c, r))
    <3>1. Good(sh, [c EXCEPT !.lost = l]) BY <1>3, PutOthers
    <3> QED BY <2>1, <3>1
  <2>3. /\ Activate(c, r).sent = c.sent /\ Activate(c, r).pending = c.pending
        /\ Activate(c, r).done = c.done /\ Activate(c, r).lost = l
        /\ Activate(c, r).buf = c.buf
    BY <2>1 DEF Good, Controllers
  <2> QED BY <1>6, <2>2, <2>3 DEF l
<1> QED BY <1>5, <1>6

\* An activated request is still where it was, for it to be taken out.
LEMMA ActivateKeepsPlace ==
  ASSUME NEW sh, NEW c, Good(sh, c), NEW r \in MemoryReqs(sh), NEW b \in Buffers,
         NEW k \in 1 .. Len(c.buf[b])
  PROVE  k \in 1 .. Len(Activate(c, r).buf[b])
<1>1. CASE Activate(c, r).buf[b] = c.buf[b] BY <1>1
<1>2. CASE b = "active" /\ Activate(c, r).buf[b] = Append(c.buf[b], r)
  <2>1. c.buf[b] \in Seq(MemoryReqs(sh)) BY <1>2 DEF Good, Kept
  <2>2. Len(Append(c.buf[b], r)) = Len(c.buf[b]) + 1 /\ Len(c.buf[b]) \in Nat BY <2>1
  <2> QED BY <1>2, <2>2
<1>3. CASE Len(c.buf["active"]) <= BufSize
  <2>1. Activate(c, r).buf[b] = IF b = "active" THEN Append(c.buf[b], r) ELSE c.buf[b]
    BY <1>3, ActivateGood
  <2> QED BY <1>1, <1>2, <2>1
<1>4. CASE ~(Len(c.buf["active"]) <= BufSize)
  <2>1. Activate(c, r).buf = c.buf BY <1>4, ActivateGood
  <2> QED BY <1>1, <2>1
<1> QED BY <1>3, <1>4

LEMMA AfterIssueGood ==
  ASSUME Device, NEW c, Good(shape, c), NEW p, Sound(c, p)
  PROVE  /\ Good(shape, AfterIssue(p)) /\ AfterIssue(p).sent = c.sent
         /\ p.cmd = "PREA" => AfterIssue(p) = p.ctl
<1>1. Good(shape, p.ctl) /\ p.ctl.sent = c.sent BY ModedFacts DEF Sound
<1>2. CASE Finishes(p)
  <2>1. p.found /\ p.cmd # "PREA" BY <1>2, FinishesWhich
  <2>2. Chosen(p) \in Reqs(shape) BY <2>1, ChosenFacts DEF Kept, Reqs
  <2>3. p.from \in Buffers /\ p.at \in 1 .. Len(p.ctl.buf[p.from]) BY <2>1, ChosenFacts
  <2>4. AfterIssue(p) = Removed(Finish(p.ctl, Chosen(p)), p) BY <1>2 DEF AfterIssue
  <2> DEFINE f == Finish(p.ctl, Chosen(p))
  <2>5. Good(shape, f) /\ f.buf = p.ctl.buf /\ f.sent = p.ctl.sent
    <3> DEFINE d == p.ctl
               r == Chosen(p)
    <3> HIDE DEF d, r
    <3>1. Good(shape, d) /\ r \in Reqs(shape) BY <1>1, <2>2 DEF d, r
    <3>2. /\ Good(shape, Finish(d, r)) /\ Finish(d, r).sent = d.sent
          /\ Finish(d, r).buf = d.buf
      BY <3>1, FinishGood
    <3> QED BY <3>2 DEF d, r
  <2> HIDE DEF f
  <2>6. p.at \in 1 .. Len(f.buf[p.from]) BY <2>3, <2>5
  <2>7. Good(shape, Removed(f, p)) /\ Removed(f, p).sent = f.sent
    BY <2>3, <2>5, <2>6, RemovedGood
  <2>8. AfterIssue(p) = Removed(f, p) BY <2>4 DEF f
  <2> QED BY <1>1, <2>1, <2>5, <2>7, <2>8
<1>3. CASE ~Finishes(p) /\ Activates(p)
  <2>1. p.found /\ p.cmd = "ACT" BY <1>3 DEF Activates
  <2>2. /\ p.from \in Buffers /\ p.at \in 1 .. Len(p.ctl.buf[p.from])
        /\ Chosen(p) \in MemoryReqs(shape)
    BY <2>1, ChosenFacts
  <2>3. AfterIssue(p) = Removed(Activate(p.ctl, Chosen(p)), p) BY <1>3 DEF AfterIssue
  <2> DEFINE f == Activate(p.ctl, Chosen(p))
  <2>4. Good(shape, f) /\ f.sent = c.sent BY <1>1, <2>2, ActivateGood
  <2>5. p.at \in 1 .. Len(f.buf[p.from]) BY <1>1, <2>2, ActivateKeepsPlace
  <2> HIDE DEF f
  <2> QED BY <2>1, <2>2, <2>3, <2>4, <2>5, RemovedGood DEF f
<1>4. CASE ~Finishes(p) /\ ~Activates(p) BY <1>1, <1>4 DEF AfterIssue
<1> QED BY <1>2, <1>3, <1>4

----------------------------------------------------------------------------
(* Every step keeps the types.                                             *)

\* What a command leaves in the banks.
Left(p) == IF p.found THEN UpdateStates(p.cmd, Chosen(p).path, Chosen(p).row) ELSE bank

LEMMA OnDeviceFacts ==
  ASSUME NEW p, p.found \in BOOLEAN, NEW last, OnDevice(p, last)
  PROVE  std' = std /\ shape' = shape /\ bank' = Left(p)
BY DEF OnDevice, IssueNow, Clock, Left

LEMMA LeftType ==
  ASSUME Device, NEW c, Good(shape, c), NEW p, Sound(c, p)
  PROVE  /\ Left(p) \in [Banks -> [state : {"Closed", "PreOpened", "Opened"}, rows : SUBSET Rows]]
         /\ \A b \in Banks : p.found => Left(p)[b] =
              IF b \in ClosedBy(p.cmd, Chosen(p).path) THEN Closed
              ELSE IF b = Chosen(p).path /\ p.cmd \in {"ACT", "ACT2"}
                THEN [state |-> IF p.cmd \in Rules[std].opens THEN "Opened" ELSE "PreOpened",
                      rows |-> bank[b].rows \cup {Chosen(p).row}]
              ELSE bank[b]
         /\ ~p.found => Left(p) = bank
<1> DEFINE T == [state : {"Closed", "PreOpened", "Opened"}, rows : SUBSET Rows]
           new(b) == IF b \in ClosedBy(p.cmd, Chosen(p).path) THEN Closed
                     ELSE IF b = Chosen(p).path /\ p.cmd \in {"ACT", "ACT2"}
                       THEN [state |-> IF p.cmd \in Rules[std].opens THEN "Opened" ELSE "PreOpened",
                             rows |-> bank[b].rows \cup {Chosen(p).row}]
                     ELSE bank[b]
<1>1. bank \in [Banks -> T] BY DEF Device, States
<1>2. CASE ~p.found BY <1>1, <1>2 DEF Left
<1>3. CASE p.found
  <2>1. Left(p) = [b \in Banks |-> new(b)] BY <1>3 DEF Left, UpdateStates
  <2>2. p.cmd \in {"ACT", "ACT2"} => Chosen(p).row \in Rows
    BY <1>3, ChosenFacts DEF MemoryReqs
  <2>3. ASSUME NEW b \in Banks PROVE new(b) \in T
    <3>1. bank[b] \in T BY <1>1
    <3>2. Closed \in T BY DEF Closed
    <3>3. p.cmd \in {"ACT", "ACT2"} =>
            [state |-> IF p.cmd \in Rules[std].opens THEN "Opened" ELSE "PreOpened",
             rows |-> bank[b].rows \cup {Chosen(p).row}] \in T
      BY <2>2, <3>1
    <3> HIDE DEF T
    <3> QED BY <3>1, <3>2, <3>3
  <2> HIDE DEF T, new
  <2>4. Left(p) \in [Banks -> T] /\ \A b \in Banks : Left(p)[b] = new(b) BY <2>1, <2>3
  <2> QED BY <1>3, <2>4 DEF T, new
<1> QED BY <1>2, <1>3

GInv == Device /\ Good(shape, ctl)

LEMMA InitGInv == InitAll => GInv
<1> SUFFICES ASSUME InitAll PROVE GInv OBVIOUS
<1>1. Device
  <2>1. bank = [b \in Banks |-> Closed] /\ \E o \in Organizations : std = o[1] /\ shape = o[2]
    BY DEF InitAll, Init
  <2> QED BY <2>1 DEF Device, States, Closed
<1>2. Good(shape, InitController)
  <2>1. \A S : <<>> \in Seq(S) OBVIOUS
  <2>2. InitController.buf = [b \in Buffers |-> <<>>] BY DEF InitController
  <2>3. [b \in Buffers |-> <<>>] \in [Buffers -> Seq(Reqs(shape))] /\ <<>> \in Seq(Departures)
    BY <2>1
  <2>4. InitController \in Controllers(shape)
    <3> DEFINE S1 == [Buffers -> Seq(Reqs(shape))]
               S2 == Seq(Departures)
               e == [b \in Buffers |-> <<>>]
    <3>1. e \in S1 /\ <<>> \in S2 BY <2>3
    <3>2. Controllers(shape) = [buf : S1, pending : S2,
            writeMode : BOOLEAN, sent : Nat, cycle : Nat, done : SUBSET Nat, lost : SUBSET Nat,
            refreshes : Nat, issued : AllCommands \cup {"none"}]
      BY DEF Controllers
    <3>3. InitController = [buf |-> e, pending |-> <<>>, writeMode |-> FALSE, sent |-> 0, cycle |-> 0,
            done |-> {}, lost |-> {}, refreshes |-> 0, issued |-> "none"]
      BY DEF InitController
    <3> HIDE DEF S1, S2, e
    <3> QED BY <3>1, <3>2, <3>3
  <2> QED BY <2>1, <2>2, <2>4 DEF Good
<1> QED BY <1>1, <1>2 DEF InitAll, GInv

LEMMA SendGood ==
  ASSUME GInv, NEW m \in Menu[std], Send(m)
  PROVE  GInv' /\ bank' = bank /\ std' = std /\ shape' = shape
<1> DEFINE id == ctl.sent + 1
           r == [id |-> id, type |-> m.type, path |-> m.path, row |-> m.row, col |-> m.col,
                 arrive |-> ctl.cycle]
           b == BufferOf(m)
<1>1. bank' = bank /\ std' = std /\ shape' = shape BY DEF Send, vars
<1>2. m \in [type : {"Read", "Write"}, path : Banks, row : Rows, col : Nat]
  BY SystemFacts DEF GInv
<1>3. r \in MemoryReqs(shape) /\ id \in Nat
  BY <1>2 DEF MemoryReqs, GInv, Good, Controllers, Banks
<1>4. b \in Buffers /\ Kept(shape, b) = MemoryReqs(shape) BY DEF BufferOf, Buffers, Kept
<1>5. Good(shape, ctl')
  <2>1. CASE ctl' = [ctl EXCEPT !.sent = id, !.pending = Append(@, [id |-> id, wait |-> 1])]
    <3> DEFINE s == Append(ctl.pending, [id |-> id, wait |-> 1])
               d == [ctl EXCEPT !.pending = s]
    <3>1. s \in Seq(Departures)
      <4>1. [id |-> id, wait |-> 1] \in Departures BY <1>3 DEF Departures
      <4>2. ctl.pending \in Seq(Departures) BY DEF GInv, Good, Controllers
      <4> QED BY <4>1, <4>2
    <3>2. Good(shape, d)
      <4> HIDE DEF s
      <4> QED BY <3>1, PutOthers DEF GInv
    <3>3. ctl' = [d EXCEPT !.sent = id]
      <4> HIDE DEF id
      <4>1. ctl' = [ctl EXCEPT !.sent = id, !.pending = s] BY <2>1 DEF GInv, Good, Controllers
      <4> HIDE DEF s
      <4> QED BY <4>1 DEF GInv, Good, Controllers
    <3> HIDE DEF d, id
    <3> QED BY <1>3, <3>2, <3>3, PutOthers
  <2>2. CASE ctl' = [ctl EXCEPT !.sent = id, !.buf[b] = Append(@, r)]
    <3> DEFINE s == Append(ctl.buf[b], r)
               d == [ctl EXCEPT !.buf[b] = s]
    <3>1. s \in Seq(Kept(shape, b))
      <4>1. ctl.buf[b] \in Seq(Kept(shape, b)) BY <1>4 DEF GInv, Good
      <4> HIDE DEF b, r
      <4> QED BY <1>3, <1>4, <4>1
    <3>2. Good(shape, d)
      <4> HIDE DEF s, b
      <4> QED BY <1>4, <3>1, PutBuffer DEF GInv
    <3>3. ctl' = [d EXCEPT !.sent = id]
      <4> HIDE DEF id, b, r
      <4>1. ctl' = [ctl EXCEPT !.sent = id, !.buf[b] = s] BY <2>2 DEF GInv, Good, Controllers
      <4> HIDE DEF s
      <4> QED BY <4>1 DEF GInv, Good, Controllers
    <3> HIDE DEF d, id
    <3> QED BY <1>3, <3>2, <3>3, PutOthers
  <2> QED BY <2>1, <2>2 DEF Send
<1>6. Device' BY <1>1 DEF GInv, Device, Banks
<1> QED BY <1>1, <1>5, <1>6 DEF GInv

\* A cycle that starts from a controller c and issues what was picked.
Started(c) == c = ctl \/ c \in RefreshTick(NextCycle(ServeCompletedReads(ctl)))

CycleFrom(c, p) ==
  /\ Started(c) /\ Good(shape, c) /\ Sound(c, p) /\ (p.found => ~Interrupts(p))
  /\ std' = std /\ shape' = shape /\ bank' = Left(p)
  /\ \/ ctl' = AfterIssue(p)
     \/ \E x \in AllCommands \cup {"none"} : ctl' = [AfterIssue(p) EXCEPT !.issued = x]

LEMMA CyclesAre ==
  ASSUME GInv, Cycles
  PROVE  \E c : \E first : \E p \in Schedule(c, first) :
           CycleFrom(c, p) /\ (phase = "first" => first = "any")
<1>1. CASE TickController
  <2>1. PICK c \in RefreshTick(NextCycle(ServeCompletedReads(ctl))) :
          \E p \in Schedule(c, "any") :
            /\ OnDevice(p, std \notin Dual)
            /\ \/ ctl' = AfterIssue(p)
               \/ \E x \in SecondMayFollow(p) : ctl' = [AfterIssue(p) EXCEPT !.issued = x]
    BY <1>1 DEF TickController
  <2>2. PICK p \in Schedule(c, "any") :
          /\ OnDevice(p, std \notin Dual)
          /\ \/ ctl' = AfterIssue(p)
             \/ \E x \in SecondMayFollow(p) : ctl' = [AfterIssue(p) EXCEPT !.issued = x]
    BY <2>1
  <2>3. Good(shape, c) /\ Device BY <2>1, StartGood DEF GInv
  <2>4. Sound(c, p) /\ (p.found => ~Interrupts(p)) BY <2>2, <2>3, ScheduleSound
  <2>5. p.found \in BOOLEAN /\ p.cmd \in AllCommands \cup {"none"} BY <2>4 DEF Sound
  <2>6. SecondMayFollow(p) \subseteq AllCommands \cup {"none"} BY <2>5 DEF SecondMayFollow
  <2>7. std' = std /\ shape' = shape /\ bank' = Left(p) BY <2>2, <2>3, <2>5, OnDeviceFacts
  <2>8. CycleFrom(c, p) BY <2>1, <2>2, <2>3, <2>4, <2>6, <2>7 DEF CycleFrom, Started
  <2> QED BY <2>2, <2>8
<1>2. CASE SecondCommand
  <2>1. PICK p \in Schedule(ctl, ctl.issued) :
          OnDevice(p, TRUE) /\ ctl' = [AfterIssue(p) EXCEPT !.issued = "none"]
    BY <1>2 DEF SecondCommand
  <2>2. Good(shape, ctl) /\ Device BY DEF GInv
  <2>3. Sound(ctl, p) /\ (p.found => ~Interrupts(p)) BY <2>1, <2>2, ScheduleSound
  <2>4. p.found \in BOOLEAN BY <2>3 DEF Sound
  <2>5. std' = std /\ shape' = shape /\ bank' = Left(p)
    BY <2>1, <2>4 DEF OnDevice, IssueNow, Clock, Left
  <2>6. "none" \in AllCommands \cup {"none"} OBVIOUS
  <2>7. CycleFrom(ctl, p) BY <2>1, <2>2, <2>3, <2>5, <2>6 DEF CycleFrom, Started
  <2>8. phase # "first" BY <1>2 DEF SecondCommand
  <2> QED BY <2>1, <2>7, <2>8
<1> QED BY <1>1, <1>2 DEF Cycles

LEMMA CycleGood ==
  ASSUME GInv, NEW c, NEW p, CycleFrom(c, p)
  PROVE  /\ GInv' /\ ctl'.buf = AfterIssue(p).buf /\ ctl'.sent = AfterIssue(p).sent
         /\ ctl'.pending = AfterIssue(p).pending /\ ctl'.done = AfterIssue(p).done
         /\ ctl'.lost = AfterIssue(p).lost
<1>1. Device /\ Good(shape, c) /\ Sound(c, p) BY DEF GInv, CycleFrom
<1>2. Good(shape, AfterIssue(p)) BY <1>1, AfterIssueGood
<1>3. Device'
  <2>1. Left(p) \in [Banks -> [state : {"Closed", "PreOpened", "Opened"}, rows : SUBSET Rows]]
    BY <1>1, LeftType
  <2> QED BY <2>1, <1>1 DEF CycleFrom, Device, States, Banks
<1>4. CASE ctl' = AfterIssue(p)
  <2>1. Good(shape, ctl') BY <1>2, <1>4
  <2> QED BY <1>3, <1>4, <2>1 DEF GInv, CycleFrom
<1>5. ASSUME NEW x \in AllCommands \cup {"none"}, ctl' = [AfterIssue(p) EXCEPT !.issued = x]
      PROVE  GInv' /\ ctl'.buf = AfterIssue(p).buf /\ ctl'.sent = AfterIssue(p).sent
             /\ ctl'.pending = AfterIssue(p).pending /\ ctl'.done = AfterIssue(p).done
             /\ ctl'.lost = AfterIssue(p).lost
  <2> DEFINE e == AfterIssue(p)
  <2> HIDE DEF e
  <2>1. Good(shape, e) /\ ctl' = [e EXCEPT !.issued = x] BY <1>2, <1>5 DEF e
  <2>2. Good(shape, ctl')
    <3>1. Good(shape, [e EXCEPT !.issued = x]) BY <2>1, <1>5, PutOthers
    <3> QED BY <2>1, <3>1
  <2>3. /\ ctl'.buf = e.buf /\ ctl'.sent = e.sent /\ ctl'.pending = e.pending
        /\ ctl'.done = e.done /\ ctl'.lost = e.lost
    BY <2>1 DEF Good, Controllers
  <2>4. GInv' BY <1>3, <2>2 DEF GInv, CycleFrom
  <2> QED BY <2>3, <2>4 DEF e
<1> QED BY <1>4, <1>5 DEF CycleFrom

LEMMA NextGInv == GInv /\ [NextAll]_allvars => GInv'
<1> SUFFICES ASSUME GInv, [NextAll]_allvars PROVE GInv' OBVIOUS
<1>1. CASE \E m \in Menu[std] : Send(m) BY <1>1, SendGood
<1>2. CASE Cycles
  <2>1. PICK c, p : CycleFrom(c, p) BY <1>2, CyclesAre
  <2> QED BY <2>1, CycleGood
<1>3. CASE UNCHANGED allvars
  BY <1>3 DEF allvars, vars, GInv, Device, Banks
<1> QED BY <1>1, <1>2, <1>3 DEF NextAll

----------------------------------------------------------------------------
(* Rows are kept for those they were opened for.                           *)

LEMMA StartedFacts ==
  ASSUME GInv, NEW c, NEW p, CycleFrom(c, p)
  PROVE  /\ p.ctl.buf = c.buf /\ \A b \in Buffers \ {"priority"} : c.buf[b] = ctl.buf[b]
         /\ p.ctl.pending = c.pending /\ p.ctl.done = c.done /\ p.ctl.lost = ctl.lost
         /\ p.ctl.sent = ctl.sent /\ Good(shape, p.ctl)
         /\ (c.pending = ctl.pending /\ c.done = ctl.done)
              \/ (c.pending = ServeCompletedReads(ctl).pending /\ c.done = ServeCompletedReads(ctl).done)
<1>1. /\ p.ctl.buf = c.buf /\ p.ctl.pending = c.pending /\ p.ctl.done = c.done
      /\ p.ctl.lost = c.lost /\ p.ctl.sent = c.sent /\ Good(shape, p.ctl)
  BY ModedFacts DEF CycleFrom, Sound
<1>2. CASE c = ctl BY <1>1, <1>2
<1>3. CASE c \in RefreshTick(NextCycle(ServeCompletedReads(ctl)))
  BY <1>1, <1>3, StartGood DEF GInv
<1> QED BY <1>2, <1>3 DEF CycleFrom, Started

\* The bank a prefix of a node is below lies below the same nodes.
LEMMA BelowSame ==
  ASSUME Device, NEW path, NEW n \in 0 .. 1, NEW b \in Below(SubSeq(path, 1, n)),
         Len(SubSeq(path, 1, n)) = n
  PROVE  SubSeq(b, 1, n) = SubSeq(path, 1, n)
BY DEF Below, IsPrefix

LEMMA CycleKeepsRows ==
  ASSUME GInv, NEW c, NEW p, CycleFrom(c, p), NEW i \in DOMAIN ctl.buf["active"],
         ctl.buf["active"][i].row \in bank[ctl.buf["active"][i].path].rows,
         ctl.buf["active"][i].row \notin bank'[ctl.buf["active"][i].path].rows
  PROVE  /\ ctl'.buf["priority"] # <<>>
         /\ \A b \in Below(SubSeq(ctl.buf["active"][i].path, 1, Rules[std].all)) : bank'[b] = Closed
<1> DEFINE r == ctl.buf["active"][i]
           path == Chosen(p).path
           top == SubSeq(path, 1, Rules[std].all)
<1>1. Device /\ Good(shape, c) /\ Sound(c, p) /\ bank' = Left(p) BY DEF GInv, CycleFrom
<1>2. "active" \in Buffers \ {"priority"} BY DEF Buffers
<1>3. r \in MemoryReqs(shape) /\ r.path \in Banks
  <2>1. ctl.buf["active"] \in Seq(MemoryReqs(shape)) BY <1>2 DEF GInv, Good, Kept
  <2>2. r \in MemoryReqs(shape) BY <2>1
  <2> QED BY <2>2 DEF MemoryReqs, Banks
<1>4. p.found /\ r.path \in ClosedBy(p.cmd, path)
  <2> HIDE DEF r
  <2>1. p.found BY <1>1, <1>3, LeftType DEF r
  <2>2. ASSUME r.path \notin ClosedBy(p.cmd, path) PROVE FALSE
    <3> DEFINE old == bank[r.path]
               more(s) == [state |-> s, rows |-> old.rows \cup {Chosen(p).row}]
    <3>1. bank'[r.path] = old \/ \E s : bank'[r.path] = more(s)
      BY <1>1, <1>3, <2>1, <2>2, LeftType
    <3> HIDE DEF old
    <3>2. \A s : more(s).rows = old.rows \cup {Chosen(p).row} OBVIOUS
    <3> HIDE DEF more
    <3>3. old.rows \subseteq bank'[r.path].rows BY <3>1, <3>2
    <3>4. r.row \in old.rows /\ r.row \notin bank'[r.path].rows BY DEF r, old
    <3> QED BY <3>3, <3>4
  <2> QED BY <2>1, <2>2
<1>5. p.cmd \in AllCommands /\ (p.from = "priority" <=> p.cmd \in {"REFab", "PREA"})
  BY <1>1, <1>4, ChosenFacts
<1>6. Rules[std].closes = {"PRE", "RDA", "WRA"} /\ Rules[std].all \in 0 .. 1
  BY <1>1, SystemFacts, RulesFacts DEF RulesTable
<1>7. CASE p.cmd \in Rules[std].closes
  <2>1. p.cmd = "PRE" BY <1>5, <1>6, <1>7 DEF AllCommands, MemoryCommands
  <2>2. ClosedBy(p.cmd, path) = {path} BY <1>7, <2>1 DEF ClosedBy
  <2>3. r.path = path BY <1>4, <2>2
  <2>4. p.ctl.buf["active"] = ctl.buf["active"] BY <1>2, StartedFacts
  <2>5. Interrupts(p) BY <2>1, <2>3, <2>4 DEF Interrupts, Chosen
  <2> QED BY <1>4, <2>5 DEF CycleFrom
<1>8. CASE p.cmd = "PREA"
  <2>1. p.from = "priority" /\ p.at \in 1 .. Len(p.ctl.buf["priority"]) BY <1>1, <1>4, <1>5, <1>8, ChosenFacts
  <2>2. AfterIssue(p) = p.ctl BY <1>1, <1>8, AfterIssueGood
  <2>3. ctl'.buf = p.ctl.buf BY <2>2, CycleGood
  <2>4. ctl'.buf["priority"] # <<>> BY <2>1, <2>3
  <2>5. ClosedBy(p.cmd, path) = Below(top) BY <1>6, <1>8 DEF ClosedBy
  <2>6. ASSUME NEW b \in Below(top) PROVE bank'[b] = Closed
    <3>1. b \in Banks BY DEF Below
    <3>2. b \in ClosedBy(p.cmd, path) BY <2>5
    <3> HIDE DEF path, top
    <3>3. Left(p)[b] = Closed BY <1>1, <1>4, <3>1, <3>2, LeftType DEF path
    <3> QED BY <1>1, <3>3
  <2>7. SubSeq(r.path, 1, Rules[std].all) = top
    <3>1. Chosen(p) \in RefreshReqs(shape) BY <1>1, <1>4, <2>1, ChosenFacts DEF Kept
    <3>2. PICK k \in 0 .. shape[1] - 1 : path = <<k>> BY <3>1 DEF RefreshReqs, RefreshRequest
    <3>3. Len(top) = Rules[std].all
      <4> DEFINE n == Rules[std].all
      <4>1. n \in 0 .. 1 BY <1>6
      <4> HIDE DEF n
      <4>2. Len(SubSeq(<<k>>, 1, n)) = n BY <4>1
      <4> QED BY <3>2, <4>2 DEF n
    <3> QED BY <1>1, <1>4, <1>6, <2>5, <3>3, BelowSame
  <2> QED BY <2>4, <2>6, <2>7
<1> QED BY <1>4, <1>7, <1>8 DEF ClosedBy

\* RowsKept: whatever the scheduler picks, by either controller and in either
\* write mode, the row that was opened for an active request is closed by a
\* refresh only, and then with all rows of its rank.
THEOREM RowsKept == ControllerSpec => RowKept
<1> DEFINE Step ==
      \A i \in DOMAIN ctl.buf["active"] :
        LET r == ctl.buf["active"][i]
        IN  r.row \in bank[r.path].rows /\ r.row \notin bank'[r.path].rows =>
              /\ ctl'.buf["priority"] # <<>>
              /\ \A b \in Below(SubSeq(r.path, 1, Rules[std].all)) : bank'[b] = Closed
<1>1. GInv /\ [NextAll]_allvars => [Step]_allvars
  <2> SUFFICES ASSUME GInv, NextAll PROVE Step OBVIOUS
  <2>1. CASE \E m \in Menu[std] : Send(m)
    <3>1. bank' = bank BY <2>1, SendGood
    <3> QED BY <3>1
  <2>2. CASE Cycles
    <3>1. PICK c, p : CycleFrom(c, p) BY <2>2, CyclesAre
    <3> QED BY <3>1, CycleKeepsRows
  <2> QED BY <2>1, <2>2 DEF NextAll
<1> QED BY <1>1, InitGInv, NextGInv, PTL DEF ControllerSpec, RowKept

----------------------------------------------------------------------------
(* The places a request may be in, and the ids found there.                *)

Places == {"active", "read", "write", "pending"}

Line(c, b) == IF b = "pending" THEN c.pending ELSE c.buf[b]

Ids(c) == [b \in Places |-> [i \in DOMAIN Line(c, b) |-> Line(c, b)[i].id]]

Gone(c) == c.done \cup c.lost

Whole(c) == /\ Gone(c) \subseteq 1 .. c.sent
            /\ Split(Places, Ids(c), c.sent, Gone(c))

Lined(c) ==
  \A b \in Places : Len(Line(c, b)) \in Nat /\ DOMAIN Line(c, b) = 1 .. Len(Line(c, b))

LEMMA LineFacts ==
  ASSUME NEW sh, NEW c, Good(sh, c)
  PROVE  /\ Lined(c)
         /\ \A b \in Places \ {"pending"} :
              b \in Buffers /\ c.buf[b] \in Seq(MemoryReqs(sh)) /\ Line(c, b) = c.buf[b]
         /\ c.pending \in Seq(Departures) /\ Line(c, "pending") = c.pending
<1>1. ASSUME NEW b \in Places \ {"pending"}
      PROVE  b \in Buffers /\ c.buf[b] \in Seq(MemoryReqs(sh)) /\ Line(c, b) = c.buf[b]
  <2>1. b \in Buffers /\ b # "priority" /\ b # "pending" BY DEF Places, Buffers
  <2> QED BY <2>1 DEF Line, Good, Kept
<1>2. c.pending \in Seq(Departures) /\ Line(c, "pending") = c.pending
  BY DEF Good, Controllers, Line
<1>3. ASSUME NEW b \in Places
      PROVE  Len(Line(c, b)) \in Nat /\ DOMAIN Line(c, b) = 1 .. Len(Line(c, b))
  <2>1. CASE b = "pending" BY <1>2, <2>1
  <2>2. CASE b # "pending" BY <1>1, <2>2
  <2> QED BY <2>1, <2>2
<1> QED BY <1>1, <1>2, <1>3 DEF Lined

LEMMA IdFacts ==
  ASSUME NEW c, Lined(c), NEW b \in Places
  PROVE  /\ DOMAIN Ids(c)[b] = 1 .. Len(Line(c, b))
         /\ \A i \in 1 .. Len(Line(c, b)) : Ids(c)[b][i] = Line(c, b)[i].id
<1>1. Ids(c)[b] = [i \in DOMAIN Line(c, b) |-> Line(c, b)[i].id] BY DEF Ids
<1> QED BY <1>1 DEF Lined

\* Nothing that matters here has changed.
LEMMA SameWhole ==
  ASSUME NEW c, NEW e, Whole(c), \A b \in Places : Line(e, b) = Line(c, b),
         e.sent = c.sent, Gone(e) = Gone(c)
  PROVE  Whole(e)
<1>1. Ids(e) = Ids(c) BY DEF Ids
<1> QED BY <1>1 DEF Whole

\* The ids of t are those of s without the k-th; those of s and x.
Shorter(s, t, k) ==
  /\ k \in 1 .. Len(s) /\ Len(t) = Len(s) - 1
  /\ \A i \in 1 .. Len(s) - 1 : t[i].id = IF i < k THEN s[i].id ELSE s[i + 1].id

LongerBy(s, t, x) ==
  /\ Len(t) = Len(s) + 1
  /\ \A i \in 1 .. Len(s) : t[i].id = s[i].id
  /\ t[Len(s) + 1].id = x

SameBut(c, e, a) == \A b \in Places \ {a} : Line(e, b) = Line(c, b)

LEMMA LessLine ==
  ASSUME NEW c, Lined(c), NEW e, Lined(e), NEW a \in Places, NEW k,
         Shorter(Line(c, a), Line(e, a), k), SameBut(c, e, a)
  PROVE  Less(Places, Ids(c), Ids(e), a, k) /\ Ids(c)[a][k] = Line(c, a)[k].id
<1> DEFINE len == Len(Line(c, a))
           s == Line(c, a)
           t == Line(e, a)
<1>1. len \in Nat /\ k \in 1 .. len /\ Len(t) = len - 1 BY DEF Shorter, Lined
<1>2. DOMAIN Ids(c)[a] = 1 .. len /\ \A i \in 1 .. len : Ids(c)[a][i] = s[i].id BY IdFacts
<1>3. DOMAIN Ids(e)[a] = 1 .. len - 1 /\ \A i \in 1 .. len - 1 : Ids(e)[a][i] = t[i].id
  BY <1>1, IdFacts
<1>4. \A i \in 1 .. len - 1 : t[i].id = IF i < k THEN s[i].id ELSE s[i + 1].id BY DEF Shorter
<1>5. ASSUME NEW b \in Places \ {a} PROVE Ids(e)[b] = Ids(c)[b] BY DEF Ids, SameBut
<1> HIDE DEF len, s, t
<1>6. ASSUME NEW i \in 1 .. len - 1
      PROVE  Ids(e)[a][i] = Ids(c)[a][IF i < k THEN i ELSE i + 1]
  <2>1. i \in 1 .. len /\ i + 1 \in 1 .. len BY <1>1
  <2> QED BY <1>2, <1>3, <1>4, <2>1
<1>7. Less(Places, Ids(c), Ids(e), a, k) BY <1>1, <1>2, <1>3, <1>5, <1>6 DEF Less
<1> QED BY <1>1, <1>2, <1>7 DEF s

LEMMA MoreLine ==
  ASSUME NEW c, Lined(c), NEW e, Lined(e), NEW a \in Places, NEW x,
         LongerBy(Line(c, a), Line(e, a), x), SameBut(c, e, a)
  PROVE  More(Places, Ids(c), Ids(e), a, x)
<1> DEFINE len == Len(Line(c, a))
           s == Line(c, a)
           t == Line(e, a)
<1>1. len \in Nat /\ Len(t) = len + 1 BY DEF LongerBy, Lined
<1>2. DOMAIN Ids(c)[a] = 1 .. len /\ \A i \in 1 .. len : Ids(c)[a][i] = s[i].id BY IdFacts
<1>3. DOMAIN Ids(e)[a] = 1 .. len + 1 /\ \A i \in 1 .. len + 1 : Ids(e)[a][i] = t[i].id
  BY <1>1, IdFacts
<1>4. (\A i \in 1 .. len : t[i].id = s[i].id) /\ t[len + 1].id = x BY DEF LongerBy
<1>5. ASSUME NEW b \in Places \ {a} PROVE Ids(e)[b] = Ids(c)[b] BY DEF Ids, SameBut
<1> HIDE DEF len, s, t
<1>6. ASSUME NEW i \in 1 .. len PROVE Ids(e)[a][i] = Ids(c)[a][i]
  <2>1. i \in 1 .. len + 1 BY <1>1
  <2> QED BY <1>2, <1>3, <1>4, <2>1
<1>7. Ids(e)[a][len + 1] = x
  <2>1. len + 1 \in 1 .. len + 1 BY <1>1
  <2> QED BY <1>3, <1>4, <2>1
<1> QED BY <1>1, <1>2, <1>3, <1>5, <1>6, <1>7 DEF More

\* A request is over, or lost; a request is new; one moves to the end of a line.
LEMMA WholeLess ==
  ASSUME NEW c, Lined(c), NEW e, Lined(e), NEW a \in Places, NEW k, Whole(c),
         Shorter(Line(c, a), Line(e, a), k), SameBut(c, e, a), e.sent = c.sent,
         Gone(e) = Gone(c) \cup {Line(c, a)[k].id}
  PROVE  Whole(e)
<1> DEFINE x == Line(c, a)[k].id
<1>1. Less(Places, Ids(c), Ids(e), a, k) /\ Ids(c)[a][k] = x BY LessLine
<1>2. Split(Places, Ids(c), c.sent, Gone(c)) /\ Gone(c) \subseteq 1 .. c.sent BY DEF Whole
<1>3. /\ Split(Places, Ids(e), c.sent, Gone(c) \cup {Ids(c)[a][k]})
      /\ Ids(c)[a][k] \in (1 .. c.sent) \ Gone(c)
  BY <1>1, <1>2, SplitTakenOut
<1>4. Gone(e) = Gone(c) \cup {x} OBVIOUS
<1> HIDE DEF x
<1> QED BY <1>1, <1>2, <1>3, <1>4 DEF Whole

LEMMA WholeMore ==
  ASSUME NEW c, Lined(c), NEW e, Lined(e), NEW a \in Places, Whole(c), c.sent \in Nat,
         LongerBy(Line(c, a), Line(e, a), c.sent + 1), SameBut(c, e, a), e.sent = c.sent + 1,
         Gone(e) = Gone(c)
  PROVE  Whole(e)
<1>1. More(Places, Ids(c), Ids(e), a, c.sent + 1) BY MoreLine
<1>2. Split(Places, Ids(c), c.sent, Gone(c)) /\ Gone(c) \in SUBSET (1 .. c.sent) BY DEF Whole
<1>3. Split(Places, Ids(e), c.sent + 1, Gone(c)) BY <1>1, <1>2, SplitAdded
<1>4. 1 .. c.sent \subseteq 1 .. c.sent + 1 OBVIOUS
<1> QED BY <1>2, <1>3, <1>4 DEF Whole

LEMMA WholeMoved ==
  ASSUME NEW c, Lined(c), NEW d, Lined(d), NEW e, Lined(e), Whole(c),
         NEW a \in Places, NEW b \in Places, NEW k,
         Shorter(Line(c, a), Line(d, a), k), SameBut(c, d, a),
         LongerBy(Line(d, b), Line(e, b), Line(c, a)[k].id), SameBut(d, e, b),
         e.sent = c.sent, Gone(e) = Gone(c)
  PROVE  Whole(e)
<1> DEFINE x == Line(c, a)[k].id
<1>1. Less(Places, Ids(c), Ids(d), a, k) /\ Ids(c)[a][k] = x BY LessLine
<1>2. More(Places, Ids(d), Ids(e), b, x) BY MoreLine
<1>3. Split(Places, Ids(c), c.sent, Gone(c)) /\ Gone(c) \subseteq 1 .. c.sent BY DEF Whole
<1> HIDE DEF x
<1>4. More(Places, Ids(d), Ids(e), b, Ids(c)[a][k]) BY <1>1, <1>2
<1>5. Split(Places, Ids(e), c.sent, Gone(c)) BY <1>1, <1>3, <1>4, SplitMoved
<1> QED BY <1>3, <1>5 DEF Whole

----------------------------------------------------------------------------
(* Every step keeps the accepted requests in their places.                 *)

\* The beginning of a cycle: a read may depart.
LEMMA StartedWhole ==
  ASSUME GInv, Whole(ctl), NEW c, NEW p, CycleFrom(c, p)
  PROVE  Whole(p.ctl)
<1> DEFINE d == p.ctl
<1>1. /\ d.buf = c.buf /\ \A b \in Buffers \ {"priority"} : c.buf[b] = ctl.buf[b]
      /\ d.pending = c.pending /\ d.done = c.done /\ d.lost = ctl.lost
      /\ d.sent = ctl.sent /\ Good(shape, d)
      /\ (c.pending = ctl.pending /\ c.done = ctl.done)
           \/ (c.pending = ServeCompletedReads(ctl).pending /\ c.done = ServeCompletedReads(ctl).done)
  BY StartedFacts
<1>2. Good(shape, ctl) /\ Lined(ctl) /\ Lined(d) BY <1>1, LineFacts DEF GInv
<1>3. \A b \in Places \ {"pending"} : Line(d, b) = ctl.buf[b] /\ Line(ctl, b) = ctl.buf[b]
  BY <1>1 DEF Places, Line, Buffers
<1>4. Line(d, "pending") = c.pending /\ Line(ctl, "pending") = ctl.pending /\ "pending" \in Places
  BY <1>1 DEF Line, Places
<1> HIDE DEF d
<1>5. /\ Aged(ctl) \in Seq(Departures) /\ Len(Aged(ctl)) = Len(ctl.pending)
      /\ \A i \in 1 .. Len(ctl.pending) : Aged(ctl)[i].id = ctl.pending[i].id
  BY <1>2, AgedFacts
<1>6. CASE c.pending = ctl.pending /\ c.done = ctl.done
  <2>1. \A b \in Places : Line(d, b) = Line(ctl, b) BY <1>3, <1>4, <1>6
  <2>2. Gone(d) = Gone(ctl) BY <1>1, <1>6 DEF Gone
  <2>3. Whole(d) BY <1>1, <2>1, <2>2, SameWhole
  <2> QED BY <2>3 DEF d
<1>7. CASE c.pending = Aged(ctl) /\ c.done = ctl.done
  <2>1. Gone(d) = Gone(ctl) BY <1>1, <1>7 DEF Gone
  <2>2. Ids(d)["pending"] = Ids(ctl)["pending"]
    <3>1. DOMAIN Aged(ctl) = DOMAIN ctl.pending BY DEF Aged
    <3>2. DOMAIN ctl.pending = 1 .. Len(ctl.pending) BY <1>2, <1>4 DEF Lined
    <3>3. [i \in DOMAIN Aged(ctl) |-> Aged(ctl)[i].id] = [i \in DOMAIN ctl.pending |-> ctl.pending[i].id]
      BY <1>5, <3>1, <3>2
    <3> QED BY <1>4, <1>7, <3>3 DEF Ids
  <2>3. \A b \in Places \ {"pending"} : Ids(d)[b] = Ids(ctl)[b] BY <1>3 DEF Ids
  <2>4. Ids(d) = Ids(ctl) BY <2>2, <2>3 DEF Ids
  <2>5. Whole(d) BY <1>1, <2>1, <2>4 DEF Whole
  <2> QED BY <2>5 DEF d
<1>8. CASE Aged(ctl) # <<>> /\ c.pending = Tail(Aged(ctl)) /\ c.done = ctl.done \cup {Aged(ctl)[1].id}
  <2> DEFINE s == ctl.pending
             t == c.pending
  <2>1. /\ Len(s) \in Nat /\ Len(s) >= 1 /\ Len(t) = Len(s) - 1
        /\ \A i \in 1 .. Len(s) - 1 : t[i] = Aged(ctl)[i + 1]
    BY <1>5, <1>8
  <2>2. \A i \in 1 .. Len(s) - 1 : i + 1 \in 1 .. Len(s) /\ ~(i < 1) BY <2>1
  <2>3. Shorter(s, t, 1) BY <1>5, <2>1, <2>2 DEF Shorter
  <2>4. Aged(ctl)[1].id = s[1].id BY <1>5, <2>1
  <2>5. Gone(d) = Gone(ctl) \cup {Line(ctl, "pending")[1].id}
    BY <1>1, <1>4, <1>8, <2>4 DEF Gone
  <2>6. Shorter(Line(ctl, "pending"), Line(d, "pending"), 1) BY <1>4, <2>3
  <2>7. SameBut(ctl, d, "pending") BY <1>3 DEF SameBut
  <2>8. Whole(d) BY <1>1, <1>2, <1>4, <2>5, <2>6, <2>7, WholeLess
  <2> QED BY <2>8 DEF d
<1> QED BY <1>1, <1>2, <1>6, <1>7, <1>8, ServeGood

\* A request that is taken out of its buffer.
LEMMA RemovedShorter ==
  ASSUME NEW sh, NEW c, Good(sh, c), NEW p, p.from \in Buffers \ {"priority"},
         p.at \in 1 .. Len(c.buf[p.from])
  PROVE  /\ p.from \in Places /\ p.from # "pending"
         /\ Shorter(Line(c, p.from), Line(Removed(c, p), p.from), p.at)
         /\ SameBut(c, Removed(c, p), p.from)
         /\ Line(c, p.from) = c.buf[p.from]
<1>1. p.from \in Places \ {"pending"} /\ p.from \in Buffers BY DEF Places, Buffers
<1>2. /\ Good(sh, Removed(c, p)) /\ Removed(c, p).pending = c.pending
      /\ \A b \in Buffers : Removed(c, p).buf[b] =
           IF b = p.from THEN RemoveAt(c.buf[b], p.at) ELSE c.buf[b]
  BY <1>1, RemovedGood
<1>3. Line(c, p.from) = c.buf[p.from] BY <1>1, LineFacts
<1>4. Line(Removed(c, p), p.from) = RemoveAt(c.buf[p.from], p.at)
  BY <1>1, <1>2 DEF Line
<1>5. c.buf[p.from] \in Seq(MemoryReqs(sh)) BY <1>1, LineFacts
<1>6. Shorter(Line(c, p.from), Line(Removed(c, p), p.from), p.at)
  <2> DEFINE s == c.buf[p.from]
             k == p.at
             t == RemoveAt(s, k)
  <2>1. k \in 1 .. Len(s) /\ s \in Seq(MemoryReqs(sh)) BY <1>5
  <2> HIDE DEF s, k
  <2>2. /\ Len(t) = Len(s) - 1
        /\ \A i \in 1 .. Len(s) - 1 : t[i] = IF i < k THEN s[i] ELSE s[i + 1]
    BY <2>1, RemoveAtFacts
  <2> HIDE DEF t
  <2>3. Shorter(s, t, k) BY <2>1, <2>2 DEF Shorter
  <2> QED BY <1>3, <1>4, <2>3 DEF s, k, t
<1>7. SameBut(c, Removed(c, p), p.from)
  <2>1. ASSUME NEW b \in Places \ {p.from} PROVE Line(Removed(c, p), b) = Line(c, b)
    <3>1. CASE b = "pending" BY <1>2, <3>1 DEF Line
    <3>2. CASE b # "pending"
      <4>1. b \in Buffers BY <3>2 DEF Places, Buffers
      <4> QED BY <1>2, <2>1, <3>2, <4>1 DEF Line
    <3> QED BY <3>1, <3>2
  <2> QED BY <2>1 DEF SameBut
<1> QED BY <1>1, <1>3, <1>6, <1>7

\* Taking out commutes with putting at the end.
LEMMA RemoveAtAppend ==
  ASSUME NEW S, NEW s \in Seq(S), NEW x \in S, NEW k \in 1 .. Len(s)
  PROVE  /\ Len(RemoveAt(s, k)) = Len(s) - 1
         /\ Len(RemoveAt(Append(s, x), k)) = Len(s)
         /\ \A i \in 1 .. Len(s) - 1 : RemoveAt(Append(s, x), k)[i] = RemoveAt(s, k)[i]
         /\ RemoveAt(Append(s, x), k)[Len(s)] = x
<1> DEFINE t == Append(s, x)
<1>1. /\ t \in Seq(S) /\ Len(t) = Len(s) + 1 /\ t[Len(s) + 1] = x
      /\ \A i \in 1 .. Len(s) : t[i] = s[i]
  OBVIOUS
<1>2. Len(s) \in Nat /\ k \in 1 .. Len(t) BY <1>1
<1>3. /\ Len(RemoveAt(s, k)) = Len(s) - 1
      /\ \A i \in 1 .. Len(s) - 1 : RemoveAt(s, k)[i] = IF i < k THEN s[i] ELSE s[i + 1]
  BY RemoveAtFacts
<1> HIDE DEF t
<1>4. /\ Len(RemoveAt(t, k)) = Len(t) - 1
      /\ \A i \in 1 .. Len(t) - 1 : RemoveAt(t, k)[i] = IF i < k THEN t[i] ELSE t[i + 1]
  BY <1>1, <1>2, RemoveAtFacts
<1>5. ASSUME NEW i \in 1 .. Len(s) - 1 PROVE RemoveAt(t, k)[i] = RemoveAt(s, k)[i]
  <2>1. i \in 1 .. Len(t) - 1 /\ i \in 1 .. Len(s) /\ i + 1 \in 1 .. Len(s) BY <1>1, <1>2
  <2> QED BY <1>1, <1>3, <1>4, <2>1
<1>6. RemoveAt(t, k)[Len(s)] = x
  <2>1. Len(s) \in 1 .. Len(t) - 1 /\ ~(Len(s) < k) BY <1>1, <1>2
  <2> QED BY <1>1, <1>4, <2>1
<1>7. Len(RemoveAt(t, k)) = Len(s) BY <1>1, <1>2, <1>4
<1> QED BY <1>3, <1>5, <1>6, <1>7 DEF t

LEMMA AfterIssueWhole ==
  ASSUME Device, NEW c, Good(shape, c), NEW p, Sound(c, p), Whole(p.ctl)
  PROVE  Whole(AfterIssue(p))
<1> DEFINE d == p.ctl
           r == Chosen(p)
           e == AfterIssue(p)
<1>1. Good(shape, d) /\ Good(shape, e) /\ e.sent = d.sent
  BY ModedFacts, AfterIssueGood DEF Sound
<1>2. Lined(d) /\ Lined(e) BY <1>1, LineFacts
<1>3. CASE Finishes(p)
  <2>1. p.found BY <1>3, FinishesWhich
  <2>2. /\ p.from \in Buffers /\ p.at \in 1 .. Len(d.buf[p.from]) /\ r \in Kept(shape, p.from)
        /\ p.from # "priority" => r \in MemoryReqs(shape)
    BY <2>1, ChosenFacts
  <2>3. r \in Reqs(shape) BY <2>2 DEF Kept, Reqs
  <2> DEFINE f == Finish(d, r)
  <2>4. e = Removed(f, p) BY <1>3 DEF AfterIssue
  <2> HIDE DEF d, r, e
  <2>5. /\ Good(shape, f) /\ f.buf = d.buf /\ f.lost = d.lost /\ f.sent = d.sent
        /\ Finished(d, r, f)
    BY <1>1, <2>3, FinishGood
  <2> HIDE DEF f
  <2>6. p.at \in 1 .. Len(f.buf[p.from]) BY <2>2, <2>5
  <2>7. /\ e.pending = f.pending /\ e.done = f.done /\ e.lost = f.lost
        /\ \A b \in Buffers : e.buf[b] = IF b = p.from THEN RemoveAt(f.buf[b], p.at) ELSE f.buf[b]
    BY <2>2, <2>4, <2>5, <2>6, RemovedGood
  <2>8. CASE p.from = "priority"
    <3>1. r.type = "Refresh" BY <2>2, <2>8 DEF Kept, RefreshReqs, RefreshRequest
    <3>2. e.pending = d.pending /\ e.done = d.done /\ e.lost = d.lost
      BY <2>5, <2>7, <3>1 DEF Finished
    <3>3. ASSUME NEW b \in Places PROVE Line(e, b) = Line(d, b)
      <4>1. CASE b = "pending" BY <3>2, <4>1 DEF Line
      <4>2. CASE b # "pending"
        <5>1. b \in Buffers /\ b # p.from BY <2>8, <4>2 DEF Places, Buffers
        <5> QED BY <2>5, <2>7, <4>2, <5>1 DEF Line
      <4> QED BY <4>1, <4>2
    <3>4. Gone(e) = Gone(d) BY <3>2 DEF Gone
    <3>5. Whole(d) BY DEF d
    <3>6. Whole(e) BY <1>1, <3>3, <3>4, <3>5, SameWhole
    <3> QED BY <3>6 DEF e
  <2>9. CASE p.from # "priority"
    <3> DEFINE m == Removed(d, p)
               a == p.from
    <3>1. a \in Buffers \ {"priority"} /\ p.at \in 1 .. Len(d.buf[a]) BY <2>2, <2>9
    <3>2. /\ a \in Places /\ a # "pending" /\ Shorter(Line(d, a), Line(m, a), p.at)
          /\ SameBut(d, m, a) /\ Line(d, a) = d.buf[a]
      BY <1>1, <3>1, RemovedShorter
    <3>3. /\ Good(shape, m) /\ m.pending = d.pending
          /\ \A b \in Buffers : m.buf[b] = IF b = a THEN RemoveAt(d.buf[b], p.at) ELSE d.buf[b]
      BY <1>1, <3>1, RemovedGood
    <3> HIDE DEF m
    <3>4. Lined(m) BY <3>3, LineFacts
    <3>5. ASSUME NEW b \in Places \ {"pending"} PROVE Line(e, b) = Line(m, b)
      <4>1. b \in Buffers BY DEF Places, Buffers
      <4> QED BY <2>5, <2>7, <3>3, <4>1 DEF Line
    <3>6. r = Line(d, a)[p.at] BY <3>2 DEF r, d, Chosen
    <3>7. r.type \in {"Read", "Write"} BY <2>2, <2>9 DEF MemoryReqs
    <3>8. CASE r.type = "Read"
      <4>1. /\ e.pending = Append(d.pending, [id |-> r.id, wait |-> ReadLatency])
            /\ e.done = d.done /\ e.lost = d.lost
        BY <2>5, <2>7, <3>8 DEF Finished
      <4>2. Line(e, "pending") = Append(d.pending, [id |-> r.id, wait |-> ReadLatency])
        BY <4>1 DEF Line
      <4>3. Line(m, "pending") = d.pending /\ d.pending \in Seq(Departures)
        BY <1>1, <3>3, LineFacts DEF Line
      <4>4. [id |-> r.id, wait |-> ReadLatency] \in Departures
        BY <2>2, <2>9, GenericControllerAssumption DEF Departures, MemoryReqs
      <4>5. LongerBy(Line(m, "pending"), Line(e, "pending"), r.id)
        <5> DEFINE x == [id |-> r.id, wait |-> ReadLatency]
        <5>1. x \in Departures /\ x.id = r.id BY <4>4
        <5> HIDE DEF x
        <5>2. LongerBy(d.pending, Append(d.pending, x), r.id) BY <4>3, <5>1 DEF LongerBy
        <5> QED BY <4>2, <4>3, <5>2 DEF x
      <4>6. SameBut(m, e, "pending") BY <3>5 DEF SameBut
      <4>7. Gone(e) = Gone(d) BY <4>1 DEF Gone
      <4>8. "pending" \in Places /\ Whole(d) BY DEF Places, d
      <4>9. LongerBy(Line(m, "pending"), Line(e, "pending"), Line(d, a)[p.at].id) BY <3>6, <4>5
      <4> HIDE DEF a
      <4>10. Whole(e) BY <1>1, <1>2, <3>2, <3>4, <4>6, <4>7, <4>8, <4>9, WholeMoved DEF d, e
      <4> QED BY <4>10 DEF e
    <3>9. CASE r.type = "Write"
      <4>1. e.pending = d.pending /\ e.done = d.done \cup {r.id} /\ e.lost = d.lost
        BY <2>5, <2>7, <3>9 DEF Finished
      <4>2. Line(e, "pending") = Line(m, "pending") BY <3>3, <4>1 DEF Line
      <4>3. \A b \in Places : Line(e, b) = Line(m, b) BY <3>5, <4>2
      <4>4. Gone(e) = Gone(d) \cup {Line(d, a)[p.at].id} BY <3>6, <4>1 DEF Gone
      <4>5. Shorter(Line(d, a), Line(e, a), p.at) /\ SameBut(d, e, a)
        BY <3>2, <4>3 DEF SameBut
      <4> HIDE DEF a
      <4>6. Whole(d) BY DEF d
      <4>7. Whole(e) BY <1>1, <1>2, <3>2, <4>4, <4>5, <4>6, WholeLess DEF d, e
      <4> QED BY <4>7 DEF e
    <3> QED BY <3>7, <3>8, <3>9
  <2> QED BY <2>8, <2>9
<1>4. CASE ~Finishes(p) /\ Activates(p)
  <2>1. p.found /\ p.cmd = "ACT" BY <1>4 DEF Activates
  <2>2. /\ p.from \in Buffers \ {"priority"} /\ p.at \in 1 .. Len(d.buf[p.from])
        /\ r \in MemoryReqs(shape)
    BY <2>1, ChosenFacts
  <2> DEFINE f == Activate(d, r)
             a == p.from
             m == Removed(d, p)
  <2>3. e = Removed(f, p) BY <1>4 DEF AfterIssue
  <2>4. r = d.buf[a][p.at] BY DEF Chosen
  <2>5. Whole(d) OBVIOUS
  <2> HIDE DEF d, r, e
  <2>6. /\ Good(shape, f) /\ f.sent = d.sent /\ f.pending = d.pending /\ f.done = d.done
        /\ Len(d.buf["active"]) <= BufSize =>
             /\ f.lost = d.lost
             /\ \A b \in Buffers : f.buf[b] = IF b = "active" THEN Append(d.buf[b], r) ELSE d.buf[b]
        /\ ~(Len(d.buf["active"]) <= BufSize) => f.lost = d.lost \cup {r.id} /\ f.buf = d.buf
    BY <1>1, <2>2, ActivateGood
  <2>7. p.at \in 1 .. Len(f.buf[a]) BY <1>1, <2>2, ActivateKeepsPlace
  <2> HIDE DEF f
  <2>8. /\ e.pending = d.pending /\ e.done = d.done /\ e.lost = f.lost
        /\ \A b \in Buffers : e.buf[b] = IF b = a THEN RemoveAt(f.buf[b], p.at) ELSE f.buf[b]
    BY <2>2, <2>3, <2>6, <2>7, RemovedGood
  <2>9. /\ a \in Places /\ a # "pending" /\ Shorter(Line(d, a), Line(m, a), p.at)
        /\ SameBut(d, m, a) /\ Line(d, a) = d.buf[a]
    BY <1>1, <2>2, RemovedShorter
  <2>10. /\ Good(shape, m) /\ m.pending = d.pending
         /\ \A b \in Buffers : m.buf[b] = IF b = a THEN RemoveAt(d.buf[b], p.at) ELSE d.buf[b]
    BY <1>1, <2>2, RemovedGood
  <2> HIDE DEF m
  <2>11. Lined(m) BY <2>10, LineFacts
  <2>12. CASE ~(Len(d.buf["active"]) <= BufSize)
    <3>1. ASSUME NEW b \in Places PROVE Line(e, b) = Line(m, b)
      <4>1. CASE b = "pending" BY <2>8, <2>10, <4>1 DEF Line
      <4>2. CASE b # "pending"
        <5>1. b \in Buffers BY <4>2 DEF Places, Buffers
        <5> QED BY <2>6, <2>8, <2>10, <2>12, <4>2, <5>1 DEF Line
      <4> QED BY <4>1, <4>2
    <3>2. Gone(e) = Gone(d) \cup {Line(d, a)[p.at].id} BY <2>4, <2>6, <2>8, <2>9, <2>12 DEF Gone
    <3>3. Shorter(Line(d, a), Line(e, a), p.at) /\ SameBut(d, e, a) BY <2>9, <3>1 DEF SameBut
    <3> HIDE DEF a
    <3>4. Whole(e) BY <1>1, <1>2, <2>5, <2>9, <3>2, <3>3, WholeLess DEF d, e
    <3> QED BY <3>4 DEF e
  <2>13. CASE Len(d.buf["active"]) <= BufSize
    <3>1. ASSUME NEW b \in Places \ {"active"} PROVE Line(e, b) = Line(m, b)
      <4>1. CASE b = "pending" BY <2>8, <2>10, <4>1 DEF Line
      <4>2. CASE b # "pending"
        <5>1. b \in Buffers BY <4>2 DEF Places, Buffers
        <5>2. f.buf[b] = d.buf[b] BY <2>6, <2>13, <5>1
        <5> QED BY <2>8, <2>10, <4>2, <5>1, <5>2 DEF Line
      <4> QED BY <4>1, <4>2
    <3>2. "active" \in Places /\ "active" \in Buffers BY DEF Places, Buffers
    <3>3. d.buf["active"] \in Seq(MemoryReqs(shape)) BY <1>1, <3>2 DEF Good, Kept
    <3>4. f.buf["active"] = Append(d.buf["active"], r) BY <2>6, <2>13, <3>2
    <3>5. LongerBy(Line(m, "active"), Line(e, "active"), r.id)
      <4> DEFINE s == d.buf["active"]
                 k == p.at
      <4>1. CASE a = "active"
        <5>1. Line(m, "active") = RemoveAt(s, k) /\ Line(e, "active") = RemoveAt(Append(s, r), k)
          BY <2>8, <2>10, <3>2, <3>4, <4>1 DEF Line
        <5>2. k \in 1 .. Len(s) /\ s \in Seq(MemoryReqs(shape)) BY <2>2, <3>3, <4>1
        <5> HIDE DEF s, k
        <5>3. /\ Len(RemoveAt(s, k)) = Len(s) - 1
              /\ Len(RemoveAt(Append(s, r), k)) = Len(s)
              /\ \A i \in 1 .. Len(s) - 1 : RemoveAt(Append(s, r), k)[i] = RemoveAt(s, k)[i]
              /\ RemoveAt(Append(s, r), k)[Len(s)] = r
          BY <2>2, <5>2, RemoveAtAppend
        <5>4. Len(s) \in Nat BY <5>2
        <5>5. LongerBy(RemoveAt(s, k), RemoveAt(Append(s, r), k), r.id)
          BY <5>3, <5>4 DEF LongerBy
        <5> QED BY <5>1, <5>5
      <4>2. CASE a # "active"
        <5>1. Line(m, "active") = s /\ Line(e, "active") = Append(s, r)
          BY <2>8, <2>10, <3>2, <3>4, <4>2 DEF Line
        <5>2. LongerBy(s, Append(s, r), r.id) BY <2>2, <3>3 DEF LongerBy
        <5> QED BY <5>1, <5>2
      <4> QED BY <4>1, <4>2
    <3>6. LongerBy(Line(m, "active"), Line(e, "active"), Line(d, a)[p.at].id)
      BY <2>4, <2>9, <3>5
    <3>7. SameBut(m, e, "active") BY <3>1 DEF SameBut
    <3>8. Gone(e) = Gone(d) BY <2>6, <2>8, <2>13 DEF Gone
    <3> HIDE DEF a
    <3>9. Whole(e)
      BY <1>1, <1>2, <2>5, <2>9, <2>11, <3>2, <3>6, <3>7, <3>8, WholeMoved DEF d, e
    <3> QED BY <3>9 DEF e
  <2> QED BY <2>12, <2>13
<1>5. CASE ~Finishes(p) /\ ~Activates(p) BY <1>5 DEF AfterIssue
<1> QED BY <1>3, <1>4, <1>5

LEMMA SendWhole ==
  ASSUME GInv, Whole(ctl), NEW m \in Menu[std], Send(m)
  PROVE  Whole(ctl') /\ ctl'.lost = ctl.lost
<1> DEFINE id == ctl.sent + 1
           r == [id |-> id, type |-> m.type, path |-> m.path, row |-> m.row, col |-> m.col,
                 arrive |-> ctl.cycle]
           x == [id |-> id, wait |-> 1]
           b == BufferOf(m)
           e == ctl'
<1>1. Good(shape, ctl) /\ ctl.sent \in Nat BY DEF GInv, Good, Controllers
<1>2. Good(shape, e)
  <2>1. GInv' /\ shape' = shape BY SendGood
  <2> QED BY <2>1 DEF GInv
<1>3. Lined(ctl) /\ Lined(e) BY <1>1, <1>2, LineFacts
<1>4. b \in Places /\ b \in Buffers /\ b # "pending" BY DEF BufferOf, Places, Buffers
<1>5. CASE ctl' = [ctl EXCEPT !.sent = id, !.pending = Append(@, x)]
  <2> HIDE DEF x, id
  <2>1. /\ e.sent = id /\ e.pending = Append(ctl.pending, x) /\ e.buf = ctl.buf
        /\ e.done = ctl.done /\ e.lost = ctl.lost
    BY <1>1, <1>5 DEF Good, Controllers
  <2>2. x.id = id /\ id = ctl.sent + 1 BY DEF x, id
  <2>3. Line(ctl, "pending") = ctl.pending /\ Line(e, "pending") = Append(ctl.pending, x)
    BY <2>1 DEF Line
  <2>4. ctl.pending \in Seq(Departures) BY <1>1, LineFacts
  <2>5. LongerBy(Line(ctl, "pending"), Line(e, "pending"), ctl.sent + 1)
    BY <2>2, <2>3, <2>4 DEF LongerBy
  <2>6. SameBut(ctl, e, "pending") BY <2>1 DEF SameBut, Line
  <2>7. Gone(e) = Gone(ctl) /\ "pending" \in Places BY <2>1 DEF Gone, Places
  <2>8. Whole(e) BY <1>1, <1>3, <2>1, <2>2, <2>5, <2>6, <2>7, WholeMore
  <2> QED BY <2>1, <2>8
<1>6. CASE ctl' = [ctl EXCEPT !.sent = id, !.buf[b] = Append(@, r)]
  <2>1. r.id = id /\ id = ctl.sent + 1 OBVIOUS
  <2> HIDE DEF r, id, b
  <2> DEFINE s == Append(ctl.buf[b], r)
  <2>2. ctl' = [ctl EXCEPT !.sent = id, !.buf[b] = s] BY <1>6 DEF Good, Controllers
  <2>3. s = Append(ctl.buf[b], r) OBVIOUS
  <2> HIDE DEF s
  <2>4. /\ e.sent = id /\ e.pending = ctl.pending /\ e.done = ctl.done /\ e.lost = ctl.lost
        /\ \A a \in Buffers : e.buf[a] = IF a = b THEN s ELSE ctl.buf[a]
    BY <1>1, <1>4, <2>2 DEF Good, Controllers
  <2>5. Line(ctl, b) = ctl.buf[b] /\ Line(e, b) = s BY <1>4, <2>4 DEF Line
  <2>6. ctl.buf[b] \in Seq(MemoryReqs(shape)) BY <1>1, <1>4, LineFacts
  <2>7. LongerBy(Line(ctl, b), Line(e, b), ctl.sent + 1)
    BY <2>1, <2>3, <2>5, <2>6 DEF LongerBy
  <2>8. SameBut(ctl, e, b)
    <3>1. ASSUME NEW a \in Places \ {b} PROVE Line(e, a) = Line(ctl, a)
      <4>1. CASE a = "pending" BY <2>4, <4>1 DEF Line
      <4>2. CASE a # "pending"
        <5>1. a \in Buffers BY <4>2 DEF Places, Buffers
        <5> QED BY <2>4, <4>2, <5>1 DEF Line
      <4> QED BY <4>1, <4>2
    <3> QED BY <3>1 DEF SameBut
  <2>9. Gone(e) = Gone(ctl) BY <2>4 DEF Gone
  <2>10. Whole(e) BY <1>1, <1>3, <1>4, <2>1, <2>4, <2>7, <2>8, <2>9, WholeMore
  <2> QED BY <2>4, <2>10
<1> QED BY <1>5, <1>6 DEF Send

LEMMA CycleWhole ==
  ASSUME GInv, Whole(ctl), NEW c, NEW p, CycleFrom(c, p)
  PROVE  Whole(ctl')
<1>1. Whole(p.ctl) BY StartedWhole
<1>2. Device /\ Good(shape, c) /\ Sound(c, p) BY DEF GInv, CycleFrom
<1>3. Whole(AfterIssue(p)) BY <1>1, <1>2, AfterIssueWhole
<1>4. /\ ctl'.buf = AfterIssue(p).buf /\ ctl'.sent = AfterIssue(p).sent
      /\ ctl'.pending = AfterIssue(p).pending /\ ctl'.done = AfterIssue(p).done
      /\ ctl'.lost = AfterIssue(p).lost
  BY CycleGood
<1>5. Gone(ctl') = Gone(AfterIssue(p)) /\ \A b \in Places : Line(ctl', b) = Line(AfterIssue(p), b)
  BY <1>4 DEF Gone, Line
<1> QED BY <1>3, <1>4, <1>5, SameWhole

LEMMA InitWhole == InitAll => Whole(ctl)
<1> SUFFICES ASSUME InitAll PROVE Whole(ctl) OBVIOUS
<1>1. ctl = InitController BY DEF InitAll
<1>2. /\ ctl.sent = 0 /\ ctl.done = {} /\ ctl.lost = {} /\ ctl.pending = <<>>
      /\ ctl.buf = [b \in Buffers |-> <<>>]
  BY <1>1 DEF InitController
<1>3. ASSUME NEW b \in Places PROVE DOMAIN Ids(ctl)[b] = {}
  <2>1. Line(ctl, b) = <<>> BY <1>2 DEF Line, Places, Buffers
  <2>2. DOMAIN Ids(ctl)[b] = DOMAIN Line(ctl, b) BY DEF Ids
  <2> QED BY <2>1, <2>2
<1>4. Gone(ctl) = {} BY <1>2 DEF Gone
<1>5. Split(Places, Ids(ctl), 0, {}) BY <1>3 DEF Split
<1> QED BY <1>2, <1>4, <1>5 DEF Whole

\* Every accepted request is in one place, or over, or was lost.
LEMMA AlwaysWhole == ControllerSpec => [](GInv /\ Whole(ctl))
<1>1. InitAll => GInv /\ Whole(ctl) BY InitGInv, InitWhole
<1>2. GInv /\ Whole(ctl) /\ [NextAll]_allvars => (GInv /\ Whole(ctl))'
  <2> SUFFICES ASSUME GInv, Whole(ctl), [NextAll]_allvars PROVE (GInv /\ Whole(ctl))'
    OBVIOUS
  <2>1. GInv' BY NextGInv
  <2>2. CASE \E m \in Menu[std] : Send(m) BY <2>1, <2>2, SendWhole
  <2>3. CASE Cycles
    <3>1. PICK c, p : CycleFrom(c, p) BY <2>3, CyclesAre
    <3> QED BY <2>1, <3>1, CycleWhole
  <2>4. CASE UNCHANGED allvars BY <2>1, <2>4 DEF allvars
  <2> QED BY <2>2, <2>3, <2>4 DEF NextAll
<1> QED BY <1>1, <1>2, PTL DEF ControllerSpec

\* Where there is one at most, their number is 0 or 1.
LEMMA CountOne ==
  ASSUME NEW S, \A i, j \in S : i = j
  PROVE  Cardinality(S) = IF S = {} THEN 0 ELSE 1
<1>1. CASE S = {} BY <1>1, FS_EmptySet
<1>2. CASE S # {}
  <2>1. PICK x \in S : TRUE BY <1>2
  <2>2. S = {x} BY <2>1
  <2> QED BY <1>2, <2>2, FS_Singleton
<1> QED BY <1>1, <1>2

LEMMA WholeIsOnePlace ==
  ASSUME GInv, Whole(ctl), ctl.lost = {}
  PROVE  OnePlace
<1> SUFFICES ASSUME NEW id \in 1 .. ctl.sent
             PROVE  InBuffer("active", id) + InBuffer("read", id) + InBuffer("write", id)
                      + InPending(id) = IF id \in ctl.done THEN 0 ELSE 1
  BY DEF OnePlace
<1> DEFINE At(b) == { i \in DOMAIN Line(ctl, b) : Line(ctl, b)[i].id = id }
           n(b) == IF At(b) = {} THEN 0 ELSE 1
<1>1. Good(shape, ctl) /\ Lined(ctl) BY LineFacts DEF GInv
<1>2. Gone(ctl) = ctl.done BY DEF Gone
<1>3. /\ \A b, d \in Places : \A i \in DOMAIN Ids(ctl)[b], j \in DOMAIN Ids(ctl)[d] :
           Ids(ctl)[b][i] = Ids(ctl)[d][j] => b = d /\ i = j
      /\ \A b \in Places : \A i \in DOMAIN Ids(ctl)[b] : Ids(ctl)[b][i] \notin ctl.done
      /\ id \in ctl.done \/ \E b \in Places : \E i \in DOMAIN Ids(ctl)[b] : Ids(ctl)[b][i] = id
  BY <1>2 DEF Whole, Split
<1>4. ASSUME NEW b \in Places
      PROVE  \A i : i \in At(b) <=> i \in DOMAIN Ids(ctl)[b] /\ Ids(ctl)[b][i] = id
  BY <1>1, IdFacts DEF Lined
<1> HIDE DEF At
<1>5. ASSUME NEW b \in Places PROVE Cardinality(At(b)) = n(b)
  <2>1. \A i, j \in At(b) : i = j BY <1>3, <1>4
  <2> QED BY <2>1, CountOne
<1>6. id \in ctl.done => \A b \in Places : At(b) = {} BY <1>3, <1>4
<1>7. id \notin ctl.done => \E b \in Places : At(b) # {} /\ \A d \in Places \ {b} : At(d) = {}
  <2> SUFFICES ASSUME id \notin ctl.done
               PROVE  \E b \in Places : At(b) # {} /\ \A d \in Places \ {b} : At(d) = {}
    OBVIOUS
  <2>1. PICK b \in Places : \E i \in DOMAIN Ids(ctl)[b] : Ids(ctl)[b][i] = id BY <1>3
  <2>2. PICK i \in DOMAIN Ids(ctl)[b] : Ids(ctl)[b][i] = id BY <2>1
  <2>3. i \in At(b) BY <1>4, <2>2
  <2>4. ASSUME NEW d \in Places \ {b}, NEW j \in At(d) PROVE FALSE BY <1>3, <1>4, <2>2, <2>4
  <2> QED BY <2>3, <2>4
<1>8. n("active") + n("read") + n("write") + n("pending") = IF id \in ctl.done THEN 0 ELSE 1
  BY <1>6, <1>7 DEF Places
<1>9. /\ InBuffer("active", id) = Cardinality(At("active"))
      /\ InBuffer("read", id) = Cardinality(At("read"))
      /\ InBuffer("write", id) = Cardinality(At("write"))
      /\ InPending(id) = Cardinality(At("pending"))
  BY DEF InBuffer, InPending, At, Line
<1> QED BY <1>5, <1>8, <1>9 DEF Places

\* OnePlaceKept: as long as the active buffer has refused no request, every
\* accepted request is in one buffer and once, or over, in all standards, by
\* either controller and whatever a cycle's two commands are.
THEOREM OnePlaceKept == ControllerSpec => [](ctl.lost = {} => OnePlace)
<1>1. GInv /\ Whole(ctl) => (ctl.lost = {} => OnePlace) BY WholeIsOnePlace
<1> QED BY <1>1, AlwaysWhole, PTL

----------------------------------------------------------------------------
(* With one command a cycle, no two active requests are of one bank.       *)

\* The requests of a buffer are of different banks.
Apart(s) == \A i, j \in 1 .. Len(s) : i # j => s[i].path # s[j].path

\* A bank that has an active request is not opened for another one.
LEMMA OpenedForActive ==
  ASSUME Device, NEW c, Good(shape, c), NEW p \in Schedule(c, "any"), p.found, p.cmd = "ACT",
         p.from # "active", NEW i \in 1 .. Len(c.buf["active"]),
         c.buf["active"][i].path = Chosen(p).path
  PROVE  FALSE
<1> DEFINE queue == c.buf["active"]
           path == Chosen(p).path
<1>1. Sound(c, p) BY ScheduleSound
<1>2. CheckReady("ACT", path) /\ CommandFor(Chosen(p)) = "ACT" BY <1>1 DEF Sound
<1>3. Chosen(p) \in MemoryReqs(shape) BY <1>1, ChosenFacts
<1>4. bank[path].state = "Closed" BY <1>2, <1>3, MemoryCommand
<1>5. queue \in Seq(MemoryReqs(shape)) BY DEF Good, Kept, Buffers
<1>6. queue[i] \in MemoryReqs(shape) /\ queue[i].path = path BY <1>5
<1> HIDE DEF queue, path
<1>7. IsReady(queue[i])
  <2>1. CommandFor(queue[i]) = "ACT" BY <1>4, <1>6, MemoryCommand
  <2> QED BY <1>2, <1>6, <2>1 DEF IsReady
<1>8. Takes(queue, queue[i])
  <2>1. ASSUME NEW j \in DOMAIN queue, IsHit(queue[j]), queue[j].path = queue[i].path
        PROVE  FALSE
    <3>1. queue[j] \in MemoryReqs(shape) /\ queue[j].path = path BY <1>5, <1>6, <2>1
    <3>2. CommandFor(queue[j]) = "ACT" BY <1>4, <3>1, MemoryCommand
    <3> QED BY <2>1, <3>2 DEF IsHit
  <2> QED BY <2>1 DEF Takes
<1>9. queue # <<>> /\ i \in 1 .. Len(queue) BY <1>5 DEF queue
<1>10. IsReady(queue[Best(queue)]) BY <1>5, <1>7, <1>8, <1>9, BestFacts
<1> DEFINE a == Pick(c, "active", Best(queue), "any")
<1>11. a.found
  <2>1. a.found = (Differs("any", CommandFor(queue[Best(queue)]))
                     /\ CheckReady(CommandFor(queue[Best(queue)]), queue[Best(queue)].path))
    BY DEF Pick, queue
  <2> QED BY <1>10, <2>1 DEF Differs, IsReady
<1>12. PickBest(c, "active", "any") = {a} BY <1>9 DEF PickBest, queue
<1>13. a.from = "active" BY DEF Pick
<1> HIDE DEF a
<1>14. Schedule(c, "any") = { [pick EXCEPT !.found = @ /\ ~Interrupts(pick)] : pick \in {a} }
  <2>1. UNION { IF active.found THEN {active} ELSE PickUrgent(c, "any") :
                  active \in PickBest(c, "active", "any") } = {a}
    BY <1>11, <1>12
  <2> QED BY <2>1 DEF Schedule
<1>15. p = [a EXCEPT !.found = @ /\ ~Interrupts(a)] BY <1>14
<1>16. p.from = a.from BY <1>15
<1> QED BY <1>13, <1>16

LEMMA ApartRemoved ==
  ASSUME NEW sh, NEW s \in Seq(MemoryReqs(sh)), NEW k \in 1 .. Len(s), Apart(s)
  PROVE  /\ Apart(RemoveAt(s, k)) /\ RemoveAt(s, k) \in Seq(MemoryReqs(sh))
         /\ \A i \in 1 .. Len(RemoveAt(s, k)) : RemoveAt(s, k)[i].path # s[k].path
<1> DEFINE t == RemoveAt(s, k)
           at(i) == IF i < k THEN i ELSE i + 1
<1>1. /\ t \in Seq(MemoryReqs(sh)) /\ Len(t) = Len(s) - 1
      /\ \A i \in 1 .. Len(s) - 1 : t[i] = IF i < k THEN s[i] ELSE s[i + 1]
  BY RemoveAtFacts
<1>2. ASSUME NEW i \in 1 .. Len(t)
      PROVE  at(i) \in 1 .. Len(s) /\ at(i) # k /\ t[i] = s[at(i)]
  BY <1>1
<1>3. \A i, j \in 1 .. Len(t) : i # j => at(i) # at(j) BY <1>1
<1> HIDE DEF t, at
<1>4. Apart(t) BY <1>2, <1>3 DEF Apart
<1>5. \A i \in 1 .. Len(t) : t[i].path # s[k].path BY <1>2 DEF Apart
<1> QED BY <1>1, <1>4, <1>5 DEF t

LEMMA ApartAppended ==
  ASSUME NEW sh, NEW s \in Seq(MemoryReqs(sh)), NEW r \in MemoryReqs(sh), Apart(s),
         \A i \in 1 .. Len(s) : s[i].path # r.path
  PROVE  Apart(Append(s, r))
<1> DEFINE t == Append(s, r)
<1>1. /\ Len(t) = Len(s) + 1 /\ Len(s) \in Nat /\ t[Len(s) + 1] = r
      /\ \A i \in 1 .. Len(s) : t[i] = s[i]
  OBVIOUS
<1> HIDE DEF t
<1>2. ASSUME NEW i \in 1 .. Len(t), NEW j \in 1 .. Len(t), i # j PROVE t[i].path # t[j].path
  <2>1. CASE i \in 1 .. Len(s) /\ j \in 1 .. Len(s) BY <1>1, <1>2, <2>1 DEF Apart
  <2>2. CASE i = Len(s) + 1 /\ j \in 1 .. Len(s) BY <1>1, <2>2
  <2>3. CASE j = Len(s) + 1 /\ i \in 1 .. Len(s) BY <1>1, <2>3
  <2> QED BY <1>1, <1>2, <2>1, <2>2, <2>3
<1>3. Apart(t) BY <1>2 DEF Apart
<1> QED BY <1>3 DEF t

\* So there are not more of them than banks.
LEMMA ApartFits ==
  ASSUME NEW sh, NEW s \in Seq(MemoryReqs(sh)), Apart(s), IsFiniteSet(BanksOf[sh])
  PROVE  Len(s) <= Cardinality(BanksOf[sh])
<1> DEFINE B == BanksOf[sh]
           f == [i \in 1 .. Len(s) |-> s[i].path]
<1>1. \A i \in 1 .. Len(s) : s[i].path \in B
  <2>1. \A i \in 1 .. Len(s) : s[i] \in MemoryReqs(sh) OBVIOUS
  <2> QED BY <2>1 DEF MemoryReqs
<1> HIDE DEF B
<1>2. f \in [1 .. Len(s) -> B] BY <1>1
<1>3. \A i, j \in 1 .. Len(s) : f[i] = f[j] => i = j BY DEF Apart
<1>4. f \in Injection(1 .. Len(s), B)
  <2> HIDE DEF f
  <2> QED BY <1>2, <1>3 DEF Injection, IsInjective
<1>5. Cardinality(1 .. Len(s)) <= Cardinality(B) BY <1>4, FS_Injection DEF B
<1>6. Cardinality(1 .. Len(s)) = Len(s)
  <2> DEFINE n == Len(s)
  <2>1. n \in Nat /\ n \in Int /\ 1 \in Int OBVIOUS
  <2> HIDE DEF n
  <2>2. Cardinality(1 .. n) = IF 1 > n THEN 0 ELSE n - 1 + 1 BY <2>1, FS_Interval
  <2>3. Cardinality(1 .. n) = n BY <2>1, <2>2
  <2> QED BY <2>3 DEF n
<1> QED BY <1>5, <1>6 DEF B

\* A device has finitely many banks.
LEMMA BanksFinite ==
  ASSUME NEW sh \in Shapes
  PROVE  IsFiniteSet(BanksOf[sh])
<1> DEFINE D == 0 .. 1
           Q == (D \X D) \X (D \X D)
           at(q, i) == IF i = 1 THEN q[1][1] ELSE IF i = 2 THEN q[1][2]
                       ELSE IF i = 3 THEN q[2][1] ELSE q[2][2]
           n == Len(sh)
           F == [1 .. n -> D]
           f == [q \in Q |-> [i \in 1 .. n |-> at(q, i)]]
<1>1. IsFiniteSet(D)
  <2>1. 0 \in Int /\ 1 \in Int OBVIOUS
  <2> QED BY <2>1, FS_Interval
<1>2. IsFiniteSet(Q) BY <1>1, FS_Product
<1>3. n \in 2 .. 4
  <2>1. PICK o \in Organizations : sh = o[2] BY DEF Shapes
  <2> QED BY <2>1, ShapeFacts
<1>4. f \in [Q -> F]
  <2>1. ASSUME NEW q \in Q, NEW i \in 1 .. n PROVE at(q, i) \in D OBVIOUS
  <2> HIDE DEF at, Q, D
  <2> QED BY <2>1
<1>5. ASSUME NEW g \in F PROVE \E q \in Q : f[q] = g
  <2> DEFINE q == <<<<g[1], g[2]>>, <<IF 3 <= n THEN g[3] ELSE 0, IF 4 <= n THEN g[4] ELSE 0>>>>
  <2>1. n \in 2 .. 4 /\ g \in [1 .. n -> D] /\ 0 \in D BY <1>3
  <2> HIDE DEF n, D
  <2>4. g[1] \in D /\ g[2] \in D /\ (3 <= n => g[3] \in D) /\ (4 <= n => g[4] \in D) BY <2>1
  <2>5. q \in Q BY <2>1, <2>4
  <2>6. q[1][1] = g[1] /\ q[1][2] = g[2] /\ (3 <= n => q[2][1] = g[3]) /\ (4 <= n => q[2][2] = g[4])
    OBVIOUS
  <2> HIDE DEF q
  <2>2. ASSUME NEW i \in 1 .. n PROVE at(q, i) = g[i]
    <3>1. i = 1 \/ i = 2 \/ (i = 3 /\ 3 <= n) \/ (i = 4 /\ 4 <= n) BY <2>1
    <3> QED BY <2>6, <3>1
  <2> HIDE DEF at, Q
  <2>3. [i \in 1 .. n |-> at(q, i)] = g BY <2>1, <2>2
  <2> QED BY <2>3, <2>5
<1> HIDE DEF Q, F, f, D, n
<1>6. f \in Surjection(Q, F) BY <1>4, <1>5 DEF Surjection
<1>7. IsFiniteSet(F) BY <1>2, <1>6, FS_Surjection
<1>8. BanksOf[sh] \subseteq F
  <2>1. ASSUME NEW b \in BanksOf[sh] PROVE b \in F
    <3>1. b \in PathsTo(sh) /\ Len(b) = Len(sh) BY NodeFacts
    <3>2. PICK k \in 0 .. Len(sh) : b \in [1 .. k -> 0 .. 1] BY <3>1 DEF PathsTo
    <3>3. k \in Nat BY <1>3, <3>2 DEF n
    <3>4. Len(b) = k BY <3>2, <3>3
    <3> QED BY <3>1, <3>2, <3>4 DEF F, D, n
  <2> QED BY <2>1
<1> QED BY <1>7, <1>8, FS_Subset

\* A controller that issues one command a cycle has lost nothing.
Paced(c) == Apart(c.buf["active"]) /\ c.lost = {}

LEMMA AfterIssuePaced ==
  ASSUME Device, NEW c, Good(shape, c), NEW p \in Schedule(c, "any"), Paced(p.ctl),
         Cardinality(BanksOf[shape]) <= BufSize
  PROVE  Paced(AfterIssue(p))
<1> DEFINE d == p.ctl
           r == Chosen(p)
           e == AfterIssue(p)
           s == d.buf["active"]
<1>1. Sound(c, p) BY ScheduleSound
<1>2. Good(shape, d) /\ d.buf = c.buf BY <1>1, ModedFacts DEF Sound
<1>3. "active" \in Buffers /\ s \in Seq(MemoryReqs(shape)) BY <1>2, LineFacts DEF Places, Buffers
<1>4. Len(s) <= BufSize
  <2>1. IsFiniteSet(BanksOf[shape]) BY SystemFacts, BanksFinite
  <2>2. Len(s) <= Cardinality(BanksOf[shape]) BY <1>3, <2>1, ApartFits DEF Paced
  <2>3. Cardinality(BanksOf[shape]) \in Nat BY <2>1, FS_CardinalityType
  <2> HIDE DEF s
  <2>4. Len(s) \in Nat BY <1>3
  <2> QED BY <2>2, <2>3, <2>4, GenericControllerAssumption
<1>5. CASE Finishes(p)
  <2>1. p.found BY <1>5, <1>1, FinishesWhich
  <2>2. p.from \in Buffers /\ p.at \in 1 .. Len(d.buf[p.from]) /\ r \in Reqs(shape)
    BY <1>1, <2>1, ChosenFacts DEF Kept, Reqs
  <2> DEFINE f == Finish(d, r)
  <2>3. e = Removed(f, p) BY <1>5 DEF AfterIssue
  <2> HIDE DEF d, r, e
  <2>4. Good(shape, f) /\ f.buf = d.buf /\ f.lost = d.lost BY <1>2, <2>2, FinishGood
  <2> HIDE DEF f
  <2>5. p.at \in 1 .. Len(f.buf[p.from]) BY <2>2, <2>4
  <2>6. /\ e.lost = f.lost
        /\ e.buf["active"] = IF "active" = p.from THEN RemoveAt(f.buf["active"], p.at)
                             ELSE f.buf["active"]
    BY <1>3, <2>2, <2>3, <2>4, <2>5, RemovedGood
  <2>7. Apart(e.buf["active"])
    <3>1. CASE p.from = "active"
      <4>1. e.buf["active"] = RemoveAt(s, p.at) /\ p.at \in 1 .. Len(s)
        BY <2>2, <2>4, <2>6, <3>1
      <4> QED BY <1>3, <4>1, ApartRemoved DEF Paced, d
    <3>2. CASE p.from # "active" BY <2>4, <2>6, <3>2 DEF Paced, d
    <3> QED BY <3>1, <3>2
  <2> QED BY <2>4, <2>6, <2>7 DEF Paced, d, e
<1>6. CASE ~Finishes(p) /\ Activates(p)
  <2>1. p.found /\ p.cmd = "ACT" BY <1>6 DEF Activates
  <2>2. /\ p.from \in Buffers /\ p.at \in 1 .. Len(d.buf[p.from])
        /\ r \in MemoryReqs(shape)
    BY <1>1, <2>1, ChosenFacts
  <2> DEFINE f == Activate(d, r)
  <2>3. e = Removed(f, p) BY <1>6 DEF AfterIssue
  <2>4. r = d.buf[p.from][p.at] BY DEF Chosen
  <2>5. p.from # "active" => \A i \in 1 .. Len(s) : s[i].path # r.path
    BY <1>2, <2>1, OpenedForActive
  <2>6. Paced(d) OBVIOUS
  <2> HIDE DEF d, r, e
  <2>7. /\ Good(shape, f)
        /\ f.lost = d.lost
        /\ \A b \in Buffers : f.buf[b] = IF b = "active" THEN Append(d.buf[b], r) ELSE d.buf[b]
    BY <1>2, <1>4, <2>2, ActivateGood
  <2>8. p.at \in 1 .. Len(f.buf[p.from]) BY <1>2, <2>2, ActivateKeepsPlace
  <2> HIDE DEF f
  <2>9. /\ e.lost = f.lost
        /\ e.buf["active"] = IF "active" = p.from THEN RemoveAt(f.buf["active"], p.at)
                             ELSE f.buf["active"]
    BY <1>3, <2>2, <2>3, <2>7, <2>8, RemovedGood
  <2>10. f.buf["active"] = Append(s, r) BY <1>3, <2>7
  <2> HIDE DEF s
  <2>11. CASE p.from # "active"
    <3>1. e.buf["active"] = Append(s, r) BY <2>9, <2>10, <2>11
    <3>2. Apart(Append(s, r)) BY <1>3, <2>2, <2>5, <2>6, <2>11, ApartAppended DEF Paced, s
    <3> QED BY <2>6, <2>7, <2>9, <3>1, <3>2 DEF Paced, e
  <2>12. CASE p.from = "active"
    <3> DEFINE k == p.at
               t == RemoveAt(s, k)
               u == RemoveAt(Append(s, r), k)
    <3>1. k \in 1 .. Len(s) /\ r = s[k] BY <2>2, <2>4, <2>12 DEF s
    <3>2. e.buf["active"] = u BY <2>9, <2>10, <2>12
    <3> HIDE DEF k
    <3>3. /\ Len(t) = Len(s) - 1 /\ Len(u) = Len(s)
          /\ \A i \in 1 .. Len(s) - 1 : u[i] = t[i]
          /\ u[Len(s)] = r
      BY <1>3, <2>2, <3>1, RemoveAtAppend
    <3>4. /\ Apart(t) /\ t \in Seq(MemoryReqs(shape))
          /\ \A i \in 1 .. Len(t) : t[i].path # r.path
      BY <1>3, <2>6, <3>1, ApartRemoved DEF Paced, s
    <3>5. Len(s) \in Nat BY <1>3
    <3> HIDE DEF t, u
    <3>6. Apart(u)
      <4> SUFFICES ASSUME NEW i \in 1 .. Len(u), NEW j \in 1 .. Len(u), i # j
                   PROVE  u[i].path # u[j].path
        BY DEF Apart
      <4>1. CASE i \in 1 .. Len(t) /\ j \in 1 .. Len(t)
        BY <3>3, <3>4, <3>5, <4>1 DEF Apart
      <4>2. CASE i = Len(s) /\ j \in 1 .. Len(t) BY <3>3, <3>4, <3>5, <4>2
      <4>3. CASE j = Len(s) /\ i \in 1 .. Len(t) BY <3>3, <3>4, <3>5, <4>3
      <4> QED BY <3>3, <3>5, <4>1, <4>2, <4>3
    <3> QED BY <2>6, <2>7, <2>9, <3>2, <3>6 DEF Paced, e
  <2> QED BY <2>11, <2>12
<1>7. CASE ~Finishes(p) /\ ~Activates(p) BY <1>7 DEF AfterIssue
<1> QED BY <1>5, <1>6, <1>7

PInv == GInv /\ Whole(ctl) /\ (std \notin Dual => phase = "first" /\ Paced(ctl))

\* NoneRefused: with one command a cycle, and an active buffer that could hold
\* one request of every bank, no request is ever refused: every accepted request
\* is in one place until it is over.
THEOREM NoneRefused ==
  ASSUME \A sh \in Shapes : Cardinality(BanksOf[sh]) <= BufSize
  PROVE  ControllerSpec => [](std \notin Dual => OnePlace)
<1>1. InitAll => PInv
  <2> SUFFICES ASSUME InitAll PROVE PInv OBVIOUS
  <2>1. GInv /\ Whole(ctl) BY InitGInv, InitWhole
  <2>2. phase = "first" /\ ctl = InitController BY DEF InitAll
  <2>3. ctl.lost = {} /\ ctl.buf["active"] = <<>> BY <2>2 DEF InitController, Buffers
  <2>4. Apart(ctl.buf["active"]) BY <2>3 DEF Apart
  <2> QED BY <2>1, <2>2, <2>3, <2>4 DEF PInv, Paced
<1>2. PInv /\ [NextAll]_allvars => PInv'
  <2> SUFFICES ASSUME PInv, [NextAll]_allvars PROVE PInv' OBVIOUS
  <2>1. GInv /\ Whole(ctl) /\ (std \notin Dual => phase = "first" /\ Paced(ctl)) BY DEF PInv
  <2>2. GInv' BY <2>1, NextGInv
  <2>3. CASE \E m \in Menu[std] : Send(m)
    <3>1. PICK m \in Menu[std] : Send(m) BY <2>3
    <3>2. Whole(ctl') /\ ctl'.lost = ctl.lost BY <2>1, <3>1, SendWhole
    <3>3. phase' = phase /\ std' = std BY <3>1 DEF Send, vars
    <3>4. ctl'.buf["active"] = ctl.buf["active"]
      <4> DEFINE b == BufferOf(m)
      <4>1. b # "active" /\ b \in Buffers BY DEF BufferOf, Buffers
      <4>2. \/ \E n, s : ctl' = [ctl EXCEPT !.sent = n, !.pending = s]
            \/ \E n, s : ctl' = [ctl EXCEPT !.sent = n, !.buf[b] = s]
        <5> HIDE DEF b
        <5> QED BY <3>1, Zenon DEF Send, b
      <4> HIDE DEF b
      <4>3. ctl \in Controllers(shape) BY <2>1 DEF GInv, Good
      <4>4. CASE \E n, s : ctl' = [ctl EXCEPT !.sent = n, !.pending = s]
        BY <4>3, <4>4 DEF Controllers
      <4>5. CASE \E n, s : ctl' = [ctl EXCEPT !.sent = n, !.buf[b] = s]
        <5>1. "active" \in Buffers BY DEF Buffers
        <5> QED BY <4>1, <4>3, <4>5, <5>1 DEF Controllers
      <4> QED BY <4>2, <4>4, <4>5
    <3> QED BY <2>1, <2>2, <3>2, <3>3, <3>4 DEF PInv, Paced
  <2>4. CASE Cycles
    <3>1. PICK c, first : \E p \in Schedule(c, first) :
            CycleFrom(c, p) /\ (phase = "first" => first = "any")
      BY <2>1, <2>4, CyclesAre
    <3>2. PICK p \in Schedule(c, first) : CycleFrom(c, p) /\ (phase = "first" => first = "any")
      BY <3>1
    <3>3. Whole(ctl') BY <2>1, <3>2, CycleWhole
    <3>4. std' = std BY <3>2 DEF CycleFrom
    <3>5. ASSUME std \notin Dual PROVE phase' = "first" /\ Paced(ctl')
      <4>1. phase = "first" /\ Paced(ctl) /\ first = "any" BY <2>1, <3>2, <3>5
      <4>2. phase' = "first"
        BY <2>4, <3>5, <4>1 DEF Cycles, TickController, SecondCommand
      <4>3. Device /\ Good(shape, c) BY <2>1, <3>2 DEF GInv, CycleFrom
      <4>4. Cardinality(BanksOf[shape]) <= BufSize BY <4>3, SystemFacts
      <4>5. Paced(p.ctl)
        <5>1. p.ctl.buf = c.buf /\ p.ctl.lost = ctl.lost
              /\ \A b \in Buffers \ {"priority"} : c.buf[b] = ctl.buf[b]
          BY <2>1, <3>2, StartedFacts
        <5> QED BY <4>1, <5>1 DEF Paced, Buffers
      <4>6. Paced(AfterIssue(p)) BY <3>2, <4>1, <4>3, <4>4, <4>5, AfterIssuePaced
      <4>7. ctl'.buf = AfterIssue(p).buf /\ ctl'.lost = AfterIssue(p).lost
        BY <2>1, <3>2, CycleGood
      <4> QED BY <4>2, <4>6, <4>7 DEF Paced
    <3> QED BY <2>2, <3>3, <3>4, <3>5 DEF PInv
  <2>5. CASE UNCHANGED allvars
    BY <2>1, <2>2, <2>5 DEF allvars, vars, PInv
  <2> QED BY <2>3, <2>4, <2>5 DEF NextAll
<1>3. PInv => (std \notin Dual => OnePlace) BY WholeIsOnePlace DEF PInv, Paced
<1> QED BY <1>1, <1>2, <1>3, PTL DEF ControllerSpec
=============================================================================

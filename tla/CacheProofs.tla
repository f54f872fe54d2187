----------------------------- MODULE CacheProofs -----------------------------
(***************************************************************************)
(* The cache of the SimpleO3 processor and the cores that wait for it, for *)
(* any number of cores, lines, ways and miss-status entries, any traces    *)
(* and latencies, and whatever the memory takes and answers.  The number   *)
(* of sets is one that tells lines apart by set and tag: every power of    *)
(* two does, and three sets do not.                                        *)
(***************************************************************************)
EXTENDS SimpleO3Properties, ProofLemmas, FiniteSetTheorems

----------------------------------------------------------------------------
(* The lines of one set, and the instructions of one window.               *)

Entries == [addr : Lines, dirty : BOOLEAN, ready : BOOLEAN]

\* The instructions of a window.
Slots == [addr : Lines \cup {None}, ready : BOOLEAN]

\* The set names line a once, and as being fetched if that is what is said.
Tracks(set, a, fetching) ==
  /\ \A i, j \in 1 .. Len(set) : set[i].addr = a /\ set[j].addr = a => i = j
  /\ fetching <=> \E i \in 1 .. Len(set) : set[i].addr = a /\ ~set[i].ready

\* What a set is made of.
LEMMA SetFacts ==
  ASSUME NEW set \in Seq(Entries)
  PROVE  /\ Len(set) \in Nat /\ DOMAIN set = 1 .. Len(set)
         /\ \A i \in 1 .. Len(set) : /\ set[i] \in Entries
                                     /\ set[i].addr \in Lines /\ set[i].ready \in BOOLEAN
<1>1. Len(set) \in Nat /\ DOMAIN set = 1 .. Len(set) OBVIOUS
<1>2. ASSUME NEW i \in 1 .. Len(set)
      PROVE  set[i] \in Entries /\ set[i].addr \in Lines /\ set[i].ready \in BOOLEAN
  <2>1. set[i] \in Entries OBVIOUS
  <2> QED BY <2>1 DEF Entries
<1> QED BY <1>1, <1>2

\* Changing what is dirty.
LEMMA DirtyTracks ==
  ASSUME NEW set \in Seq(Entries), NEW new \in Seq(Entries), Len(new) = Len(set),
         \A i \in 1 .. Len(set) : new[i].addr = set[i].addr /\ new[i].ready = set[i].ready,
         NEW a, NEW m, Tracks(set, a, m)
  PROVE  Tracks(new, a, m)
BY DEF Tracks

\* Taking out a line that is not being fetched.
LEMMA EvictTracks ==
  ASSUME NEW set \in Seq(Entries), NEW k \in 1 .. Len(set), set[k].ready,
         NEW a, NEW m \in BOOLEAN, Tracks(set, a, m)
  PROVE  Tracks(RemoveAt(set, k), a, m)
<1> DEFINE new == RemoveAt(set, k)
<1>1. /\ Len(new) = Len(set) - 1 /\ Len(set) \in Nat
      /\ \A i \in 1 .. Len(set) - 1 : new[i] = IF i < k THEN set[i] ELSE set[i + 1]
  BY RemoveAtFacts
<1> HIDE DEF new
<1> DEFINE old(i) == IF i < k THEN i ELSE i + 1
<1>2. \A i \in 1 .. Len(set) - 1 : old(i) \in 1 .. Len(set) /\ new[i] = set[old(i)]
  BY <1>1
<1>3. \A i, j \in 1 .. Len(set) - 1 : old(i) = old(j) => i = j
  <2> SUFFICES ASSUME NEW i \in 1 .. Len(set) - 1, NEW j \in 1 .. Len(set) - 1,
                      old(i) = old(j)
               PROVE  i = j
    OBVIOUS
  <2> QED BY <1>1
<1>4. \A i \in 1 .. Len(set) : i # k => \E j \in 1 .. Len(set) - 1 : old(j) = i
  <2> SUFFICES ASSUME NEW i \in 1 .. Len(set), i # k
               PROVE  \E j \in 1 .. Len(set) - 1 : old(j) = i
    OBVIOUS
  <2>1. CASE i < k
    <3>1. i \in 1 .. Len(set) - 1 /\ old(i) = i BY <1>1, <2>1
    <3> QED BY <3>1
  <2>2. CASE i > k
    <3>1. i - 1 \in 1 .. Len(set) - 1 /\ old(i - 1) = i BY <1>1, <2>2
    <3> QED BY <3>1
  <2> QED BY <2>1, <2>2
<1> HIDE DEF old
<1>5. \A i, j \in 1 .. Len(new) : new[i].addr = a /\ new[j].addr = a => i = j
  <2> SUFFICES ASSUME NEW i \in 1 .. Len(new), NEW j \in 1 .. Len(new),
                      new[i].addr = a, new[j].addr = a
               PROVE  i = j
    OBVIOUS
  <2>1. i \in 1 .. Len(set) - 1 /\ j \in 1 .. Len(set) - 1 BY <1>1
  <2>2. old(i) = old(j) BY <1>2, <2>1 DEF Tracks
  <2> QED BY <1>3, <2>1, <2>2
<1>6. m <=> \E i \in 1 .. Len(new) : new[i].addr = a /\ ~new[i].ready
  <2>1. ASSUME m PROVE \E i \in 1 .. Len(new) : new[i].addr = a /\ ~new[i].ready
    <3>1. PICK i \in 1 .. Len(set) : set[i].addr = a /\ ~set[i].ready
      BY <2>1 DEF Tracks
    <3>2. PICK j \in 1 .. Len(set) - 1 : old(j) = i BY <1>4, <3>1
    <3> QED BY <1>1, <1>2, <3>1, <3>2
  <2>2. ASSUME NEW i \in 1 .. Len(new), new[i].addr = a, ~new[i].ready PROVE m
    BY <1>1, <1>2, <2>2 DEF Tracks
  <2> QED BY <2>1, <2>2
<1> QED BY <1>5, <1>6 DEF Tracks, new

\* The lines a set names.
Names(set) == { set[i].addr : i \in 1 .. Len(set) }

LEMMA RemoveAtNames ==
  ASSUME NEW set \in Seq(Entries), NEW k \in 1 .. Len(set)
  PROVE  Names(RemoveAt(set, k)) \cup {set[k].addr} = Names(set)
<1> DEFINE new == RemoveAt(set, k)
<1>1. /\ Len(new) = Len(set) - 1 /\ Len(set) \in Nat
      /\ \A i \in 1 .. Len(set) - 1 : new[i] = IF i < k THEN set[i] ELSE set[i + 1]
  BY RemoveAtFacts
<1> HIDE DEF new
<1>2. ASSUME NEW i \in 1 .. Len(new) PROVE new[i].addr \in Names(set)
  <2>1. i \in 1 .. Len(set) /\ i + 1 \in 1 .. Len(set) BY <1>1
  <2> QED BY <1>1, <2>1 DEF Names
<1>3. ASSUME NEW i \in 1 .. Len(set), i # k PROVE set[i].addr \in Names(new)
  <2>1. CASE i < k
    <3>1. i \in 1 .. Len(new) /\ new[i] = set[i] BY <1>1, <2>1
    <3> QED BY <3>1 DEF Names
  <2>2. CASE i > k
    <3>1. i - 1 \in 1 .. Len(new) /\ new[i - 1] = set[(i - 1) + 1] /\ (i - 1) + 1 = i
      BY <1>1, <2>2
    <3> QED BY <3>1 DEF Names
  <2> QED BY <1>1, <1>3, <2>1, <2>2
<1> QED BY <1>2, <1>3 DEF Names, new

LEMMA AppendNames ==
  ASSUME NEW set \in Seq(Entries), NEW e \in Entries
  PROVE  Names(Append(set, e)) = Names(set) \cup {e.addr}
<1> DEFINE new == Append(set, e)
           n   == Len(set) + 1
<1>1. /\ Len(set) \in Nat /\ Len(new) = n /\ new[n] = e
      /\ \A i \in 1 .. Len(set) : new[i] = set[i]
  OBVIOUS
<1>2. \A i \in 1 .. n : i \in 1 .. Len(set) \/ i = n BY <1>1, LastOrBefore
<1>3. n \in 1 .. n /\ \A i \in 1 .. Len(set) : i \in 1 .. n BY <1>1
<1> HIDE DEF new, n
<1> QED BY <1>1, <1>2, <1>3 DEF Names, new

\* A line that is not being fetched and is taken out is not in the set any more.
LEMMA EvictedGone ==
  ASSUME NEW set \in Seq(Entries), NEW k \in 1 .. Len(set), NEW m,
         Tracks(set, set[k].addr, m), NEW i \in 1 .. Len(RemoveAt(set, k))
  PROVE  RemoveAt(set, k)[i].addr # set[k].addr
<1>1. /\ Len(set) \in Nat /\ i \in 1 .. Len(set) - 1
      /\ RemoveAt(set, k)[i] = IF i < k THEN set[i] ELSE set[i + 1]
  BY RemoveAtFacts
<1> QED BY <1>1 DEF Tracks

\* Adding a line at the end.
LEMMA AppendTracks ==
  ASSUME NEW set \in Seq(Entries), NEW e \in Entries, NEW a, NEW m \in BOOLEAN,
         Tracks(set, a, m),
         e.addr = a => \A i \in 1 .. Len(set) : set[i].addr # a,
         NEW n \in BOOLEAN, n <=> IF e.addr = a THEN ~e.ready ELSE m
  PROVE  Tracks(Append(set, e), a, n)
<1> DEFINE new == Append(set, e)
<1>1. /\ Len(set) \in Nat /\ Len(new) = Len(set) + 1 /\ new[Len(set) + 1] = e
      /\ \A i \in 1 .. Len(set) : new[i] = set[i]
  OBVIOUS
<1> HIDE DEF new
<1>2. \A i \in 1 .. Len(new) : i \in 1 .. Len(set) \/ i = Len(set) + 1
  BY <1>1, LastOrBefore
<1>3. \A i, j \in 1 .. Len(new) : new[i].addr = a /\ new[j].addr = a => i = j
  BY <1>1, <1>2 DEF Tracks
<1>4. CASE e.addr = a
  <2>1. ~e.ready <=> \E i \in 1 .. Len(new) : new[i].addr = a /\ ~new[i].ready
    BY <1>1, <1>2, <1>4
  <2> QED BY <1>3, <1>4, <2>1 DEF Tracks, new
<1>5. CASE e.addr # a
  <2>1. m <=> \E i \in 1 .. Len(new) : new[i].addr = a /\ ~new[i].ready
    BY <1>1, <1>2, <1>5 DEF Tracks
  <2> QED BY <1>3, <1>5, <2>1 DEF Tracks, new
<1> QED BY <1>4, <1>5

----------------------------------------------------------------------------
(* The cache.                                                              *)

Misses == [in : Nat, addr : Lines, isWrite : BOOLEAN]

Answers == [in : Nat, addr : Lines, core : Cores]

Caches ==
  [sets : [0 .. NumSets - 1 -> Seq(Entries)], mshrs : SUBSET Lines,
   waiting : [Lines -> SUBSET Cores], misses : Seq(Misses), hits : SUBSET Answers]

\* Every line is in its set as its miss-status entry says.
Tracked(s) == \A a \in Lines : Tracks(s.sets[Index(a)], a, a \in s.mshrs)

LEMMA CacheFacts ==
  ASSUME NEW s \in Caches
  PROVE  /\ s.sets \in [0 .. NumSets - 1 -> Seq(Entries)]
         /\ s.mshrs \in SUBSET Lines
         /\ s.waiting \in [Lines -> SUBSET Cores]
         /\ s.misses \in Seq(Misses)
         /\ s.hits \in SUBSET Answers
BY DEF Caches

LEMMA IndexFacts ==
  ASSUME NEW a \in Lines
  PROVE  Index(a) \in 0 .. NumSets - 1 /\ a \in Nat
<1>1. a \in Nat /\ NumSets - 1 \in Nat /\ IntBits \in Nat BY LLCAssumption DEF IntBits
<1>2. BitAnd[IntBits][<<a, NumSets - 1>>] \in 0 .. NumSets - 1 BY <1>1, BitAndBound
<1>3. Index(a) = BitAnd[IntBits][<<a, NumSets - 1>>] BY DEF Index, Indices
<1> QED BY <1>1, <1>2, <1>3

\* Set and tag tell lines apart.
LinesApart == \A a, b \in Lines : Index(a) = Index(b) /\ Tag(a) = Tag(b) => a = b

\* They do if the number of sets is a power of two.
LEMMA PowersTellApart ==
  ASSUME NEW k \in 0 .. IntBits, NumSets = Pow2[k]
  PROVE  LinesApart
<1> SUFFICES ASSUME NEW a \in Lines, NEW b \in Lines, Index(a) = Index(b), Tag(a) = Tag(b)
             PROVE  a = b
  BY DEF LinesApart
<1>1. a \in Nat /\ b \in Nat /\ IntBits \in Nat /\ k \in Nat BY IndexFacts DEF IntBits
<1>2. /\ Index(a) = BitAnd[IntBits][<<a, Pow2[k] - 1>>]
      /\ Index(b) = BitAnd[IntBits][<<b, Pow2[k] - 1>>]
  BY DEF Index, Indices
<1>3. Log2(Pow2[k]) = k BY <1>1, Log2Power
<1>4. Tag(a) = a \div Pow2[k] /\ Tag(b) = b \div Pow2[k] BY <1>3 DEF Tag
<1> QED BY <1>1, <1>2, <1>4, PowerFacts

\* The set of a line, in a cache.
LEMMA SetOf ==
  ASSUME NEW s \in Caches, NEW a \in Lines
  PROVE  s.sets[Index(a)] \in Seq(Entries)
BY CacheFacts, IndexFacts

\* The lines that belong to a set.
Home(k) == { a \in Lines : Index(a) = k }

\* Every line a set names belongs to it.
Homed(s) == \A k \in 0 .. NumSets - 1 : Names(s.sets[k]) \subseteq Home(k)

\* What the code takes for line a in its set is line a.
LEMMA MatchFacts ==
  ASSUME LinesApart, NEW s \in Caches, Tracked(s), Homed(s), NEW a \in Lines
  PROVE  LET set == s.sets[Index(a)]
         IN  /\ Matches(set, a) = { i \in DOMAIN set : set[i].addr = a }
             /\ Hit(set, a) = { i \in DOMAIN set : set[i].addr = a /\ set[i].ready }
<1> DEFINE set == s.sets[Index(a)]
<1>1. set \in Seq(Entries) /\ Index(a) \in 0 .. NumSets - 1 BY SetOf, IndexFacts
<1>2. Names(set) \subseteq Home(Index(a)) /\ Tracks(set, a, a \in s.mshrs)
  BY <1>1 DEF Homed, Tracked
<1> HIDE DEF set
<1>3. /\ DOMAIN set = 1 .. Len(set) /\ Len(set) \in Nat
      /\ \A i \in 1 .. Len(set) : set[i].addr \in Lines
  BY <1>1, SetFacts
<1>4. \A i \in 1 .. Len(set) : Tag(set[i].addr) = Tag(a) => set[i].addr = a
  <2> SUFFICES ASSUME NEW i \in 1 .. Len(set), Tag(set[i].addr) = Tag(a)
               PROVE  set[i].addr = a
    OBVIOUS
  <2>1. set[i].addr \in Home(Index(a)) BY <1>2 DEF Names
  <2>2. Index(set[i].addr) = Index(a) BY <2>1 DEF Home
  <2> QED BY <1>3, <2>2 DEF LinesApart
<1>5. Matches(set, a) = { i \in DOMAIN set : set[i].addr = a } BY <1>3, <1>4 DEF Matches
<1>6. \A i, j \in Matches(set, a) : i <= j
  <2>1. \A i, j \in Matches(set, a) : i = j /\ i \in Nat BY <1>2, <1>3, <1>5 DEF Tracks
  <2> QED BY <2>1
<1>7. Hit(set, a) = { i \in DOMAIN set : set[i].addr = a /\ set[i].ready }
  BY <1>5, <1>6 DEF Hit
<1> QED BY <1>5, <1>7 DEF set

\* The sets name the same lines.
SameNames(s, t) == \A k \in 0 .. NumSets - 1 : Names(t.sets[k]) = Names(s.sets[k])

\* The sets name line a beside, and have lost a line only if there was no place.
MissNames(s, t, a) ==
  \A k \in 0 .. NumSets - 1 :
    /\ Names(t.sets[k]) \subseteq Names(s.sets[k]) \cup (IF k = Index(a) THEN {a} ELSE {})
    /\ Len(s.sets[Index(a)]) < Associativity => Names(s.sets[k]) \subseteq Names(t.sets[k])

LEMMA HomedKept ==
  ASSUME NEW s, NEW t, Homed(s),
         SameNames(s, t) \/ \E a \in Lines : MissNames(s, t, a)
  PROVE  Homed(t)
<1>1. CASE SameNames(s, t) BY <1>1 DEF SameNames, Homed
<1>2. CASE \E a \in Lines : MissNames(s, t, a)
  <2>1. PICK a \in Lines : MissNames(s, t, a) BY <1>2
  <2>2. a \in Home(Index(a)) BY DEF Home
  <2> SUFFICES ASSUME NEW k \in 0 .. NumSets - 1 PROVE Names(t.sets[k]) \subseteq Home(k)
    BY DEF Homed
  <2>3. Names(t.sets[k]) \subseteq Names(s.sets[k]) \cup (IF k = Index(a) THEN {a} ELSE {})
    BY <2>1 DEF MissNames
  <2>4. Names(s.sets[k]) \subseteq Home(k) BY DEF Homed
  <2> QED BY <2>2, <2>3, <2>4
<1> QED BY <1>1, <1>2

\* A cache whose sets keep track when one of them is replaced by another that does.
LEMMA ReplacedTracked ==
  ASSUME NEW s \in Caches, Tracked(s), NEW k \in 0 .. NumSets - 1, NEW new \in Seq(Entries),
         NEW M \in SUBSET Lines, NEW t, t.sets = [s.sets EXCEPT ![k] = new], t.mshrs = M,
         \A b \in Lines : IF Index(b) = k THEN Tracks(new, b, b \in M)
                          ELSE b \in M <=> b \in s.mshrs
  PROVE  Tracked(t) /\ t.sets \in [0 .. NumSets - 1 -> Seq(Entries)]
<1>1. s.sets \in [0 .. NumSets - 1 -> Seq(Entries)] BY CacheFacts
<1>2. ASSUME NEW b \in Lines PROVE Tracks(t.sets[Index(b)], b, b \in t.mshrs)
  <2>1. Index(b) \in 0 .. NumSets - 1 BY IndexFacts
  <2>2. CASE Index(b) = k BY <1>1, <2>1, <2>2
  <2>3. CASE Index(b) # k
    <3>1. t.sets[Index(b)] = s.sets[Index(b)] BY <1>1, <2>1, <2>3
    <3>2. Tracks(s.sets[Index(b)], b, b \in s.mshrs) BY DEF Tracked
    <3>3. b \in t.mshrs <=> b \in s.mshrs BY <2>3
    <3> QED BY <3>1, <3>2, <3>3 DEF Tracks
  <2> QED BY <2>2, <2>3
<1>3. t.sets \in [0 .. NumSets - 1 -> Seq(Entries)] BY <1>1
<1> QED BY <1>2, <1>3 DEF Tracked

\* A hit: the line goes to the end of its set.
LEMMA SendHitKeeps ==
  ASSUME LinesApart, NEW s \in Caches, Tracked(s), Homed(s),
         NEW c \in Cores, NEW a \in Lines,
         NEW isWrite \in BOOLEAN, Hit(s.sets[Index(a)], a) # {}
  PROVE  /\ SendHit(s, c, a, isWrite) \in Caches
         /\ Tracked(SendHit(s, c, a, isWrite))
         /\ a \notin s.mshrs
         /\ SendHit(s, c, a, isWrite).mshrs = s.mshrs
         /\ SendHit(s, c, a, isWrite).waiting = s.waiting
         /\ SendHit(s, c, a, isWrite).misses = s.misses
         /\ SendHit(s, c, a, isWrite).hits
              = s.hits \cup {[in |-> Latency, addr |-> a, core |-> c]}
         /\ Hit(SendHit(s, c, a, isWrite).sets[Index(a)], a) # {}
         /\ SameNames(s, SendHit(s, c, a, isWrite))
<1> DEFINE set == s.sets[Index(a)]
           i   == CHOOSE j \in Hit(set, a) : TRUE
           e   == [addr |-> a, dirty |-> set[i].dirty \/ isWrite, ready |-> TRUE]
           new == Append(RemoveAt(set, i), e)
           t   == SendHit(s, c, a, isWrite)
<1>1. set \in Seq(Entries) /\ Index(a) \in 0 .. NumSets - 1 BY SetOf, IndexFacts
<1>2. i \in Hit(set, a) OBVIOUS
<1>3. t = [s EXCEPT !.sets[Index(a)] = new,
                    !.hits = @ \cup {[in |-> Latency, addr |-> a, core |-> c]}]
  BY DEF SendHit, HitAfter
<1> HIDE DEF i, t
<1>4. i \in 1 .. Len(set) /\ set[i].addr = a /\ set[i].ready /\ set[i] \in Entries
  <2>1. Hit(set, a) = { j \in DOMAIN set : set[j].addr = a /\ set[j].ready }
    BY MatchFacts
  <2> HIDE DEF set
  <2> QED BY <1>1, <1>2, <2>1, SetFacts
<1>5. e \in Entries /\ e.addr = a /\ e.ready BY <1>4 DEF Entries
<1>6. RemoveAt(set, i) \in Seq(Entries) BY <1>1, <1>4, RemoveAtFacts
<1> HIDE DEF set, e
<1>7. new \in Seq(Entries) /\ new[Len(new)] = e /\ Len(new) \in 1 .. Len(new)
  BY <1>5, <1>6
<1>17. Names(new) = Names(set)
  <2>1. Names(RemoveAt(set, i)) \cup {set[i].addr} = Names(set) BY <1>1, <1>4, RemoveAtNames
  <2>2. Names(Append(RemoveAt(set, i), e)) = Names(RemoveAt(set, i)) \cup {e.addr}
    BY <1>5, <1>6, AppendNames
  <2> QED BY <1>4, <1>5, <2>1, <2>2
<1>8. Tracks(set, a, a \in s.mshrs) BY DEF Tracked, set
<1>9. a \notin s.mshrs BY <1>4, <1>8 DEF Tracks
<1>10. ASSUME NEW b \in Lines, Index(b) = Index(a) PROVE Tracks(new, b, b \in s.mshrs)
  <2> DEFINE m == b \in s.mshrs
             left == RemoveAt(set, i)
  <2>1. Tracks(set, b, m) /\ m \in BOOLEAN BY <1>10 DEF Tracked, set
  <2>2. \A j \in 1 .. Len(left) : left[j].addr # a
    BY <1>1, <1>4, <1>8, EvictedGone
  <2>3. e.addr = b => ~m /\ e.ready BY <1>5, <1>9
  <2> HIDE DEF m
  <2>4. Tracks(left, b, m) BY <1>1, <1>4, <2>1, EvictTracks
  <2> HIDE DEF left
  <2>5. e.addr = b => \A j \in 1 .. Len(left) : left[j].addr # b BY <1>5, <2>2
  <2>6. left \in Seq(Entries) BY <1>6 DEF left
  <2>7. m <=> IF e.addr = b THEN ~e.ready ELSE m BY <2>3
  <2>8. Tracks(Append(left, e), b, m) BY <1>5, <2>1, <2>4, <2>5, <2>6, <2>7, AppendTracks
  <2> QED BY <2>8 DEF m, left
<1> HIDE DEF new
<1>11. /\ t.sets = [s.sets EXCEPT ![Index(a)] = new] /\ t.mshrs = s.mshrs
       /\ t.waiting = s.waiting /\ t.misses = s.misses
       /\ t.hits = s.hits \cup {[in |-> Latency, addr |-> a, core |-> c]}
  BY <1>3 DEF Caches
<1>12. Tracked(t) /\ t.sets \in [0 .. NumSets - 1 -> Seq(Entries)]
  BY <1>1, <1>7, <1>10, <1>11, CacheFacts, ReplacedTracked
<1>13. [in |-> Latency, addr |-> a, core |-> c] \in Answers
  BY LLCAssumption DEF Answers
<1>14. t \in Caches
  BY <1>3, <1>11, <1>12, <1>13, CacheFacts DEF Caches
<1>16. SameNames(s, t) BY <1>1, <1>11, <1>17, CacheFacts DEF SameNames, set
<1>15. Len(new) \in Hit(t.sets[Index(a)], a)
  <2>1. t.sets[Index(a)] = new BY <1>1, <1>11, CacheFacts
  <2>2. Homed(t) BY <1>16, HomedKept
  <2>3. Hit(t.sets[Index(a)], a) = { j \in DOMAIN new : new[j].addr = a /\ new[j].ready }
    BY <1>12, <1>14, <2>1, <2>2, MatchFacts
  <2> QED BY <1>5, <1>7, <2>3, SetFacts
<1> QED BY <1>9, <1>11, <1>12, <1>14, <1>15, <1>16 DEF t

\* The line is being fetched: one more core waits for it.
LEMMA SendMSHRHitKeeps ==
  ASSUME NEW s \in Caches, Tracked(s), NEW c \in Cores, NEW a \in Lines,
         NEW isWrite \in BOOLEAN
  PROVE  /\ SendMSHRHit(s, c, a, isWrite) \in Caches
         /\ Tracked(SendMSHRHit(s, c, a, isWrite))
         /\ SendMSHRHit(s, c, a, isWrite).mshrs = s.mshrs
         /\ SendMSHRHit(s, c, a, isWrite).waiting
              = [s.waiting EXCEPT ![a] = @ \cup {c}]
         /\ SendMSHRHit(s, c, a, isWrite).misses = s.misses
         /\ SendMSHRHit(s, c, a, isWrite).hits = s.hits
         /\ SameNames(s, SendMSHRHit(s, c, a, isWrite))
<1> DEFINE set == s.sets[Index(a)]
           new == Written(set, a, isWrite)
           t   == SendMSHRHit(s, c, a, isWrite)
<1>1. set \in Seq(Entries) /\ Index(a) \in 0 .. NumSets - 1 BY SetOf, IndexFacts
<1>2. t = [s EXCEPT !.waiting[a] = @ \cup {c}, !.sets[Index(a)] = new]
  BY <1>1, CacheFacts DEF SendMSHRHit
<1> HIDE DEF t, set
<1>3. \A i \in 1 .. Len(set) : set[i] \in Entries BY <1>1, SetFacts
<1>4. \A i \in 1 .. Len(set) :
        /\ new[i] \in Entries /\ new[i].addr = set[i].addr /\ new[i].ready = set[i].ready
  <2> SUFFICES ASSUME NEW i \in 1 .. Len(set)
               PROVE  /\ new[i] \in Entries
                      /\ new[i].addr = set[i].addr /\ new[i].ready = set[i].ready
    OBVIOUS
  <2>1. set[i] \in Entries BY <1>3
  <2>2. new[i] = IF set[i].addr = a /\ ~set[i].ready
                 THEN [set[i] EXCEPT !.dirty = @ \/ isWrite] ELSE set[i]
    BY <1>1, SetFacts DEF Written
  <2> QED BY <2>1, <2>2 DEF Entries
<1>5. new \in Seq(Entries) /\ Len(new) = Len(set)
  <2>1. DOMAIN new = 1 .. Len(set) /\ new = [i \in DOMAIN new |-> new[i]]
    BY <1>1, SetFacts DEF Written
  <2>2. Len(set) \in Nat BY <1>1
  <2> HIDE DEF new
  <2>3. new \in [1 .. Len(set) -> Entries] BY <1>4, <2>1
  <2> QED BY <2>2, <2>3, FunctionIsSeq
<1> HIDE DEF new
<1>6. /\ t.sets = [s.sets EXCEPT ![Index(a)] = new] /\ t.mshrs = s.mshrs
      /\ t.waiting = [s.waiting EXCEPT ![a] = @ \cup {c}]
      /\ t.misses = s.misses /\ t.hits = s.hits
  BY <1>2 DEF Caches
<1>7. ASSUME NEW b \in Lines, Index(b) = Index(a) PROVE Tracks(new, b, b \in s.mshrs)
  <2>1. Tracks(set, b, b \in s.mshrs) BY <1>7 DEF Tracked, set
  <2> QED BY <1>1, <1>4, <1>5, <2>1, DirtyTracks
<1>8. Tracked(t) /\ t.sets \in [0 .. NumSets - 1 -> Seq(Entries)]
  BY <1>1, <1>5, <1>6, <1>7, CacheFacts, ReplacedTracked
<1>9. t.waiting \in [Lines -> SUBSET Cores] BY <1>6, CacheFacts
<1>10. t \in Caches BY <1>2, <1>6, <1>8, <1>9, CacheFacts DEF Caches
<1>11. SameNames(s, t)
  <2>1. Names(new) = Names(set) BY <1>4, <1>5 DEF Names
  <2> QED BY <1>1, <1>6, <2>1, CacheFacts DEF SameNames, set
<1> QED BY <1>6, <1>8, <1>10, <1>11 DEF t

\* The line that gives its place exists, and is none that is being fetched.
LEMMA VictimFacts ==
  ASSUME NEW set \in Seq(Entries), \E i \in 1 .. Len(set) : set[i].ready
  PROVE  Victim(set) \in 1 .. Len(set) /\ set[Victim(set)].ready
<1> DEFINE E == { i \in 1 .. Len(set) : set[i].ready }
           n == Min(E)
<1>1. E \in SUBSET Nat /\ E # {} OBVIOUS
<1>2. n \in E /\ \A e \in E : n <= e
  <2> HIDE DEF E
  <2> QED BY <1>1, LeastOf
<1> HIDE DEF n
<1>3. n \in 1 .. Len(set) /\ set[n].ready BY <1>2
<1>4. \A j \in 1 .. n - 1 : ~set[j].ready
  <2> SUFFICES ASSUME NEW j \in 1 .. n - 1, set[j].ready PROVE FALSE
    OBVIOUS
  <2>1. j \in E BY <1>3
  <2> QED BY <1>2, <1>3, <2>1
<1>5. DOMAIN set = 1 .. Len(set) BY SetFacts
<1>6. \E i \in DOMAIN set : set[i].ready /\ \A j \in 1 .. i - 1 : ~set[j].ready
  BY <1>3, <1>4, <1>5
<1> QED BY <1>5, <1>6 DEF Victim

\* What a miss puts on its way: the victim, if it has to be written back, and
\* the read of the line.
MissQueue(s, a, q) ==
  \E p \in Seq(Misses) :
    /\ p = s.misses \/ \E w \in Misses : w.isWrite /\ p = Append(s.misses, w)
    /\ q = Append(p, [in |-> Latency, addr |-> a, isWrite |-> FALSE])

LEMMA SendMissKeeps ==
  ASSUME LinesApart, NEW s \in Caches, Tracked(s), Homed(s),
         NEW c \in Cores, NEW a \in Lines,
         NEW isWrite \in BOOLEAN,
         Hit(s.sets[Index(a)], a) = {}, a \notin s.mshrs, ~Refused(s, a)
  PROVE  /\ SendMiss(s, c, a, isWrite) \in Caches
         /\ Tracked(SendMiss(s, c, a, isWrite))
         /\ SendMiss(s, c, a, isWrite).mshrs = s.mshrs \cup {a}
         /\ SendMiss(s, c, a, isWrite).waiting = [s.waiting EXCEPT ![a] = {c}]
         /\ MissQueue(s, a, SendMiss(s, c, a, isWrite).misses)
         /\ SendMiss(s, c, a, isWrite).hits = s.hits
         /\ MissNames(s, SendMiss(s, c, a, isWrite), a)
<1> DEFINE set  == s.sets[Index(a)]
           full == Len(set) >= Associativity /\ Matches(set, a) = {}
           out  == Victim(set)
           kept == IF full THEN RemoveAt(set, out) ELSE set
           w    == [in |-> Latency, addr |-> set[out].addr, isWrite |-> TRUE]
           back == IF full /\ set[out].dirty THEN <<w>> ELSE <<>>
           r    == [in |-> Latency, addr |-> a, isWrite |-> FALSE]
           e    == [addr |-> a, dirty |-> isWrite, ready |-> FALSE]
           new  == Append(kept, e)
           t    == SendMiss(s, c, a, isWrite)
<1>1. set \in Seq(Entries) /\ Index(a) \in 0 .. NumSets - 1 BY SetOf, IndexFacts
<1>2. t = [s EXCEPT !.sets[Index(a)] = new, !.mshrs = @ \cup {a}, !.waiting[a] = {c},
                    !.misses = @ \o back \o <<r>>]
  BY DEF SendMiss
<1> HIDE DEF t
<1>3. full => out \in 1 .. Len(set) /\ set[out].ready
  BY <1>1, SetFacts, VictimFacts DEF Refused
<1> HIDE DEF out
<1>4. kept \in Seq(Entries) BY <1>1, <1>3, RemoveAtFacts
<1>5. ASSUME NEW b \in Lines, Index(b) = Index(a) PROVE Tracks(kept, b, b \in s.mshrs)
  <2> DEFINE m == b \in s.mshrs
  <2>1. Tracks(set, b, m) /\ m \in BOOLEAN BY <1>5 DEF Tracked
  <2> HIDE DEF m
  <2>2. full => Tracks(RemoveAt(set, out), b, m) BY <1>1, <1>3, <2>1, EvictTracks
  <2> QED BY <2>1, <2>2 DEF m
<1>6. \A j \in 1 .. Len(kept) : kept[j].addr # a
  <2>1. \A i \in 1 .. Len(set) : set[i].addr # a
    <3> SUFFICES ASSUME NEW i \in 1 .. Len(set), set[i].addr = a PROVE FALSE
      OBVIOUS
    <3>1. set[i].ready BY <1>5, <1>1 DEF Tracks, Tracked
    <3>2. Hit(set, a) = { j \in DOMAIN set : set[j].addr = a /\ set[j].ready }
      BY MatchFacts
    <3> HIDE DEF set
    <3>3. i \in Hit(set, a) BY <1>1, <3>1, <3>2, SetFacts
    <3> QED BY <3>3 DEF set
  <2>2. CASE full
    <3>1. kept = RemoveAt(set, out) BY <2>2
    <3>2. out \in 1 .. Len(set) BY <1>3, <2>2
    <3> HIDE DEF kept, set
    <3>3. /\ Len(RemoveAt(set, out)) = Len(set) - 1
          /\ \A j \in 1 .. Len(set) - 1 :
               RemoveAt(set, out)[j] = IF j < out THEN set[j] ELSE set[j + 1]
      BY <1>1, <3>2, RemoveAtFacts
    <3>4. Len(set) \in Nat BY <1>1
    <3> QED BY <2>1, <3>1, <3>2, <3>3, <3>4
  <2>3. CASE ~full BY <2>1, <2>3
  <2> QED BY <2>2, <2>3
<1>7. e \in Entries /\ e.addr = a /\ ~e.ready BY DEF Entries
<1>14. Names(kept) \subseteq Names(set) /\ (~full => Names(set) \subseteq Names(kept))
  <2>1. CASE full
    <3>1. out \in 1 .. Len(set) /\ kept = RemoveAt(set, out) BY <1>3, <2>1
    <3> HIDE DEF kept, set
    <3>2. Names(RemoveAt(set, out)) \cup {set[out].addr} = Names(set)
      BY <1>1, <3>1, RemoveAtNames
    <3> QED BY <2>1, <3>1, <3>2
  <2>2. CASE ~full BY <2>2
  <2> QED BY <2>1, <2>2
<1> HIDE DEF kept, e
<1>16. Names(new) = Names(kept) \cup {a} BY <1>4, <1>7, AppendNames
<1>8. new \in Seq(Entries) BY <1>4, <1>7
<1>9. ASSUME NEW b \in Lines, Index(b) = Index(a)
      PROVE  Tracks(new, b, b \in s.mshrs \cup {a})
  <2> DEFINE m == b \in s.mshrs
             n == b \in s.mshrs \cup {a}
  <2>1. Tracks(kept, b, m) /\ m \in BOOLEAN BY <1>5, <1>9
  <2>2. n <=> IF e.addr = b THEN ~e.ready ELSE m BY <1>7
  <2>3. n \in BOOLEAN OBVIOUS
  <2> HIDE DEF m, n
  <2>4. e.addr = b => \A j \in 1 .. Len(kept) : kept[j].addr # b BY <1>6, <1>7
  <2>5. Tracks(Append(kept, e), b, n)
    BY <1>4, <1>7, <2>1, <2>2, <2>3, <2>4, AppendTracks
  <2> QED BY <2>5 DEF n
<1> HIDE DEF new
<1>10. /\ t.sets = [s.sets EXCEPT ![Index(a)] = new] /\ t.mshrs = s.mshrs \cup {a}
       /\ t.waiting = [s.waiting EXCEPT ![a] = {c}]
       /\ t.misses = s.misses \o back \o <<r>> /\ t.hits = s.hits
  BY <1>2 DEF Caches
<1>11. Tracked(t) /\ t.sets \in [0 .. NumSets - 1 -> Seq(Entries)]
  <2>1. s.mshrs \cup {a} \in SUBSET Lines BY CacheFacts
  <2>2. \A b \in Lines : IF Index(b) = Index(a) THEN Tracks(new, b, b \in s.mshrs \cup {a})
                         ELSE b \in s.mshrs \cup {a} <=> b \in s.mshrs
    BY <1>9
  <2> QED BY <1>1, <1>8, <1>10, <2>1, <2>2, ReplacedTracked
<1>12. MissQueue(s, a, t.misses) /\ t.misses \in Seq(Misses)
  <2>1. s.misses \in Seq(Misses) BY CacheFacts
  <2>11. r \in Misses BY LLCAssumption DEF Misses
  <2>2. CASE full /\ set[out].dirty
    <3>1. w \in Misses /\ w.isWrite
      <4>1. set[out].addr \in Lines BY <1>1, <1>3, <2>2, SetFacts
      <4> QED BY <4>1, LLCAssumption DEF Misses
    <3>2. t.misses = s.misses \o <<w>> \o <<r>> BY <1>10, <2>2
    <3> HIDE DEF w, r, set, back, full
    <3>3. Append(s.misses, w) \in Seq(Misses) BY <2>1, <3>1
    <3>4. t.misses = Append(Append(s.misses, w), r)
      <4>1. s.misses \o <<w>> \o <<r>> = Append(Append(s.misses, w), r)
        BY <2>1, <2>11, <3>1, ConcatAppends
      <4> QED BY <3>2, <4>1
    <3>5. t.misses \in Seq(Misses) BY <2>11, <3>3, <3>4
    <3> QED BY <3>1, <3>3, <3>4, <3>5 DEF MissQueue, r
  <2>3. CASE ~(full /\ set[out].dirty)
    <3>1. t.misses = s.misses \o <<>> \o <<r>> BY <1>10, <2>3
    <3> HIDE DEF r, set
    <3>2. t.misses = Append(s.misses, r) BY <2>1, <2>11, <3>1, ConcatAppends
    <3>3. t.misses \in Seq(Misses) BY <2>1, <2>11, <3>2
    <3> QED BY <2>1, <3>2, <3>3 DEF MissQueue, r
  <2> QED BY <2>2, <2>3
<1>13. t \in Caches
  <2>1. t.waiting \in [Lines -> SUBSET Cores] BY <1>10, CacheFacts
  <2>2. t.mshrs \in SUBSET Lines BY <1>10, CacheFacts
  <2> QED BY <1>2, <1>10, <1>11, <1>12, <2>1, <2>2, CacheFacts DEF Caches
<1>17. MissNames(s, t, a)
  <2> SUFFICES ASSUME NEW k \in 0 .. NumSets - 1
               PROVE  /\ Names(t.sets[k]) \subseteq
                           Names(s.sets[k]) \cup (IF k = Index(a) THEN {a} ELSE {})
                      /\ Len(set) < Associativity => Names(s.sets[k]) \subseteq Names(t.sets[k])
    BY DEF MissNames
  <2>1. s.sets \in [0 .. NumSets - 1 -> Seq(Entries)] BY CacheFacts
  <2>2. CASE k # Index(a)
    <3>1. t.sets[k] = s.sets[k] BY <1>10, <2>1, <2>2
    <3> QED BY <3>1
  <2>3. CASE k = Index(a)
    <3>1. t.sets[k] = new /\ s.sets[k] = set BY <1>10, <2>1, <2>3
    <3>2. Len(set) < Associativity => ~full BY <1>1, LLCAssumption, SetFacts
    <3> HIDE DEF set, full
    <3> QED BY <1>14, <1>16, <2>3, <3>1, <3>2
  <2> QED BY <2>2, <2>3
<1> QED BY <1>10, <1>11, <1>12, <1>13, <1>17 DEF t

\* The three things that a request taken by the cache may do.
HitStep(s, t, c, a) ==
  /\ a \notin s.mshrs
  /\ t.mshrs = s.mshrs /\ t.waiting = s.waiting /\ t.misses = s.misses
  /\ t.hits = s.hits \cup {[in |-> Latency, addr |-> a, core |-> c]}
  /\ Hit(t.sets[Index(a)], a) # {} /\ SameNames(s, t)

JoinStep(s, t, c, a) ==
  /\ a \in s.mshrs
  /\ t.mshrs = s.mshrs /\ t.waiting = [s.waiting EXCEPT ![a] = @ \cup {c}]
  /\ t.misses = s.misses /\ t.hits = s.hits /\ SameNames(s, t)

MissStep(s, t, c, a) ==
  /\ a \notin s.mshrs /\ Hit(s.sets[Index(a)], a) = {}
  /\ t.mshrs = s.mshrs \cup {a} /\ t.waiting = [s.waiting EXCEPT ![a] = {c}]
  /\ MissQueue(s, a, t.misses) /\ t.hits = s.hits /\ MissNames(s, t, a)

LEMMA SendKeeps ==
  ASSUME LinesApart, NEW s \in Caches, Tracked(s), Homed(s), NEW c \in Cores, NEW a \in Lines,
         NEW isWrite \in BOOLEAN
  PROVE  LET answer == Send(s, c, a, isWrite)
             t      == answer.llc
         IN  /\ t \in Caches /\ Tracked(t)
             /\ answer.ok \in BOOLEAN /\ (~answer.ok => t = s)
             /\ answer.ok => HitStep(s, t, c, a) \/ JoinStep(s, t, c, a) \/ MissStep(s, t, c, a)
<1> DEFINE answer == Send(s, c, a, isWrite)
<1>1. CASE Hit(s.sets[Index(a)], a) # {}
  <2>1. answer = [ok |-> TRUE, llc |-> SendHit(s, c, a, isWrite)] BY <1>1 DEF Send
  <2> HIDE DEF answer
  <2> QED BY <1>1, <2>1, SendHitKeeps DEF HitStep, answer
<1>2. CASE Hit(s.sets[Index(a)], a) = {} /\ a \in s.mshrs
  <2>1. answer = [ok |-> TRUE, llc |-> SendMSHRHit(s, c, a, isWrite)] BY <1>2 DEF Send
  <2> HIDE DEF answer
  <2> QED BY <1>2, <2>1, SendMSHRHitKeeps DEF JoinStep, answer
<1>3. CASE Hit(s.sets[Index(a)], a) = {} /\ a \notin s.mshrs /\ Refused(s, a)
  BY <1>3 DEF Send
<1>4. CASE Hit(s.sets[Index(a)], a) = {} /\ a \notin s.mshrs /\ ~Refused(s, a)
  <2>1. answer = [ok |-> TRUE, llc |-> SendMiss(s, c, a, isWrite)] BY <1>4 DEF Send
  <2> HIDE DEF answer
  <2> QED BY <1>4, <2>1, SendMissKeeps DEF MissStep, answer
<1> QED BY <1>1, <1>2, <1>3, <1>4

\* What readies some of the lines of a set, or of the instructions of a window.
LEMMA ReadiedFacts ==
  ASSUME NEW E \in {Entries, Slots}, NEW entries \in Seq(E), NEW A
  PROVE  /\ Readied(entries, A) \in Seq(E) /\ Len(Readied(entries, A)) = Len(entries)
         /\ \A i \in 1 .. Len(entries) :
              /\ Readied(entries, A)[i].addr = entries[i].addr
              /\ Readied(entries, A)[i].ready <=> entries[i].ready \/ entries[i].addr \in A
<1> DEFINE new == Readied(entries, A)
<1>1. /\ Len(entries) \in Nat /\ DOMAIN entries = 1 .. Len(entries)
      /\ \A i \in 1 .. Len(entries) : entries[i] \in E
  OBVIOUS
<1>2. /\ DOMAIN new = 1 .. Len(entries) /\ new = [i \in DOMAIN new |-> new[i]]
      /\ \A i \in 1 .. Len(entries) :
           new[i] = [entries[i] EXCEPT !.ready = @ \/ entries[i].addr \in A]
  BY <1>1 DEF Readied
<1> HIDE DEF new
<1>3. \A i \in 1 .. Len(entries) :
        /\ new[i] \in E /\ new[i].addr = entries[i].addr
        /\ new[i].ready <=> entries[i].ready \/ entries[i].addr \in A
  <2> SUFFICES ASSUME NEW i \in 1 .. Len(entries)
               PROVE  /\ new[i] \in E /\ new[i].addr = entries[i].addr
                      /\ new[i].ready <=> entries[i].ready \/ entries[i].addr \in A
    OBVIOUS
  <2>1. entries[i] \in E BY <1>1
  <2>2. CASE E = Entries BY <1>2, <2>1, <2>2 DEF Entries
  <2>3. CASE E = Slots BY <1>2, <2>1, <2>3 DEF Slots
  <2> QED BY <2>2, <2>3
<1>4. new \in [1 .. Len(entries) -> E] BY <1>1, <1>2, <1>3
<1>5. new \in Seq(E) /\ Len(new) = Len(entries) BY <1>1, <1>4, FunctionIsSeq
<1> QED BY <1>3, <1>5 DEF new

\* An answered line is not being fetched any more.
LEMMA ReadiedTracks ==
  ASSUME NEW set \in Seq(Entries), NEW A, NEW a, NEW m \in BOOLEAN, Tracks(set, a, m)
  PROVE  /\ Readied(set, A) \in Seq(Entries)
         /\ Tracks(Readied(set, A), a, m /\ a \notin A)
<1> DEFINE new == Readied(set, A)
<1>1. /\ new \in Seq(Entries) /\ Len(new) = Len(set)
      /\ \A i \in 1 .. Len(set) :
           new[i].addr = set[i].addr /\ (new[i].ready <=> set[i].ready \/ set[i].addr \in A)
  BY ReadiedFacts
<1> HIDE DEF new
<1>2. Tracks(new, a, m /\ a \notin A) BY <1>1 DEF Tracks
<1> QED BY <1>1, <1>2 DEF new

LEMMA ReceivedKeeps ==
  ASSUME NEW s \in Caches, Tracked(s), NEW A \in SUBSET Lines
  PROVE  /\ Received(s, A) \in Caches
         /\ Tracked(Received(s, A))
         /\ Received(s, A).mshrs = s.mshrs \ A
         /\ Received(s, A).waiting = [a \in Lines |-> IF a \in A THEN {} ELSE s.waiting[a]]
         /\ Received(s, A).misses = s.misses
         /\ Received(s, A).hits = s.hits
         /\ SameNames(s, Received(s, A))
<1> DEFINE t == Received(s, A)
           R == A \cap s.mshrs
           u == Untracked(s, A)
<1>1. /\ u \in Caches /\ u.mshrs = s.mshrs \ A
      /\ u.waiting = [a \in Lines |-> IF a \in A THEN {} ELSE s.waiting[a]]
      /\ u.sets = s.sets /\ u.misses = s.misses /\ u.hits = s.hits
  BY CacheFacts DEF Untracked, Caches
<1>0. t = [u EXCEPT !.sets = [k \in DOMAIN u.sets |-> Readied(u.sets[k], R)]]
  BY DEF Received
<1> HIDE DEF t, u
<1>2. /\ t.mshrs = s.mshrs \ A
      /\ t.waiting = [a \in Lines |-> IF a \in A THEN {} ELSE s.waiting[a]]
      /\ t.sets = [k \in 0 .. NumSets - 1 |-> Readied(s.sets[k], R)]
      /\ t.misses = s.misses /\ t.hits = s.hits
  BY <1>0, <1>1, CacheFacts DEF Caches
<1>3. \A k \in 0 .. NumSets - 1 : t.sets[k] \in Seq(Entries)
  <2> SUFFICES ASSUME NEW k \in 0 .. NumSets - 1 PROVE t.sets[k] \in Seq(Entries)
    OBVIOUS
  <2>1. s.sets[k] \in Seq(Entries) BY CacheFacts
  <2> HIDE DEF R
  <2>2. Readied(s.sets[k], R) \in Seq(Entries) BY <2>1, ReadiedFacts
  <2> QED BY <1>2, <2>2
<1>4. ASSUME NEW b \in Lines PROVE Tracks(t.sets[Index(b)], b, b \in t.mshrs)
  <2> DEFINE m   == b \in s.mshrs
             set == s.sets[Index(b)]
  <2>1. Tracks(set, b, m) /\ m \in BOOLEAN BY DEF Tracked
  <2>2. set \in Seq(Entries) BY SetOf
  <2>3. t.sets[Index(b)] = Readied(set, R) BY <1>2, IndexFacts
  <2>4. (m /\ b \notin R) <=> b \in t.mshrs BY <1>2
  <2> HIDE DEF m, set, R
  <2>5. Tracks(Readied(set, R), b, m /\ b \notin R) BY <2>1, <2>2, ReadiedTracks
  <2> QED BY <2>3, <2>4, <2>5 DEF Tracks
<1>6. SameNames(s, t)
  <2> SUFFICES ASSUME NEW k \in 0 .. NumSets - 1 PROVE Names(t.sets[k]) = Names(s.sets[k])
    BY DEF SameNames
  <2> DEFINE set == s.sets[k]
             new == Readied(set, R)
  <2>1. set \in Seq(Entries) BY CacheFacts
  <2>2. t.sets[k] = new BY <1>2
  <2> HIDE DEF set, R
  <2>3. Len(new) = Len(set) /\ \A i \in 1 .. Len(set) : new[i].addr = set[i].addr
    BY <2>1, ReadiedFacts
  <2> HIDE DEF new
  <2>4. Names(new) = Names(set) BY <2>3 DEF Names
  <2> QED BY <2>2, <2>4 DEF set
<1>5. t \in Caches
  <2>1. t.sets \in [0 .. NumSets - 1 -> Seq(Entries)] BY <1>2, <1>3
  <2> QED BY <1>0, <1>1, <1>2, <2>1, CacheFacts DEF Caches
<1> QED BY <1>2, <1>4, <1>5, <1>6 DEF t, Tracked

----------------------------------------------------------------------------
(* The reads of a queue, and what the miss list hands to the memory.       *)

ReadPlaces(q, a) == { i \in DOMAIN q : q[i].addr = a /\ ~q[i].isWrite }

ReadsIn(q, a) == Cardinality(ReadPlaces(q, a))

\* Whether the request reads line a.
IsRead(r, a) == r.addr = a /\ ~r.isWrite

LEMMA QueueFacts ==
  ASSUME NEW q \in Seq(Misses)
  PROVE  /\ Len(q) \in Nat /\ DOMAIN q = 1 .. Len(q)
         /\ \A i \in 1 .. Len(q) : q[i] \in Misses
         /\ \A a : IsFiniteSet(ReadPlaces(q, a)) /\ ReadsIn(q, a) \in Nat
<1>1. Len(q) \in Nat /\ DOMAIN q = 1 .. Len(q) /\ \A i \in 1 .. Len(q) : q[i] \in Misses
  OBVIOUS
<1>2. ASSUME NEW a PROVE IsFiniteSet(ReadPlaces(q, a)) /\ ReadsIn(q, a) \in Nat
  <2>1. IsFiniteSet(1 .. Len(q)) BY <1>1, FS_Interval
  <2>2. ReadPlaces(q, a) \in SUBSET (1 .. Len(q)) BY <1>1 DEF ReadPlaces
  <2>3. IsFiniteSet(ReadPlaces(q, a)) BY <2>1, <2>2, FS_Subset
  <2> QED BY <2>3, FS_CardinalityType DEF ReadsIn
<1> QED BY <1>1, <1>2

LEMMA NoReadsIn ==
  ASSUME NEW a
  PROVE  ReadsIn(<<>>, a) = 0
<1>1. ReadPlaces(<<>>, a) = {} BY DEF ReadPlaces
<1> QED BY <1>1, FS_EmptySet DEF ReadsIn

LEMMA AppendReads ==
  ASSUME NEW q \in Seq(Misses), NEW r \in Misses, NEW a
  PROVE  ReadsIn(Append(q, r), a) = ReadsIn(q, a) + (IF IsRead(r, a) THEN 1 ELSE 0)
<1> DEFINE new == Append(q, r)
           n   == Len(q) + 1
<1>1. /\ Len(q) \in Nat /\ DOMAIN new = 1 .. n /\ new[n] = r /\ DOMAIN q = 1 .. Len(q)
      /\ \A i \in 1 .. Len(q) : new[i] = q[i]
  OBVIOUS
<1>2. IsFiniteSet(ReadPlaces(q, a)) /\ ReadsIn(q, a) \in Nat BY QueueFacts
<1>3. n \notin ReadPlaces(q, a) BY <1>1 DEF ReadPlaces
<1> HIDE DEF new
<1>4. \A i \in 1 .. n : i \in 1 .. Len(q) \/ i = n BY <1>1, LastOrBefore
<1>5. n \in 1 .. n /\ \A i \in 1 .. Len(q) : i \in 1 .. n BY <1>1
<1> HIDE DEF n
<1>6. CASE IsRead(r, a)
  <2>1. ReadPlaces(new, a) = ReadPlaces(q, a) \cup {n}
    BY <1>1, <1>4, <1>5, <1>6 DEF ReadPlaces, IsRead
  <2>2. Cardinality(ReadPlaces(q, a) \cup {n}) = Cardinality(ReadPlaces(q, a)) + 1
    BY <1>2, <1>3, FS_AddElement
  <2> QED BY <1>6, <2>1, <2>2 DEF ReadsIn, new
<1>7. CASE ~IsRead(r, a)
  <2>1. ReadPlaces(new, a) = ReadPlaces(q, a)
    BY <1>1, <1>4, <1>5, <1>7 DEF ReadPlaces, IsRead
  <2> QED BY <1>2, <1>7, <2>1 DEF ReadsIn, new
<1> QED BY <1>6, <1>7

\* What the memory has taken.
Memories == [reads : [Lines -> Nat], writes : Nat]

\* What is left of the list, and the memory.
Sends == [left : Seq(Misses), mem : Memories]

\* The reads of a line there.
ReadsOf(st, a) == ReadsIn(st.left, a) + st.mem.reads[a]

\* One request is either left in the list or taken by the memory.
LEMMA SendOneKeeps ==
  ASSUME NEW st \in Sends, NEW r \in Misses
  PROVE  /\ SendOne(st, r) \in Sends
         /\ \A a \in Lines :
              ReadsOf(SendOne(st, r), a) = ReadsOf(st, a) + (IF IsRead(r, a) THEN 1 ELSE 0)
<1> DEFINE t == SendOne(st, r)
<1>1. /\ st.left \in Seq(Misses) /\ st.mem \in Memories
      /\ st.mem.reads \in [Lines -> Nat] /\ st.mem.writes \in Nat
  BY DEF Sends, Memories
<1>2. \A a \in Lines : ReadsIn(st.left, a) \in Nat BY <1>1, QueueFacts
<1>3. r.addr \in Lines /\ r.isWrite \in BOOLEAN BY DEF Misses
<1>4. CASE r.in > 0 \/ ~Takes(st.mem, r)
  <2>1. t = [st EXCEPT !.left = Append(@, r)] BY <1>4 DEF SendOne
  <2> HIDE DEF t
  <2>2. t.left = Append(st.left, r) /\ t.mem = st.mem BY <2>1 DEF Sends
  <2>3. Append(st.left, r) \in Seq(Misses) BY <1>1
  <2>4. t \in Sends BY <2>1, <2>3 DEF Sends
  <2>5. \A a \in Lines : ReadsIn(t.left, a) = ReadsIn(st.left, a) + (IF IsRead(r, a) THEN 1 ELSE 0)
    BY <1>1, <2>2, AppendReads
  <2>7. \A a \in Lines : st.mem.reads[a] \in Nat BY <1>1
  <2>6. \A a \in Lines : ReadsOf(t, a) = ReadsOf(st, a) + (IF IsRead(r, a) THEN 1 ELSE 0)
    BY <1>2, <2>2, <2>5, <2>7 DEF ReadsOf
  <2> QED BY <2>4, <2>6 DEF t
<1>5. CASE ~(r.in > 0 \/ ~Takes(st.mem, r)) /\ r.isWrite
  <2>1. t = [st EXCEPT !.mem.writes = @ + 1] BY <1>5 DEF SendOne
  <2> HIDE DEF t
  <2>2. t \in Sends /\ t.left = st.left /\ t.mem.reads = st.mem.reads
    BY <1>1, <2>1 DEF Sends, Memories
  <2> QED BY <1>1, <1>2, <1>5, <2>2 DEF t, ReadsOf, IsRead
<1>6. CASE ~(r.in > 0 \/ ~Takes(st.mem, r)) /\ ~r.isWrite
  <2>1. t = [st EXCEPT !.mem.reads[r.addr] = @ + 1] BY <1>6 DEF SendOne
  <2> HIDE DEF t
  <2> DEFINE reads == [st.mem.reads EXCEPT ![r.addr] = @ + 1]
  <2>4. reads \in [Lines -> Nat] BY <1>1, <1>3
  <2>5. t = [st EXCEPT !.mem = [st.mem EXCEPT !.reads = reads]] BY <2>1
  <2> HIDE DEF reads
  <2>6. [st.mem EXCEPT !.reads = reads] \in Memories BY <1>1, <2>4 DEF Memories
  <2>2. t \in Sends /\ t.left = st.left /\ t.mem.reads = reads
    BY <1>1, <2>5, <2>6 DEF Sends, Memories
  <2>3. \A a \in Lines : t.mem.reads[a] = st.mem.reads[a] + (IF IsRead(r, a) THEN 1 ELSE 0)
    BY <1>1, <1>3, <1>6, <2>2 DEF IsRead, reads
  <2> QED BY <1>1, <1>2, <2>2, <2>3 DEF t, ReadsOf
<1> QED BY <1>4, <1>5, <1>6

\* A function that is a pass over the first m requests of the list.
Passes(f, s, mem, m) ==
  \A n \in 0 .. m :
    f[n] = IF n = 0 THEN [left |-> <<>>, mem |-> mem]
           ELSE SendOne(f[n - 1], Aged(s.misses[n]))

LEMMA PassExists ==
  ASSUME NEW s, NEW mem, NEW n \in Nat
  PROVE  \E f : f = [i \in 0 .. n |-> f[i]] /\ Passes(f, s, mem, n)
<1> DEFINE P(m) == \E f : f = [i \in 0 .. m |-> f[i]] /\ Passes(f, s, mem, m)
           S == { m \in Nat : P(m) }
           start == [left |-> <<>>, mem |-> mem]
<1>1. 0 \in S
  <2> DEFINE f == [i \in 0 .. 0 |-> start]
  <2>1. f = [i \in 0 .. 0 |-> f[i]] /\ \A i \in 0 .. 0 : f[i] = start /\ i = 0 OBVIOUS
  <2> HIDE DEF f
  <2>2. Passes(f, s, mem, 0) BY <2>1 DEF Passes
  <2> QED BY <2>1, <2>2
<1>2. ASSUME NEW m \in Nat, P(m) PROVE P(m + 1)
  <2>1. PICK f : f = [i \in 0 .. m |-> f[i]] /\ Passes(f, s, mem, m)
    BY <1>2
  <2> DEFINE last == SendOne(f[m], Aged(s.misses[m + 1]))
             g == [i \in 0 .. m + 1 |-> IF i <= m THEN f[i] ELSE last]
  <2>2. \A i \in 0 .. m + 1 : g[i] = IF i <= m THEN f[i] ELSE last OBVIOUS
  <2>3. g = [i \in 0 .. m + 1 |-> g[i]] OBVIOUS
  <2> HIDE DEF g
  <2>4. ASSUME NEW i \in 0 .. m + 1
        PROVE  g[i] = IF i = 0 THEN start ELSE SendOne(g[i - 1], Aged(s.misses[i]))
    <3>1. CASE i \in 0 .. m
      <4>1. g[i] = f[i] /\ (i # 0 => i - 1 \in 0 .. m /\ g[i - 1] = f[i - 1])
        BY <2>2, <3>1
      <4>2. f[i] = IF i = 0 THEN start ELSE SendOne(f[i - 1], Aged(s.misses[i]))
        BY <2>1, <3>1 DEF Passes
      <4> QED BY <4>1, <4>2
    <3>2. CASE i = m + 1
      <4>1. g[i] = last /\ i # 0 BY <2>2, <3>2
      <4>2. i - 1 = m /\ g[i - 1] = f[m] BY <2>2, <3>2
      <4> QED BY <3>2, <4>1, <4>2
    <3> QED BY <3>1, <3>2
  <2>5. Passes(g, s, mem, m + 1) BY <2>4 DEF Passes
  <2> QED BY <2>3, <2>5
<1>3. \A m \in Nat : m \in S => m + 1 \in S BY <1>2
<1> HIDE DEF S
<1>4. Nat \subseteq S BY <1>1, <1>3, NatSetInduction
<1> QED BY <1>4 DEF S

\* SendMisses is what such a pass over the whole list ends with.
LEMMA SendMissesIsPass ==
  ASSUME NEW s \in Caches, NEW mem
  PROVE  \E f : /\ Passes(f, s, mem, Len(s.misses))
                /\ SendMisses(s, mem) = f[Len(s.misses)]
<1> DEFINE body(f, n) == IF n = 0 THEN [left |-> <<>>, mem |-> mem]
                         ELSE SendOne(f[n - 1], Aged(s.misses[n]))
           sent == CHOOSE f : f = [n \in 0 .. Len(s.misses) |-> body(f, n)]
<1>1. Len(s.misses) \in Nat BY CacheFacts, QueueFacts
<1>2. PICK g : g = [i \in 0 .. Len(s.misses) |-> g[i]] /\ Passes(g, s, mem, Len(s.misses))
  BY <1>1, PassExists
<1>3. g = [n \in 0 .. Len(s.misses) |-> body(g, n)] BY <1>2 DEF Passes
<1>4. sent = [n \in 0 .. Len(s.misses) |-> body(sent, n)] BY <1>3, Zenon
<1>5. SendMisses(s, mem) = sent[Len(s.misses)] BY Zenon DEF SendMisses
<1> HIDE DEF sent
<1>6. Passes(sent, s, mem, Len(s.misses)) BY <1>4 DEF Passes
<1> QED BY <1>5, <1>6

\* No read of the list is lost or made twice.
LEMMA SendMissesKeeps ==
  ASSUME NEW s \in Caches, NEW mem \in Memories
  PROVE  /\ SendMisses(s, mem) \in Sends
         /\ \A a \in Lines :
              ReadsOf(SendMisses(s, mem), a) = ReadsIn(s.misses, a) + mem.reads[a]
<1> DEFINE q == s.misses
           P(f, n) == /\ f[n] \in Sends
                      /\ \A a \in Lines :
                           ReadsOf(f[n], a) = ReadsIn(SubSeq(q, 1, n), a) + mem.reads[a]
<1>1. PICK f : Passes(f, s, mem, Len(q)) /\ SendMisses(s, mem) = f[Len(q)]
  BY SendMissesIsPass
<1> DEFINE Done == { n \in Nat : n <= Len(q) => P(f, n) }
<1>2. q \in Seq(Misses) /\ Len(q) \in Nat BY CacheFacts, QueueFacts
<1>3. mem.reads \in [Lines -> Nat] BY DEF Memories
<1>4. 0 \in Done
  <2>1. f[0] = [left |-> <<>>, mem |-> mem] BY <1>1, <1>2 DEF Passes
  <2>2. SubSeq(q, 1, 0) = <<>> BY <1>2
  <2>3. f[0] \in Sends BY <2>1 DEF Sends
  <2>4. \A a \in Lines : ReadsOf(f[0], a) = ReadsIn(<<>>, a) + mem.reads[a]
    BY <2>1 DEF ReadsOf
  <2> QED BY <2>2, <2>3, <2>4
<1>5. ASSUME NEW n \in Nat, n \in Done PROVE n + 1 \in Done
  <2> SUFFICES ASSUME n + 1 <= Len(q) PROVE P(f, n + 1)
    OBVIOUS
  <2>1. P(f, n) /\ n + 1 \in 0 .. Len(q) /\ n + 1 # 0 /\ n + 1 \in 1 .. Len(q)
        /\ (n + 1) - 1 = n
    BY <1>2, <1>5
  <2> DEFINE r == Aged(q[n + 1])
  <2>2. f[n + 1] = SendOne(f[n], r) BY <1>1, <2>1 DEF Passes
  <2>3. q[n + 1] \in Misses BY <1>2, <2>1
  <2>4. r \in Misses /\ r.addr = q[n + 1].addr /\ r.isWrite = q[n + 1].isWrite
    BY <2>3 DEF Aged, Misses
  <2> HIDE DEF r, q
  <2>5. \A a : IsRead(r, a) <=> IsRead(q[n + 1], a) BY <2>4 DEF IsRead
  <2>6. SubSeq(q, 1, n) \in Seq(Misses) BY <1>2, <2>1
  <2>7. SubSeq(q, 1, n + 1) = Append(SubSeq(q, 1, n), q[n + 1]) BY <1>2, <2>1
  <2>8. f[n + 1] \in Sends BY <2>1, <2>2, <2>4, SendOneKeeps
  <2>9. ASSUME NEW a \in Lines
        PROVE  ReadsOf(f[n + 1], a) = ReadsIn(SubSeq(q, 1, n + 1), a) + mem.reads[a]
    <3> DEFINE x == IF IsRead(r, a) THEN 1 ELSE 0
    <3>1. ReadsOf(f[n + 1], a) = ReadsOf(f[n], a) + x BY <2>1, <2>2, <2>4, SendOneKeeps
    <3>2. ReadsIn(SubSeq(q, 1, n + 1), a) = ReadsIn(SubSeq(q, 1, n), a) + x
      <4> DEFINE p == SubSeq(q, 1, n)
                 m == q[n + 1]
      <4>1. p \in Seq(Misses) /\ m \in Misses /\ (IsRead(m, a) <=> IsRead(r, a))
        BY <2>3, <2>5, <2>6
      <4> HIDE DEF p, m
      <4>2. ReadsIn(Append(p, m), a) = ReadsIn(p, a) + (IF IsRead(m, a) THEN 1 ELSE 0)
        BY <4>1, AppendReads
      <4> QED BY <2>7, <4>1, <4>2 DEF p, m
    <3>3. ReadsIn(SubSeq(q, 1, n), a) \in Nat /\ mem.reads[a] \in Nat /\ x \in Nat
      BY <1>3, <2>6, QueueFacts
    <3>4. ReadsOf(f[n], a) = ReadsIn(SubSeq(q, 1, n), a) + mem.reads[a] BY <2>1
    <3> HIDE DEF x
    <3> QED BY <3>1, <3>2, <3>3, <3>4
  <2> QED BY <2>8, <2>9
<1>6. \A n \in Nat : n \in Done => n + 1 \in Done BY <1>5
<1> HIDE DEF Done
<1>7. Nat \subseteq Done BY <1>4, <1>6, NatSetInduction
<1>8. P(f, Len(q)) BY <1>2, <1>7 DEF Done
<1>9. SubSeq(q, 1, Len(q)) = q BY <1>2
<1> QED BY <1>1, <1>8, <1>9

\* The hit list: the lines that are answered by the way, and who is left.
LEMMA CallHitsKeeps ==
  ASSUME NEW s \in Caches, Tracked(s)
  PROVE  LET t == CallHits(s)
             A == { h.addr : h \in Due(s) }
         IN  /\ t \in Caches /\ Tracked(t)
             /\ A \in SUBSET Lines
             /\ t.mshrs = s.mshrs \ A
             /\ t.waiting = [a \in Lines |-> IF a \in A THEN {} ELSE s.waiting[a]]
             /\ t.misses = s.misses
             /\ t.hits = { Aged(h) : h \in s.hits \ Due(s) }
             /\ SameNames(s, t)
<1> DEFINE t == CallHits(s)
           A == { h.addr : h \in Due(s) }
           u == Received(s, A)
<1>1. A \in SUBSET Lines
  <2>1. \A h \in s.hits : h.addr \in Lines BY CacheFacts DEF Answers
  <2> QED BY <2>1 DEF Due
<1>2. t = [u EXCEPT !.hits = { Aged(h) : h \in @ \ Due(s) }] BY DEF CallHits
<1> HIDE DEF A, t, u
<1>3. /\ u \in Caches /\ Tracked(u) /\ u.mshrs = s.mshrs \ A
      /\ u.waiting = [a \in Lines |-> IF a \in A THEN {} ELSE s.waiting[a]]
      /\ u.misses = s.misses /\ u.hits = s.hits /\ SameNames(s, u)
  BY <1>1, ReceivedKeeps DEF u
<1>4. /\ t.sets = u.sets /\ t.mshrs = u.mshrs /\ t.waiting = u.waiting
      /\ t.misses = u.misses /\ t.hits = { Aged(h) : h \in s.hits \ Due(s) }
  BY <1>2, <1>3 DEF Caches
<1>5. { Aged(h) : h \in s.hits \ Due(s) } \in SUBSET Answers
  <2> SUFFICES ASSUME NEW h \in s.hits PROVE Aged(h) \in Answers
    OBVIOUS
  <2>1. h \in Answers BY CacheFacts
  <2> QED BY <2>1 DEF Aged, Answers
<1>6. t \in Caches BY <1>2, <1>3, <1>4, <1>5 DEF Caches
<1>7. Tracked(t) BY <1>3, <1>4 DEF Tracked
<1>8. SameNames(s, t) BY <1>3, <1>4 DEF SameNames
<1> QED BY <1>1, <1>3, <1>4, <1>6, <1>7, <1>8 DEF t, A

----------------------------------------------------------------------------
(* The cores.                                                              *)

CoreStates ==
  [trace : Traces, bubbles : Nat, load : Lines \cup {None}, store : Lines \cup {None},
   next : Nat, window : Seq(Slots), retired : Nat]

CoreOK(core) ==
  /\ core \in CoreStates /\ core.next \in 1 .. Len(core.trace)
  /\ Len(core.window) <= Depth

\* The lines of the loads in a window that are not ready.
Unready(window) ==
  { a \in Lines \cup {None} :
      \E i \in 1 .. Len(window) : window[i].addr = a /\ ~window[i].ready }

LEMMA CoreFacts ==
  ASSUME NEW core, CoreOK(core)
  PROVE  /\ core.trace \in Seq(Instructions) /\ core.trace # <<>>
         /\ core.bubbles \in Nat
         /\ core.load \in Lines \cup {None} /\ core.store \in Lines \cup {None}
         /\ core.window \in Seq(Slots) /\ Len(core.window) \in 0 .. Depth
         /\ core.retired \in Nat
<1>1. core \in CoreStates /\ core.trace \in Traces BY DEF CoreOK, CoreStates
<1>2. core.trace \in Seq(Instructions) /\ core.trace # <<>> BY <1>1, SimpleO3Assumption
<1>3. core.window \in Seq(Slots) BY <1>1 DEF CoreStates
<1>4. Len(core.window) \in Nat /\ Depth \in Nat BY <1>3, SimpleO3Assumption
<1>5. Len(core.window) \in 0 .. Depth BY <1>4 DEF CoreOK
<1> QED BY <1>1, <1>2, <1>3, <1>5 DEF CoreStates

LEMMA WindowFacts ==
  ASSUME NEW w \in Seq(Slots)
  PROVE  /\ Len(w) \in Nat /\ DOMAIN w = 1 .. Len(w)
         /\ \A i \in 1 .. Len(w) :
              w[i] \in Slots /\ w[i].addr \in Lines \cup {None} /\ w[i].ready \in BOOLEAN
<1>1. Len(w) \in Nat /\ DOMAIN w = 1 .. Len(w) /\ \A i \in 1 .. Len(w) : w[i] \in Slots
  OBVIOUS
<1> QED BY <1>1 DEF Slots

LEMMA FetchedFacts ==
  ASSUME NEW core \in CoreStates, core.next \in 1 .. Len(core.trace),
         Len(core.window) <= Depth
  PROVE  CoreOK(Fetched(core)) /\ Fetched(core).window = core.window
<1>1. CoreOK(core) BY DEF CoreOK
<1>2. core.trace \in Seq(Instructions) /\ core.trace # <<>> BY <1>1, CoreFacts
<1>3. Len(core.trace) \in Nat \ {0} BY <1>2
<1>4. core.trace[core.next] \in Instructions BY <1>2
<1> DEFINE inst == core.trace[core.next]
           n    == (core.next % Len(core.trace)) + 1
<1>5. /\ inst.bubbles \in Nat /\ inst.load \in Lines \cup {None}
      /\ inst.store \in Lines \cup {None}
  BY <1>4 DEF Instructions
<1>6. n \in 1 .. Len(core.trace)
  <2>1. core.next \in Nat BY <1>3
  <2>2. core.next % Len(core.trace) \in 0 .. Len(core.trace) - 1 BY <1>3, <2>1
  <2> QED BY <1>3, <2>2
<1>7. Fetched(core) = [core EXCEPT !.bubbles = inst.bubbles, !.load = inst.load,
                                   !.store = inst.store, !.next = n]
  BY DEF Fetched
<1>8. n \in Nat BY <1>3, <1>6
<1> HIDE DEF inst, n
<1>9. /\ Fetched(core) \in CoreStates /\ Fetched(core).trace = core.trace
      /\ Fetched(core).next = n /\ Fetched(core).window = core.window
  BY <1>5, <1>7, <1>8 DEF CoreStates
<1> QED BY <1>6, <1>9 DEF CoreOK

LEMMA NewCoreFacts ==
  ASSUME NEW trace \in Traces
  PROVE  CoreOK(NewCore(trace)) /\ NewCore(trace).window = <<>>
<1> DEFINE core == [trace |-> trace, bubbles |-> 0, load |-> None, store |-> None,
                    next |-> 1, window |-> <<>>, retired |-> 0]
<1>1. trace \in Seq(Instructions) /\ trace # <<>> BY SimpleO3Assumption
<1>2. Len(trace) \in Nat \ {0} /\ 1 \in 1 .. Len(trace) BY <1>1
<1>3. core \in CoreStates BY DEF CoreStates
<1>4. Len(core.window) <= Depth BY SimpleO3Assumption
<1>5. core.next \in 1 .. Len(core.trace) /\ core.window = <<>> BY <1>2
<1> HIDE DEF core
<1>6. CoreOK(Fetched(core)) /\ Fetched(core).window = <<>> BY <1>3, <1>4, <1>5, FetchedFacts
<1> QED BY <1>6 DEF NewCore, core

\* What is retired is ready, and there is an end to it.
LEMMA NumRetiredFacts ==
  ASSUME NEW w \in Seq(Slots)
  PROVE  NumRetired(w) \in 0 .. Len(w) /\ \A i \in 1 .. NumRetired(w) : w[i].ready
<1> DEFINE E == { n \in 0 .. Len(w) : n = Len(w) \/ n = IPC \/ ~w[n + 1].ready }
           m == Min(E)
<1>1. Len(w) \in Nat /\ IPC \in Nat \ {0} BY WindowFacts, SimpleO3Assumption
<1>2. E \in SUBSET Nat /\ Len(w) \in E BY <1>1
<1>3. m \in E /\ \A e \in E : m <= e
  <2> HIDE DEF E
  <2> QED BY <1>2, LeastOf
<1> HIDE DEF m
<1>4. m \in 0 .. Len(w) /\ (m = Len(w) \/ m = IPC \/ ~w[m + 1].ready) BY <1>3
<1>5. m <= IPC
  <2> SUFFICES ASSUME ~(m <= IPC) PROVE FALSE
    OBVIOUS
  <2>1. IPC \in E BY <1>1, <1>4
  <2> QED BY <1>1, <1>3, <1>4, <2>1
<1>6. ASSUME NEW i \in 1 .. m PROVE w[i].ready
  <2> SUFFICES ASSUME ~w[i].ready PROVE FALSE
    OBVIOUS
  <2>1. i - 1 \in 0 .. Len(w) /\ (i - 1) + 1 = i /\ ~(m <= i - 1) BY <1>1, <1>4
  <2>2. i - 1 \in E BY <2>1
  <2> QED BY <1>3, <2>1, <2>2
<1>7. \E n \in 0 .. Len(w) :
        /\ \A i \in 1 .. n : w[i].ready
        /\ n <= IPC
        /\ n = Len(w) \/ n = IPC \/ ~w[n + 1].ready
  BY <1>4, <1>5, <1>6
<1> QED BY <1>7 DEF NumRetired

LEMMA RetireFacts ==
  ASSUME NEW core, CoreOK(core)
  PROVE  /\ CoreOK(Retire(core))
         /\ Unready(Retire(core).window) \subseteq Unready(core.window)
<1> DEFINE w    == core.window
           n    == NumRetired(w)
           new  == SubSeq(w, n + 1, Len(w))
           done == IF core.retired + n > Expected THEN Expected ELSE core.retired + n
<1>1. w \in Seq(Slots) /\ Len(w) \in 0 .. Depth /\ core.retired \in Nat BY CoreFacts
<1>2. Retire(core) = [core EXCEPT !.window = new, !.retired = done] BY DEF Retire
<1>3. n \in 0 .. Len(w) BY <1>1, NumRetiredFacts
<1>4. Expected \in Nat /\ Depth \in Nat BY SimpleO3Assumption
<1> HIDE DEF w, n
<1>5. done \in Nat BY <1>1, <1>3, <1>4
<1>6. Len(w) \in Nat BY <1>1, WindowFacts
<1>7. /\ new \in Seq(Slots) /\ Len(new) = Len(w) - n
      /\ \A i \in 1 .. Len(w) - n : new[i] = w[i + n]
  BY <1>1, <1>3, <1>6
<1> HIDE DEF new, done
<1>8. /\ Retire(core) \in CoreStates /\ Retire(core).trace = core.trace
      /\ Retire(core).next = core.next /\ Retire(core).window = new
  BY <1>2, <1>5, <1>7 DEF CoreStates, CoreOK
<1>9. Len(new) <= Depth BY <1>1, <1>3, <1>4, <1>6, <1>7
<1>10. \A i \in 1 .. Len(new) : i + n \in 1 .. Len(w) /\ new[i] = w[i + n]
  BY <1>3, <1>6, <1>7
<1>11. Unready(new) \subseteq Unready(w) BY <1>10 DEF Unready
<1> QED BY <1>8, <1>9, <1>11 DEF CoreOK, w

LEMMA InsertBubblesFacts ==
  ASSUME NEW core, CoreOK(core)
  PROVE  /\ CoreOK(InsertBubbles(core))
         /\ Unready(InsertBubbles(core).window) \subseteq Unready(core.window)
<1> DEFINE w     == core.window
           room  == Depth - Len(w)
           n     == Inserted(core)
           extra == [i \in 1 .. n |-> [addr |-> None, ready |-> TRUE]]
           new   == w \o extra
<1>1. /\ w \in Seq(Slots) /\ Len(w) \in 0 .. Depth /\ Len(w) \in Nat /\ core.bubbles \in Nat
  BY CoreFacts, WindowFacts
<1>2. IPC \in Nat \ {0} /\ Depth \in Nat /\ room \in Nat BY <1>1, SimpleO3Assumption
<1>3. n \in 0 .. core.bubbles /\ n <= room
  <2> HIDE DEF room
  <2>1. \E k \in 0 .. core.bubbles :
          k <= IPC /\ k <= room /\ (k = core.bubbles \/ k = IPC \/ k = room)
    <3>1. CASE core.bubbles <= IPC /\ core.bubbles <= room BY <1>1, <1>2, <3>1
    <3>2. CASE IPC < core.bubbles /\ IPC <= room BY <1>1, <1>2, <3>2
    <3>3. CASE room < core.bubbles /\ room < IPC BY <1>1, <1>2, <3>3
    <3> QED BY <1>1, <1>2, <3>1, <3>2, <3>3
  <2>2. n = CHOOSE k \in 0 .. core.bubbles :
              k <= IPC /\ k <= room /\ (k = core.bubbles \/ k = IPC \/ k = room)
    BY DEF Inserted, room
  <2> HIDE DEF n
  <2> QED BY <2>1, <2>2
<1>4. InsertBubbles(core) = [core EXCEPT !.bubbles = @ - n, !.window = new]
  BY DEF InsertBubbles
<1> HIDE DEF n
<1>5. n \in Nat /\ core.bubbles - n \in Nat BY <1>1, <1>3
<1>6. extra \in [1 .. n -> Slots] BY DEF Slots
<1>7. \A i \in 1 .. n : extra[i].ready OBVIOUS
<1> HIDE DEF extra
<1>8. extra \in Seq(Slots) /\ Len(extra) = n BY <1>5, <1>6, FunctionIsSeq
<1>9. /\ new \in Seq(Slots) /\ Len(new) = Len(w) + n
      /\ \A i \in 1 .. Len(w) + n : new[i] = IF i <= Len(w) THEN w[i] ELSE extra[i - Len(w)]
  BY <1>1, <1>8
<1>10. Len(new) <= Depth BY <1>1, <1>2, <1>3, <1>5, <1>9
<1> HIDE DEF new
<1>11. /\ InsertBubbles(core) \in CoreStates /\ InsertBubbles(core).trace = core.trace
       /\ InsertBubbles(core).next = core.next /\ InsertBubbles(core).window = new
  BY <1>4, <1>5, <1>9 DEF CoreStates, CoreOK
<1>12. Unready(new) \subseteq Unready(w)
  <2>1. ASSUME NEW i \in 1 .. Len(new), ~new[i].ready
        PROVE  i \in 1 .. Len(w) /\ new[i] = w[i]
    <3>1. CASE i <= Len(w) BY <1>1, <1>5, <1>9, <3>1
    <3>2. CASE ~(i <= Len(w))
      <4>1. i - Len(w) \in 1 .. n BY <1>1, <1>5, <1>9, <3>2
      <4> QED BY <1>7, <1>9, <2>1, <3>2, <4>1
    <3> QED BY <3>1, <3>2
  <2> HIDE DEF w
  <2> QED BY <2>1 DEF Unready
<1> QED BY <1>10, <1>11, <1>12 DEF CoreOK, w

\* A load is put at the end of the window.
LEMMA IssuedFacts ==
  ASSUME NEW w \in Seq(Slots), NEW a \in Lines
  PROVE  LET new == Append(w, [addr |-> a, ready |-> FALSE])
         IN  /\ new \in Seq(Slots) /\ Len(new) = Len(w) + 1
             /\ Unready(new) \subseteq Unready(w) \cup {a}
<1> DEFINE e   == [addr |-> a, ready |-> FALSE]
           new == Append(w, e)
<1>1. e \in Slots /\ e.addr = a BY DEF Slots
<1> HIDE DEF e
<1>2. /\ new \in Seq(Slots) /\ Len(new) = Len(w) + 1 /\ Len(w) \in Nat
      /\ new[Len(w) + 1] = e /\ \A i \in 1 .. Len(w) : new[i] = w[i]
  BY <1>1
<1> HIDE DEF new
<1>3. \A i \in 1 .. Len(new) : i \in 1 .. Len(w) \/ i = Len(w) + 1
  BY <1>2, LastOrBefore
<1>4. Unready(new) \subseteq Unready(w) \cup {a} BY <1>1, <1>2, <1>3 DEF Unready
<1> QED BY <1>2, <1>4 DEF new, e

LEMMA SetReadyFacts ==
  ASSUME NEW core, CoreOK(core), NEW A
  PROVE  /\ CoreOK(SetReady(core, A))
         /\ Unready(SetReady(core, A).window) \subseteq Unready(core.window) \ A
<1> DEFINE w   == core.window
           new == Readied(w, A)
<1>1. w \in Seq(Slots) BY CoreFacts
<1> HIDE DEF w
<1>2. /\ new \in Seq(Slots) /\ Len(new) = Len(w)
      /\ \A i \in 1 .. Len(w) :
           new[i].addr = w[i].addr /\ (new[i].ready <=> w[i].ready \/ w[i].addr \in A)
  BY <1>1, ReadiedFacts
<1> HIDE DEF new
<1>3. Unready(new) \subseteq Unready(w) \ A BY <1>2 DEF Unready
<1>4. SetReady(core, A) = [core EXCEPT !.window = new] BY DEF SetReady, new, w
<1>5. /\ SetReady(core, A) \in CoreStates /\ SetReady(core, A).trace = core.trace
      /\ SetReady(core, A).next = core.next /\ SetReady(core, A).window = new
  BY <1>2, <1>4 DEF CoreStates, CoreOK
<1> QED BY <1>2, <1>3, <1>5 DEF CoreOK, w

----------------------------------------------------------------------------
(* The processor.                                                          *)

\* What a translation has mapped is in the memory.
PagesOK(p) ==
  /\ p = [c \in Cores |-> p[c]]
  /\ \A c \in Cores : \A v \in DOMAIN p[c] : p[c][v] \in Lines

TypeOK ==
  /\ turn \in {0} \cup Cores
  /\ llc \in Caches
  /\ memory \in Memories
  /\ cores = [c \in Cores |-> cores[c]] /\ \A c \in Cores : CoreOK(cores[c])
  /\ PagesOK(pages)

\* The inductive invariant of the cache.
CacheInv == TypeOK /\ Tracked(llc) /\ Homed(llc)

\* A translation is a line.
LEMMA TranslationFacts ==
  ASSUME PagesOK(pages), NEW c \in Cores, NEW v \in Lines, NEW t \in Translations(c, v)
  PROVE  t.addr \in Lines /\ PagesOK(t.pages)
<1>1. CASE v \in DOMAIN pages[c]
  <2>1. t = [addr |-> pages[c][v], pages |-> pages] BY <1>1 DEF Translations
  <2> QED BY <1>1, <2>1 DEF PagesOK
<1>2. CASE v \notin DOMAIN pages[c]
  <2>1. PICK p \in Lines \ Reserved :
          t = [addr |-> p,
               pages |-> [pages EXCEPT ![c] =
                            [u \in DOMAIN @ \cup {v} |-> IF u = v THEN p ELSE @[u]]]]
    BY <1>2 DEF Translations
  <2> DEFINE f   == [u \in DOMAIN pages[c] \cup {v} |-> IF u = v THEN p ELSE pages[c][u]]
             new == [pages EXCEPT ![c] = f]
  <2>2. t.addr = p /\ t.pages = new BY <2>1
  <2>3. \A u \in DOMAIN f : f[u] \in Lines BY DEF PagesOK
  <2> HIDE DEF f
  <2>4. PagesOK(new) BY <2>3 DEF PagesOK
  <2> QED BY <2>2, <2>4
<1> QED BY <1>1, <1>2

\* What a core asks the cache for, if it is taken: the line, and what the cache
\* then does.
Taken(s, t, c, a) == HitStep(s, t, c, a) \/ JoinStep(s, t, c, a) \/ MissStep(s, t, c, a)

\* What a tick of core c does to the cache and to its window.
Issues(c, new) ==
  \/ /\ llc' = llc
     /\ Unready(new.window) \subseteq Unready(cores[c].window)
  \/ \E a \in Lines :
       /\ Taken(llc, llc', c, a)
       /\ Unready(new.window) \subseteq Unready(cores[c].window) \cup {a}

LEMMA StoreIsIssue ==
  ASSUME NEW c \in Cores, NEW a \in Lines, Taken(llc, llc', c, a), NEW new,
         Unready(new.window) \subseteq Unready(cores[c].window)
  PROVE  Issues(c, new)
BY DEF Issues

\* The sets still name only lines that belong to them.
LEMMA IssuesHomed ==
  ASSUME Homed(llc), NEW c \in Cores, NEW new, Issues(c, new)
  PROVE  Homed(llc')
<1>1. CASE llc' = llc BY <1>1
<1>2. CASE \E a \in Lines : Taken(llc, llc', c, a)
  <2>1. SameNames(llc, llc') \/ \E a \in Lines : MissNames(llc, llc', a)
    BY <1>2 DEF Taken, HitStep, JoinStep, MissStep
  <2> QED BY <2>1, HomedKept
<1> QED BY <1>1, <1>2 DEF Issues

LEMMA TickCoreFacts ==
  ASSUME LinesApart, CacheInv, NEW c \in Cores, TickCore(c)
  PROVE  /\ CacheInv' /\ memory' = memory
         /\ cores' = [cores EXCEPT ![c] = cores'[c]]
         /\ Issues(c, cores'[c])
<1> DEFINE core == Retire(cores[c])
           new  == InsertBubbles(core)
           old  == Unready(cores[c].window)
<1>1. /\ llc \in Caches /\ memory \in Memories /\ CoreOK(cores[c]) /\ PagesOK(pages)
      /\ cores = [d \in Cores |-> cores[d]] /\ \A d \in Cores : CoreOK(cores[d])
      /\ Tracked(llc) /\ Homed(llc)
  BY DEF CacheInv, TypeOK
<1>2. CoreOK(core) /\ Unready(core.window) \subseteq old BY <1>1, RetireFacts
<1> HIDE DEF core
<1>3. CoreOK(new) /\ Unready(new.window) \subseteq old BY <1>2, InsertBubblesFacts
<1>4. /\ turn' = After(c) /\ memory' = memory
      /\ Stall(c, core, new) \/ SendLoad(c, core, new) \/ SendStore(c, core, new)
  BY DEF TickCore, core
<1> HIDE DEF new
<1>5. turn' \in {0} \cup Cores BY <1>4 DEF After
\* It is enough to know the new state of the core and of the cache.
<1>6. ASSUME NEW n, CoreOK(n), cores' = [cores EXCEPT ![c] = n],
             llc' \in Caches, Tracked(llc'), PagesOK(pages'), Issues(c, n)
      PROVE  /\ CacheInv' /\ memory' = memory
             /\ cores' = [cores EXCEPT ![c] = cores'[c]]
             /\ Issues(c, cores'[c])
  <2>1. cores'[c] = n BY <1>1, <1>6
  <2>2. cores' = [d \in Cores |-> cores'[d]] BY <1>1, <1>6
  <2>3. \A d \in Cores : CoreOK(cores'[d]) BY <1>1, <1>6
  <2>5. Homed(llc') BY <1>1, <1>6, IssuesHomed
  <2>4. CacheInv'
    BY <1>1, <1>4, <1>5, <1>6, <2>2, <2>3, <2>5 DEF CacheInv, TypeOK, Tracked, Homed, PagesOK
  <2> QED BY <1>4, <1>6, <2>1, <2>4
<1>7. CASE Stall(c, core, new)
  <2>1. cores' = [cores EXCEPT ![c] = new] /\ llc' = llc /\ pages' = pages
    BY <1>7 DEF Stall
  <2>2. Issues(c, new) BY <1>3, <2>1 DEF Issues
  <2>3. llc' \in Caches /\ Tracked(llc') /\ PagesOK(pages')
    BY <1>1, <2>1
  <2> QED BY <1>3, <1>6, <2>1, <2>2, <2>3
<1>8. CASE SendLoad(c, core, new)
  <2>1. new.load \in Lines
    <3>1. new.load \in Lines \cup {None} BY <1>3, CoreFacts
    <3>2. new.load # None BY <1>8 DEF SendLoad
    <3> QED BY <3>1, <3>2
  <2>2. PICK t \in Translations(c, new.load) :
          LET answer == Send(llc, c, t.addr, FALSE)
              issued == [new EXCEPT !.window = Append(@, [addr |-> t.addr, ready |-> FALSE]),
                                    !.load = None]
          IN  /\ pages' = t.pages
              /\ llc' = answer.llc
              /\ cores' = [cores EXCEPT ![c] =
                   IF ~answer.ok THEN new
                   ELSE IF new.store # None THEN issued
                   ELSE Fetched(issued)]
    BY <1>8 DEF SendLoad
  <2> DEFINE answer == Send(llc, c, t.addr, FALSE)
             w      == Append(new.window, [addr |-> t.addr, ready |-> FALSE])
             issued == [new EXCEPT !.window = w, !.load = None]
  <2>3. t.addr \in Lines /\ PagesOK(t.pages) BY <1>1, <2>1, TranslationFacts
  <2>4. /\ answer.llc \in Caches /\ Tracked(answer.llc)
        /\ answer.ok \in BOOLEAN /\ (~answer.ok => answer.llc = llc)
        /\ answer.ok => Taken(llc, answer.llc, c, t.addr)
    BY <1>1, <2>3, SendKeeps DEF Taken
  <2>5. /\ pages' = t.pages /\ llc' = answer.llc
        /\ cores' = [cores EXCEPT ![c] = IF ~answer.ok THEN new
                                         ELSE IF new.store # None THEN issued
                                         ELSE Fetched(issued)]
    BY <2>2
  <2> HIDE DEF answer
  <2>6. new.window \in Seq(Slots) /\ Len(new.window) \in 0 .. Depth BY <1>3, CoreFacts
  <2>7. CASE ~answer.ok
    <3>1. Issues(c, new) BY <1>3, <2>4, <2>5, <2>7 DEF Issues
    <3> QED BY <1>3, <1>6, <2>3, <2>4, <2>5, <2>7, <3>1
  <2>8. CASE answer.ok
    <3>1. Len(new.window) # Depth BY <1>8 DEF SendLoad, NoPlace
    <3>2. /\ w \in Seq(Slots) /\ Len(w) = Len(new.window) + 1
          /\ Unready(w) \subseteq Unready(new.window) \cup {t.addr}
      BY <2>3, <2>6, IssuedFacts
    <3> HIDE DEF w
    <3>3. Len(w) <= Depth BY <2>6, <3>1, <3>2, SimpleO3Assumption
    <3>4. /\ issued \in CoreStates /\ issued.trace = new.trace /\ issued.next = new.next
          /\ issued.window = w
      BY <1>3, <3>2 DEF CoreOK, CoreStates
    <3> HIDE DEF issued
    <3>5. CoreOK(issued) BY <1>3, <3>3, <3>4 DEF CoreOK
    <3>6. CoreOK(Fetched(issued)) /\ Fetched(issued).window = w
      BY <3>4, <3>5, FetchedFacts DEF CoreOK
    <3>7. PICK n : /\ CoreOK(n) /\ n.window = w
                   /\ cores' = [cores EXCEPT ![c] = n]
      BY <2>5, <2>8, <3>4, <3>5, <3>6
    <3>8. Issues(c, n) BY <1>3, <2>3, <2>4, <2>5, <2>8, <3>2, <3>7 DEF Issues
    <3> QED BY <1>6, <2>3, <2>4, <2>5, <3>7, <3>8
  <2> QED BY <2>4, <2>7, <2>8
<1>9. CASE SendStore(c, core, new)
  <2>1. new.store \in Lines
    <3>1. new.store \in Lines \cup {None} BY <1>3, CoreFacts
    <3>2. new.store # None BY <1>9 DEF SendStore
    <3> QED BY <3>1, <3>2
  <2>2. PICK t \in Translations(c, new.store) :
          LET answer == Send(llc, c, t.addr, TRUE)
          IN  /\ pages' = t.pages
              /\ llc' = answer.llc
              /\ cores' = [cores EXCEPT ![c] = IF answer.ok THEN Fetched(new) ELSE new]
    BY <1>9 DEF SendStore
  <2> DEFINE answer == Send(llc, c, t.addr, TRUE)
  <2>3. t.addr \in Lines /\ PagesOK(t.pages) BY <1>1, <2>1, TranslationFacts
  <2>4. /\ answer.llc \in Caches /\ Tracked(answer.llc)
        /\ answer.ok \in BOOLEAN /\ (~answer.ok => answer.llc = llc)
        /\ answer.ok => Taken(llc, answer.llc, c, t.addr)
    BY <1>1, <2>3, SendKeeps DEF Taken
  <2>5. /\ pages' = t.pages /\ llc' = answer.llc
        /\ cores' = [cores EXCEPT ![c] = IF answer.ok THEN Fetched(new) ELSE new]
    BY <2>2
  <2> HIDE DEF answer
  <2>6. CoreOK(Fetched(new)) /\ Fetched(new).window = new.window
    BY <1>3, FetchedFacts DEF CoreOK
  <2>7. CASE ~answer.ok
    <3>1. Issues(c, new) BY <1>3, <2>4, <2>5, <2>7 DEF Issues
    <3> QED BY <1>3, <1>6, <2>3, <2>4, <2>5, <2>7, <3>1
  <2>8. CASE answer.ok
    <3>1. Taken(llc, llc', c, t.addr) BY <2>4, <2>5, <2>8
    <3>2. Unready(Fetched(new).window) \subseteq old BY <1>3, <2>6
    <3>3. Issues(c, Fetched(new)) BY <2>3, <3>1, <3>2, StoreIsIssue
    <3> QED BY <1>6, <2>3, <2>4, <2>5, <2>6, <2>8, <3>3
  <2> QED BY <2>4, <2>7, <2>8
<1> QED BY <1>4, <1>7, <1>8, <1>9

\* The cores are called for the hits that are due, and the miss list is sent.
LEMMA TickLLCFacts ==
  ASSUME CacheInv, TickLLC
  PROVE  LET A == { h.addr : h \in Due(llc) }
         IN  /\ CacheInv'
             /\ A \in SUBSET Lines
             /\ llc'.mshrs = llc.mshrs \ A
             /\ llc'.waiting = [a \in Lines |-> IF a \in A THEN {} ELSE llc.waiting[a]]
             /\ llc'.hits = { Aged(h) : h \in llc.hits \ Due(llc) }
             /\ SameNames(llc, llc')
             /\ \A a \in Lines : ReadsIn(llc'.misses, a) + memory'.reads[a]
                                   = ReadsIn(llc.misses, a) + memory.reads[a]
             /\ \A c \in Cores :
                  Unready(cores'[c].window) \subseteq
                    Unready(cores[c].window) \ { h.addr : h \in { g \in Due(llc) : g.core = c } }
<1> DEFINE A    == { h.addr : h \in Due(llc) }
           sent == SendMisses(llc, memory)
           s    == CallHits(llc)
           B(c) == { h.addr : h \in { g \in Due(llc) : g.core = c } }
<1>1. /\ llc \in Caches /\ Tracked(llc) /\ Homed(llc) /\ memory \in Memories /\ PagesOK(pages)
      /\ cores = [d \in Cores |-> cores[d]] /\ \A d \in Cores : CoreOK(cores[d])
  BY DEF CacheInv, TypeOK
<1>2. /\ turn' = After(0) /\ memory' = sent.mem
      /\ llc' = [s EXCEPT !.misses = sent.left]
      /\ cores' = [c \in Cores |-> SetReady(cores[c], B(c))]
      /\ pages' = pages
  BY DEF TickLLC
<1>3. /\ s \in Caches /\ Tracked(s) /\ A \in SUBSET Lines /\ s.mshrs = llc.mshrs \ A
      /\ s.waiting = [a \in Lines |-> IF a \in A THEN {} ELSE llc.waiting[a]]
      /\ s.hits = { Aged(h) : h \in llc.hits \ Due(llc) } /\ SameNames(llc, s)
  BY <1>1, CallHitsKeeps
<1>4. /\ sent \in Sends
      /\ \A a \in Lines : ReadsOf(sent, a) = ReadsIn(llc.misses, a) + memory.reads[a]
  BY <1>1, SendMissesKeeps
<1> HIDE DEF A, sent, s, B
<1>5. sent.left \in Seq(Misses) /\ sent.mem \in Memories BY <1>4 DEF Sends
<1>6. /\ llc'.sets = s.sets /\ llc'.mshrs = s.mshrs /\ llc'.waiting = s.waiting
      /\ llc'.misses = sent.left /\ llc'.hits = s.hits
  BY <1>2, <1>3 DEF Caches
<1>7. llc' \in Caches BY <1>2, <1>3, <1>5 DEF Caches
<1>8. Tracked(llc') BY <1>3, <1>6 DEF Tracked
<1>9. \A c \in Cores : /\ CoreOK(cores'[c])
                       /\ Unready(cores'[c].window) \subseteq Unready(cores[c].window) \ B(c)
  BY <1>1, <1>2, SetReadyFacts
<1>10. cores' = [c \in Cores |-> cores'[c]] BY <1>2
<1>11. turn' \in {0} \cup Cores BY <1>2 DEF After
<1>14. SameNames(llc, llc') BY <1>3, <1>6 DEF SameNames
<1>15. Homed(llc') BY <1>1, <1>14, HomedKept
<1>12. CacheInv'
  BY <1>1, <1>2, <1>5, <1>7, <1>8, <1>9, <1>10, <1>11, <1>15 DEF CacheInv, TypeOK, Tracked, Homed, PagesOK
<1>13. \A a \in Lines : ReadsIn(llc'.misses, a) + memory'.reads[a]
                          = ReadsIn(llc.misses, a) + memory.reads[a]
  BY <1>2, <1>4, <1>6 DEF ReadsOf
<1> QED BY <1>3, <1>6, <1>9, <1>12, <1>13, <1>14 DEF A, B

\* The memory answers a read.
LEMMA AnswerFacts ==
  ASSUME CacheInv, NEW a \in Lines, Answer(a)
  PROVE  /\ CacheInv'
         /\ llc'.mshrs = llc.mshrs \ {a}
         /\ llc'.waiting = [b \in Lines |-> IF b = a THEN {} ELSE llc.waiting[b]]
         /\ llc'.misses = llc.misses /\ llc'.hits = llc.hits
         /\ SameNames(llc, llc')
         /\ memory.reads[a] > 0 /\ memory'.reads = [memory.reads EXCEPT ![a] = @ - 1]
         /\ \A c \in Cores :
              Unready(cores'[c].window) \subseteq
                Unready(cores[c].window) \ (IF c \in llc.waiting[a] THEN {a} ELSE {})
<1>1. /\ llc \in Caches /\ Tracked(llc) /\ Homed(llc) /\ memory \in Memories /\ PagesOK(pages)
      /\ cores = [d \in Cores |-> cores[d]] /\ \A d \in Cores : CoreOK(cores[d])
      /\ turn \in {0} \cup Cores
  BY DEF CacheInv, TypeOK
<1>2. /\ memory.reads[a] > 0
      /\ memory' = [memory EXCEPT !.reads[a] = @ - 1]
      /\ llc' = Received(llc, {a})
      /\ cores' = [c \in Cores |-> IF c \in llc.waiting[a] THEN SetReady(cores[c], {a})
                                   ELSE cores[c]]
      /\ turn' = turn /\ pages' = pages
  BY DEF Answer
<1>3. /\ llc' \in Caches /\ Tracked(llc') /\ llc'.mshrs = llc.mshrs \ {a}
      /\ llc'.waiting = [b \in Lines |-> IF b = a THEN {} ELSE llc.waiting[b]]
      /\ llc'.misses = llc.misses /\ llc'.hits = llc.hits
      /\ SameNames(llc, llc')
  <2> DEFINE A == {a}
  <2>1. A \in SUBSET Lines /\ \A b : b \in A <=> b = a OBVIOUS
  <2>2. llc' = Received(llc, A) BY <1>2
  <2> HIDE DEF A
  <2>3. /\ Received(llc, A) \in Caches /\ Tracked(Received(llc, A))
        /\ Received(llc, A).mshrs = llc.mshrs \ A
        /\ Received(llc, A).waiting = [b \in Lines |-> IF b \in A THEN {} ELSE llc.waiting[b]]
        /\ Received(llc, A).misses = llc.misses /\ Received(llc, A).hits = llc.hits
        /\ SameNames(llc, Received(llc, A))
    BY <1>1, <2>1, ReceivedKeeps
  <2>4. llc.mshrs \ A = llc.mshrs \ {a} BY DEF A
  <2>5. [b \in Lines |-> IF b \in A THEN {} ELSE llc.waiting[b]]
          = [b \in Lines |-> IF b = a THEN {} ELSE llc.waiting[b]]
    BY <2>1
  <2> QED BY <2>2, <2>3, <2>4, <2>5
<1>4. /\ memory' \in Memories /\ memory'.reads = [memory.reads EXCEPT ![a] = @ - 1]
  <2> DEFINE new == [memory.reads EXCEPT ![a] = @ - 1]
  <2>1. memory.reads \in [Lines -> Nat] BY <1>1 DEF Memories
  <2>2. memory.reads[a] - 1 \in Nat BY <1>2, <2>1
  <2>3. new \in [Lines -> Nat] BY <2>1, <2>2
  <2>4. memory' = [memory EXCEPT !.reads = new] BY <1>2
  <2> HIDE DEF new
  <2>5. memory' \in Memories /\ memory'.reads = new BY <1>1, <2>3, <2>4 DEF Memories
  <2> QED BY <2>5 DEF new
<1>5. \A c \in Cores :
        /\ CoreOK(cores'[c])
        /\ Unready(cores'[c].window) \subseteq
             Unready(cores[c].window) \ (IF c \in llc.waiting[a] THEN {a} ELSE {})
  <2> SUFFICES ASSUME NEW c \in Cores
               PROVE  /\ CoreOK(cores'[c])
                      /\ Unready(cores'[c].window) \subseteq
                           Unready(cores[c].window) \ (IF c \in llc.waiting[a] THEN {a} ELSE {})
    OBVIOUS
  <2>1. CASE c \in llc.waiting[a]
    <3>1. cores'[c] = SetReady(cores[c], {a}) BY <1>2, <2>1
    <3>2. /\ CoreOK(SetReady(cores[c], {a}))
          /\ Unready(SetReady(cores[c], {a}).window) \subseteq Unready(cores[c].window) \ {a}
      BY <1>1, SetReadyFacts
    <3> QED BY <2>1, <3>1, <3>2
  <2>2. CASE c \notin llc.waiting[a]
    <3>1. cores'[c] = cores[c] BY <1>2, <2>2
    <3> QED BY <1>1, <2>2, <3>1
  <2> QED BY <2>1, <2>2
<1>6. cores' = [c \in Cores |-> cores'[c]] BY <1>2
<1>8. Homed(llc') BY <1>1, <1>3, HomedKept
<1>7. CacheInv'
  BY <1>1, <1>2, <1>3, <1>4, <1>5, <1>6, <1>8 DEF CacheInv, TypeOK, Tracked, Homed, PagesOK
<1> QED BY <1>2, <1>3, <1>4, <1>5, <1>7

\* The memory finishes a write.
LEMMA DrainFacts ==
  ASSUME CacheInv, Drain
  PROVE  /\ CacheInv' /\ llc' = llc /\ cores' = cores /\ memory'.reads = memory.reads
<1>1. memory \in Memories /\ memory.writes \in Nat
  BY DEF CacheInv, TypeOK, Memories
<1>2. /\ memory.writes > 0 /\ memory' = [memory EXCEPT !.writes = @ - 1]
      /\ turn' = turn /\ llc' = llc /\ cores' = cores /\ pages' = pages
  BY DEF Drain
<1>3. memory.writes - 1 \in Nat BY <1>1, <1>2
<1>4. memory' \in Memories /\ memory'.reads = memory.reads BY <1>1, <1>2, <1>3 DEF Memories
<1> QED BY <1>2, <1>4 DEF CacheInv, TypeOK, Tracked, Homed, PagesOK

LEMMA CacheInit ==
  ASSUME Init
  PROVE  /\ CacheInv
         /\ llc.mshrs = {} /\ llc.hits = {} /\ llc.misses = <<>>
         /\ \A k \in 0 .. NumSets - 1 : llc.sets[k] = <<>>
         /\ \A a \in Lines : memory.reads[a] = 0
         /\ \A c \in Cores : Unready(cores[c].window) = {}
<1>1. /\ turn = 0 /\ llc = EmptyLLC /\ memory = Idle
      /\ \E chosen \in [Cores -> Traces] : cores = [c \in Cores |-> NewCore(chosen[c])]
      /\ \E translation \in Translation : pages = Pages(translation)
  BY DEF Init
<1>2. /\ llc.sets = [i \in 0 .. NumSets - 1 |-> <<>>] /\ llc.mshrs = {}
      /\ llc.waiting = [a \in Lines |-> {}] /\ llc.misses = <<>> /\ llc.hits = {}
  BY <1>1 DEF EmptyLLC
<1>3. llc \in Caches BY <1>1 DEF EmptyLLC, Caches
<1>4. Tracked(llc)
  <2> SUFFICES ASSUME NEW a \in Lines PROVE Tracks(llc.sets[Index(a)], a, a \in llc.mshrs)
    BY DEF Tracked
  <2>1. llc.sets[Index(a)] = <<>> BY <1>2, IndexFacts
  <2>2. 1 .. Len(llc.sets[Index(a)]) = {} BY <2>1
  <2>3. a \notin llc.mshrs BY <1>2
  <2> QED BY <2>2, <2>3 DEF Tracks
<1>5. memory \in Memories /\ \A a \in Lines : memory.reads[a] = 0
  BY <1>1 DEF Idle, Memories
<1>6. PICK chosen \in [Cores -> Traces] : cores = [c \in Cores |-> NewCore(chosen[c])]
  BY <1>1
<1>7. \A c \in Cores : CoreOK(cores[c]) /\ cores[c].window = <<>> BY <1>6, NewCoreFacts
<1>8. cores = [c \in Cores |-> cores[c]] BY <1>6
<1>9. \A c \in Cores : Unready(cores[c].window) = {}
  <2>1. \A c \in Cores : Len(cores[c].window) = 0 BY <1>7
  <2> QED BY <2>1 DEF Unready
<1>10. PagesOK(pages)
  <2>1. PICK translation \in Translation : pages = Pages(translation) BY <1>1
  <2>2. CASE translation = "None" BY <2>1, <2>2 DEF Pages, PagesOK
  <2>3. CASE translation # "None"
    <3>1. pages = [c \in Cores |-> <<>>] BY <2>1, <2>3 DEF Pages
    <3> QED BY <3>1 DEF PagesOK
  <2> QED BY <2>2, <2>3
<1>11. Homed(llc)
  <2>1. \A k \in 0 .. NumSets - 1 : Len(llc.sets[k]) = 0 BY <1>2
  <2> QED BY <2>1 DEF Homed, Names
<1> QED BY <1>1, <1>2, <1>3, <1>4, <1>5, <1>7, <1>8, <1>9, <1>10, <1>11 DEF CacheInv, TypeOK

LEMMA CacheStep ==
  ASSUME LinesApart, CacheInv, [Next]_vars
  PROVE  CacheInv'
<1>1. CASE TickLLC BY <1>1, TickLLCFacts
<1>2. CASE \E c \in Cores : TickCore(c) BY <1>2, TickCoreFacts
<1>3. CASE \E a \in Lines : Answer(a) BY <1>3, AnswerFacts
<1>4. CASE Drain BY <1>4, DrainFacts
<1>5. CASE UNCHANGED vars BY <1>5 DEF CacheInv, TypeOK, Tracked, Homed, PagesOK, vars
<1> QED BY <1>1, <1>2, <1>3, <1>4, <1>5 DEF Next

LEMMA CacheAlways ==
  ASSUME LinesApart
  PROVE  Spec => []CacheInv
<1>1. Init => CacheInv BY CacheInit
<1>2. CacheInv /\ [Next]_vars => CacheInv' BY CacheStep
<1> QED BY <1>1, <1>2, PTL DEF Spec

\* A line is in its set once, and is in flight there exactly as long as it has a
\* miss-status entry: whatever is evicted, hit, joined or answered in between, and
\* however late a hit is answered.  It holds as far as the index and the tag of
\* llc.h tell lines apart, which a number of sets that is no power of two need not.
THEOREM InFlight ==
  ASSUME LinesApart
  PROVE  Spec => []InFlightTracked
<1>1. ASSUME CacheInv PROVE InFlightTracked
  <2> SUFFICES ASSUME NEW a \in Lines
               PROVE  /\ \A i, j \in DOMAIN InSet(a) :
                           InSet(a)[i].addr = a /\ InSet(a)[j].addr = a => i = j
                      /\ a \in llc.mshrs <=> \E i \in DOMAIN InSet(a) :
                                               InSet(a)[i].addr = a /\ ~InSet(a)[i].ready
    BY DEF InFlightTracked
  <2>1. llc \in Caches /\ Tracked(llc) BY <1>1 DEF CacheInv, TypeOK
  <2>2. InSet(a) \in Seq(Entries) BY <2>1, SetOf DEF InSet
  <2>3. DOMAIN InSet(a) = 1 .. Len(InSet(a)) BY <2>2, SetFacts
  <2>4. Tracks(InSet(a), a, a \in llc.mshrs) BY <2>1 DEF Tracked, InSet
  <2> HIDE DEF InSet
  <2> QED BY <2>3, <2>4 DEF Tracks
<1> QED BY <1>1, CacheAlways, PTL

----------------------------------------------------------------------------
(* Who is told, and what is read: as long as no hit is answered while its  *)
(* line is being fetched again.                                            *)

\* A load that is not ready, of core c and line a, will be told.
Told(s, c, a) ==
  \/ \E h \in s.hits : h.core = c /\ h.addr = a
  \/ a \in s.mshrs /\ c \in s.waiting[a]

LoadInv == \A c \in Cores : \A a \in Unready(cores[c].window) : Told(llc, c, a)

LEMMA LoadInvIsAwaited ==
  ASSUME CacheInv, LoadInv
  PROVE  LoadAwaited
<1> SUFFICES ASSUME NEW c \in Cores, NEW i \in DOMAIN cores[c].window,
                    ~cores[c].window[i].ready
             PROVE  Told(llc, c, cores[c].window[i].addr)
  BY DEF LoadAwaited, Told
<1>1. CoreOK(cores[c]) BY DEF CacheInv, TypeOK
<1>2. cores[c].window \in Seq(Slots) BY <1>1, CoreFacts
<1>3. i \in 1 .. Len(cores[c].window) /\ cores[c].window[i].addr \in Lines \cup {None}
  BY <1>2, WindowFacts
<1>4. cores[c].window[i].addr \in Unready(cores[c].window) BY <1>3 DEF Unready
<1> QED BY <1>4 DEF LoadInv

\* Who was to be told before a core's request was taken still is.
LEMMA TakenTells ==
  ASSUME NEW s \in Caches, NEW t, NEW c \in Cores, NEW a \in Lines, Taken(s, t, c, a)
  PROVE  /\ Told(t, c, a)
         /\ \A d \in Cores : \A b : Told(s, d, b) => Told(t, d, b)
<1>1. s.waiting \in [Lines -> SUBSET Cores] /\ s.mshrs \in SUBSET Lines BY CacheFacts
<1>2. CASE HitStep(s, t, c, a)
  <2> DEFINE h == [in |-> Latency, addr |-> a, core |-> c]
  <2>1. /\ h.core = c /\ h.addr = a /\ t.hits = s.hits \cup {h}
        /\ t.mshrs = s.mshrs /\ t.waiting = s.waiting
    BY <1>2 DEF HitStep
  <2> HIDE DEF h
  <2> QED BY <2>1 DEF Told
<1>3. CASE JoinStep(s, t, c, a)
  <2>1. /\ a \in s.mshrs /\ t.mshrs = s.mshrs /\ t.hits = s.hits
        /\ t.waiting = [s.waiting EXCEPT ![a] = @ \cup {c}]
    BY <1>3 DEF JoinStep
  <2>2. \A b \in Lines : t.waiting[b] = IF b = a THEN s.waiting[b] \cup {c} ELSE s.waiting[b]
    BY <1>1, <2>1
  <2> QED BY <1>1, <2>1, <2>2 DEF Told
<1>4. CASE MissStep(s, t, c, a)
  <2>1. /\ a \notin s.mshrs /\ t.mshrs = s.mshrs \cup {a} /\ t.hits = s.hits
        /\ t.waiting = [s.waiting EXCEPT ![a] = {c}]
    BY <1>4 DEF MissStep
  <2>2. \A b \in Lines : t.waiting[b] = IF b = a THEN {c} ELSE s.waiting[b]
    BY <1>1, <2>1
  <2> QED BY <1>1, <2>1, <2>2 DEF Told
<1> QED BY <1>2, <1>3, <1>4 DEF Taken

LEMMA LoadStep ==
  ASSUME LinesApart, CacheInv, HitsSettled, LoadInv, [Next]_vars
  PROVE  LoadInv'
<1>1. llc \in Caches /\ llc.waiting \in [Lines -> SUBSET Cores] /\ llc.mshrs \in SUBSET Lines
      /\ cores = [d \in Cores |-> cores[d]]
  BY CacheFacts DEF CacheInv, TypeOK
<1>2. CASE TickLLC
  <2> DEFINE A    == { h.addr : h \in Due(llc) }
             B(c) == { h.addr : h \in { g \in Due(llc) : g.core = c } }
  <2>1. /\ llc'.mshrs = llc.mshrs \ A
        /\ llc'.waiting = [a \in Lines |-> IF a \in A THEN {} ELSE llc.waiting[a]]
        /\ llc'.hits = { Aged(h) : h \in llc.hits \ Due(llc) }
        /\ \A c \in Cores : Unready(cores'[c].window) \subseteq Unready(cores[c].window) \ B(c)
    BY <1>2, TickLLCFacts
  <2>2. \A a \in A : a \notin llc.mshrs BY DEF Due, HitsSettled
  <2>3. \A c : \A h \in Due(llc) : h.core = c => h.addr \in B(c) OBVIOUS
  <2> HIDE DEF A, B
  <2> SUFFICES ASSUME NEW c \in Cores, NEW a \in Unready(cores'[c].window)
               PROVE  Told(llc', c, a)
    BY DEF LoadInv
  <2>4. Told(llc, c, a) /\ a \notin B(c) BY <2>1 DEF LoadInv
  <2>5. CASE a \in llc.mshrs /\ c \in llc.waiting[a]
    BY <1>1, <2>1, <2>2, <2>5 DEF Told
  <2>6. CASE \E h \in llc.hits : h.core = c /\ h.addr = a
    <3>1. PICK h \in llc.hits : h.core = c /\ h.addr = a BY <2>6
    <3>2. h \notin Due(llc) BY <2>3, <2>4, <3>1
    <3>3. h \in Answers BY <3>1, CacheFacts, <1>1
    <3>4. Aged(h).core = c /\ Aged(h).addr = a BY <3>1, <3>3 DEF Aged, Answers
    <3>5. Aged(h) \in llc'.hits BY <2>1, <3>1, <3>2
    <3> QED BY <3>4, <3>5 DEF Told
  <2> QED BY <2>4, <2>5, <2>6 DEF Told
<1>3. CASE \E c \in Cores : TickCore(c)
  <2>1. PICK c \in Cores : TickCore(c) BY <1>3
  <2>2. cores' = [cores EXCEPT ![c] = cores'[c]] /\ Issues(c, cores'[c])
    BY <2>1, TickCoreFacts
  <2> SUFFICES ASSUME NEW d \in Cores, NEW b \in Unready(cores'[d].window)
               PROVE  Told(llc', d, b)
    BY DEF LoadInv
  <2>3. d # c => cores'[d] = cores[d] BY <1>1, <2>2
  <2>4. CASE llc' = llc /\ Unready(cores'[c].window) \subseteq Unready(cores[c].window)
    <3>1. b \in Unready(cores[d].window) BY <2>3, <2>4
    <3> QED BY <2>4, <3>1 DEF LoadInv
  <2>5. CASE \E a \in Lines :
               /\ Taken(llc, llc', c, a)
               /\ Unready(cores'[c].window) \subseteq Unready(cores[c].window) \cup {a}
    <3>1. PICK a \in Lines :
            /\ Taken(llc, llc', c, a)
            /\ Unready(cores'[c].window) \subseteq Unready(cores[c].window) \cup {a}
      BY <2>5
    <3>2. /\ Told(llc', c, a)
          /\ \A e \in Cores : \A x : Told(llc, e, x) => Told(llc', e, x)
      BY <1>1, <3>1, TakenTells
    <3>3. b \in Unready(cores[d].window) \/ (d = c /\ b = a) BY <2>3, <3>1
    <3> QED BY <3>2, <3>3 DEF LoadInv
  <2> QED BY <2>2, <2>4, <2>5 DEF Issues
<1>4. CASE \E a \in Lines : Answer(a)
  <2>1. PICK a \in Lines : Answer(a) BY <1>4
  <2>2. /\ llc'.mshrs = llc.mshrs \ {a} /\ llc'.hits = llc.hits
        /\ llc'.waiting = [b \in Lines |-> IF b = a THEN {} ELSE llc.waiting[b]]
        /\ \A c \in Cores :
             Unready(cores'[c].window) \subseteq
               Unready(cores[c].window) \ (IF c \in llc.waiting[a] THEN {a} ELSE {})
    BY <2>1, AnswerFacts
  <2> SUFFICES ASSUME NEW c \in Cores, NEW b \in Unready(cores'[c].window)
               PROVE  Told(llc', c, b)
    BY DEF LoadInv
  <2>3. Told(llc, c, b) /\ ~(b = a /\ c \in llc.waiting[a]) BY <2>2 DEF LoadInv
  <2> QED BY <1>1, <2>2, <2>3 DEF Told
<1>5. CASE Drain
  <2>1. llc' = llc /\ cores' = cores BY <1>5, DrainFacts
  <2> QED BY <2>1 DEF LoadInv
<1>6. CASE UNCHANGED vars BY <1>6 DEF LoadInv, vars
<1> QED BY <1>2, <1>3, <1>4, <1>5, <1>6 DEF Next

\* A load that is not ready is on its way back to its core, or its line is being
\* fetched and will be passed on to the core: for every latency, if no hit is
\* ever answered while its line is being fetched again.  The run LostWakeUp shows
\* that the hypothesis is needed.
THEOREM LoadsAwaited ==
  ASSUME LinesApart
  PROVE  Spec /\ []HitsSettled => []LoadAwaited
<1>1. Init => LoadInv BY CacheInit DEF LoadInv
<1>2. CacheInv /\ HitsSettled /\ LoadInv /\ [Next]_vars => LoadInv' BY LoadStep
<1>3. CacheInv /\ LoadInv => LoadAwaited BY LoadInvIsAwaited
<1> QED BY <1>1, <1>2, <1>3, CacheAlways, PTL DEF Spec

\* Every line being fetched is read once, and no other.
ReadInv ==
  \A a \in Lines :
    ReadsIn(llc.misses, a) + memory.reads[a] = IF a \in llc.mshrs THEN 1 ELSE 0

\* A miss queues one more read, of its line.
LEMMA MissQueueReads ==
  ASSUME NEW s \in Caches, NEW a \in Lines, NEW q, MissQueue(s, a, q), NEW b
  PROVE  ReadsIn(q, b) = ReadsIn(s.misses, b) + (IF b = a THEN 1 ELSE 0)
<1> DEFINE r == [in |-> Latency, addr |-> a, isWrite |-> FALSE]
<1>1. s.misses \in Seq(Misses) BY CacheFacts
<1>2. r \in Misses /\ (IsRead(r, b) <=> b = a) BY LLCAssumption DEF Misses, IsRead
<1>3. PICK p \in Seq(Misses) :
        /\ p = s.misses \/ \E w \in Misses : w.isWrite /\ p = Append(s.misses, w)
        /\ q = Append(p, r)
  BY DEF MissQueue
<1> HIDE DEF r
<1>4. ReadsIn(s.misses, b) \in Nat BY <1>1, QueueFacts
<1>5. ReadsIn(p, b) = ReadsIn(s.misses, b)
  <2>1. CASE \E w \in Misses : w.isWrite /\ p = Append(s.misses, w)
    <3>1. PICK w \in Misses : w.isWrite /\ p = Append(s.misses, w) BY <2>1
    <3>2. ~IsRead(w, b) BY <3>1 DEF IsRead
    <3>3. ReadsIn(p, b) = ReadsIn(s.misses, b) + 0 BY <1>1, <3>1, <3>2, AppendReads
    <3> QED BY <1>4, <3>3
  <2> QED BY <1>3, <2>1
<1>6. ReadsIn(q, b) = ReadsIn(p, b) + (IF IsRead(r, b) THEN 1 ELSE 0)
  BY <1>2, <1>3, AppendReads
<1> QED BY <1>2, <1>5, <1>6

LEMMA ReadStep ==
  ASSUME LinesApart, CacheInv, HitsSettled, ReadInv, [Next]_vars
  PROVE  ReadInv'
<1>1. /\ llc \in Caches /\ memory.reads \in [Lines -> Nat] /\ llc.misses \in Seq(Misses)
  BY CacheFacts DEF CacheInv, TypeOK, Memories
<1>2. \A a \in Lines : ReadsIn(llc.misses, a) \in Nat BY <1>1, QueueFacts
<1>3. CASE TickLLC
  <2> DEFINE A == { h.addr : h \in Due(llc) }
  <2>1. /\ llc'.mshrs = llc.mshrs \ A
        /\ \A a \in Lines : ReadsIn(llc'.misses, a) + memory'.reads[a]
                              = ReadsIn(llc.misses, a) + memory.reads[a]
    BY <1>3, TickLLCFacts
  <2>2. \A a \in A : a \notin llc.mshrs BY DEF Due, HitsSettled
  <2> QED BY <2>1, <2>2 DEF ReadInv
<1>4. CASE \E c \in Cores : TickCore(c)
  <2>1. PICK c \in Cores : TickCore(c) BY <1>4
  <2>2. Issues(c, cores'[c]) /\ memory' = memory BY <2>1, TickCoreFacts
  <2>3. CASE llc' = llc BY <2>2, <2>3 DEF ReadInv
  <2>4. CASE \E a \in Lines : Taken(llc, llc', c, a)
    <3>1. PICK a \in Lines : Taken(llc, llc', c, a) BY <2>4
    <3>2. CASE llc'.misses = llc.misses /\ llc'.mshrs = llc.mshrs BY <2>2, <3>2 DEF ReadInv
    <3>3. CASE MissStep(llc, llc', c, a)
      <4>1. /\ a \notin llc.mshrs /\ llc'.mshrs = llc.mshrs \cup {a}
            /\ MissQueue(llc, a, llc'.misses)
        BY <3>3 DEF MissStep
      <4>2. \A b \in Lines :
              ReadsIn(llc'.misses, b) = ReadsIn(llc.misses, b) + (IF b = a THEN 1 ELSE 0)
        BY <1>1, <4>1, MissQueueReads
      <4>3. \A b \in Lines : memory.reads[b] \in Nat BY <1>1
      <4> QED BY <1>2, <2>2, <4>1, <4>2, <4>3 DEF ReadInv
    <3> QED BY <3>1, <3>2, <3>3 DEF Taken, HitStep, JoinStep
  <2> QED BY <2>2, <2>3, <2>4 DEF Issues
<1>5. CASE \E a \in Lines : Answer(a)
  <2>1. PICK a \in Lines : Answer(a) BY <1>5
  <2>2. /\ llc'.mshrs = llc.mshrs \ {a} /\ llc'.misses = llc.misses
        /\ memory.reads[a] > 0 /\ memory'.reads = [memory.reads EXCEPT ![a] = @ - 1]
    BY <2>1, AnswerFacts
  <2>3. \A b \in Lines : /\ memory.reads[b] \in Nat
                         /\ memory'.reads[b] = IF b = a THEN memory.reads[b] - 1
                                               ELSE memory.reads[b]
    BY <1>1, <2>2
  <2>4. a \in llc.mshrs /\ ReadsIn(llc.misses, a) + memory.reads[a] = 1
    BY <1>2, <2>2, <2>3 DEF ReadInv
  <2> QED BY <1>2, <2>2, <2>3, <2>4 DEF ReadInv
<1>6. CASE Drain
  <2>1. llc' = llc /\ memory'.reads = memory.reads BY <1>6, DrainFacts
  <2> QED BY <2>1 DEF ReadInv
<1>7. CASE UNCHANGED vars BY <1>7 DEF ReadInv, vars
<1> QED BY <1>3, <1>4, <1>5, <1>6, <1>7 DEF Next

\* However many cores ask for a line, and whatever is refused on the way, the
\* line is read from the memory once at a time, and only while it is in flight:
\* for every latency, on the same condition.
THEOREM LinesFetchedOnce ==
  ASSUME LinesApart
  PROVE  Spec /\ []HitsSettled => []FetchedOnce
<1>1. Init => ReadInv
  <2> SUFFICES ASSUME Init PROVE ReadInv
    OBVIOUS
  <2>1. /\ llc.mshrs = {} /\ llc.misses = <<>> /\ \A a \in Lines : memory.reads[a] = 0
    BY CacheInit
  <2>2. \A a \in Lines : ReadsIn(llc.misses, a) = 0 BY <2>1, NoReadsIn
  <2> QED BY <2>1, <2>2 DEF ReadInv
<1>2. CacheInv /\ HitsSettled /\ ReadInv /\ [Next]_vars => ReadInv' BY ReadStep
<1>3. ReadInv => FetchedOnce
  BY DEF ReadInv, FetchedOnce, ReadsQueued, ReadsIn, ReadPlaces
<1> QED BY <1>1, <1>2, <1>3, CacheAlways, PTL DEF Spec

----------------------------------------------------------------------------
(* Where the condition holds: two cores whose hits are answered in the     *)
(* tick after they were made, or sets that never have to evict a line.     *)

\* A hit made in this tick is of a line that is in its set still.
EarlyInv ==
  /\ HitsSettled
  /\ \A h \in llc.hits : h.in <= 1
  /\ turn = 1 => llc.hits = {}
  /\ turn = 2 => \A h \in llc.hits : Hit(llc.sets[Index(h.addr)], h.addr) # {}

LEMMA EarlyStep ==
  ASSUME LinesApart, Latency <= 1, Cores \subseteq 1 .. 2, CacheInv, EarlyInv, [Next]_vars
  PROVE  EarlyInv'
<1>1. llc \in Caches /\ turn \in {0} \cup Cores BY DEF CacheInv, TypeOK
<1>2. CASE TickLLC
  <2>1. llc'.hits = { Aged(h) : h \in llc.hits \ Due(llc) } BY <1>2, TickLLCFacts
  <2>2. llc.hits \ Due(llc) = {} BY DEF EarlyInv, Due
  <2>3. llc'.hits = {} BY <2>1, <2>2
  <2> QED BY <2>3 DEF EarlyInv, HitsSettled
<1>3. CASE \E c \in Cores : TickCore(c)
  <2>1. PICK c \in Cores : TickCore(c) BY <1>3
  <2>2. Issues(c, cores'[c]) BY <2>1, TickCoreFacts
  <2>3. turn = c /\ turn' = (IF c + 1 \in Cores THEN c + 1 ELSE 0)
    BY <2>1 DEF TickCore, After
  <2>4. (c = 1 /\ llc.hits = {} /\ turn' # 1)
        \/ (turn' = 0 /\ \A h \in llc.hits : Hit(llc.sets[Index(h.addr)], h.addr) # {})
    <3>1. c = 1 \/ c = 2 OBVIOUS
    <3>2. 3 \notin Cores OBVIOUS
    <3>3. CASE c = 1 BY <2>3, <3>3 DEF EarlyInv
    <3>4. CASE c = 2 BY <2>3, <3>2, <3>4 DEF EarlyInv
    <3> QED BY <3>1, <3>3, <3>4
  <2>5. CASE llc' = llc BY <2>4, <2>5 DEF EarlyInv, HitsSettled
  <2>6. CASE \E a \in Lines : Taken(llc, llc', c, a)
    <3>1. PICK a \in Lines : Taken(llc, llc', c, a) BY <2>6
    <3>2. CASE HitStep(llc, llc', c, a)
      <4> DEFINE h == [in |-> Latency, addr |-> a, core |-> c]
      <4>1. h.in <= 1 /\ h.addr = a OBVIOUS
      <4>2. /\ llc'.hits = llc.hits \cup {h} /\ llc'.mshrs = llc.mshrs /\ a \notin llc.mshrs
            /\ Hit(llc'.sets[Index(a)], a) # {}
        BY <3>2 DEF HitStep
      <4> HIDE DEF h
      <4>3. HitsSettled' BY <4>1, <4>2 DEF EarlyInv, HitsSettled
      <4>4. \A g \in llc'.hits : g.in <= 1 BY <4>1, <4>2 DEF EarlyInv
      <4>5. turn' = 2 => \A g \in llc'.hits : Hit(llc'.sets[Index(g.addr)], g.addr) # {}
        BY <2>4, <4>1, <4>2
      <4>6. turn' # 1 BY <2>4
      <4> QED BY <4>3, <4>4, <4>5, <4>6 DEF EarlyInv
    <3>3. CASE JoinStep(llc, llc', c, a)
      <4>1. llc'.hits = llc.hits /\ llc'.mshrs = llc.mshrs BY <3>3 DEF JoinStep
      <4> QED BY <2>4, <4>1 DEF EarlyInv, HitsSettled
    <3>4. CASE MissStep(llc, llc', c, a)
      <4>1. /\ llc'.hits = llc.hits /\ llc'.mshrs = llc.mshrs \cup {a}
            /\ Hit(llc.sets[Index(a)], a) = {}
        BY <3>4 DEF MissStep
      <4> QED BY <2>4, <4>1 DEF EarlyInv, HitsSettled
    <3> QED BY <3>1, <3>2, <3>3, <3>4 DEF Taken
  <2> QED BY <2>2, <2>5, <2>6 DEF Issues
<1>4. CASE \E a \in Lines : Answer(a)
  <2>1. PICK a \in Lines : Answer(a) BY <1>4
  <2>2. llc'.mshrs = llc.mshrs \ {a} /\ llc'.hits = llc.hits BY <2>1, AnswerFacts
  <2>3. turn = 0 /\ turn' = 0 BY <2>1 DEF Answer
  <2> QED BY <2>2, <2>3 DEF EarlyInv, HitsSettled
<1>5. CASE Drain
  <2>1. llc' = llc /\ turn' = turn BY <1>5 DEF Drain
  <2> QED BY <2>1 DEF EarlyInv, HitsSettled
<1>6. CASE UNCHANGED vars BY <1>6 DEF EarlyInv, HitsSettled, vars
<1> QED BY <1>2, <1>3, <1>4, <1>5, <1>6 DEF Next

\* No hit is answered while its line is being fetched again, if hits are answered
\* in the next tick and there are no more than two cores.  Of four, the second may
\* hit another line, the third evict the line that the first has hit, and the
\* fourth fetch it again.
THEOREM EarlyHitsSettled ==
  ASSUME LinesApart, Latency <= 1, Cores \subseteq 1 .. 2
  PROVE  Spec => []HitsSettled
<1>1. Init => EarlyInv
  <2> SUFFICES ASSUME Init PROVE EarlyInv
    OBVIOUS
  <2>1. llc.hits = {} BY CacheInit
  <2> QED BY <2>1 DEF EarlyInv, HitsSettled
<1>2. CacheInv /\ EarlyInv /\ [Next]_vars => EarlyInv' BY EarlyStep
<1>3. EarlyInv => HitsSettled BY DEF EarlyInv
<1> QED BY <1>1, <1>2, <1>3, CacheAlways, PTL DEF Spec

\* A line with a hit to answer is in its set and is not being fetched.
RoomInv ==
  /\ \A h \in llc.hits : h.addr \in Names(llc.sets[Index(h.addr)])
  /\ HitsSettled

\* A set that names neither a nor a line twice has a place for it.
LEMMA RoomForLine ==
  ASSUME NEW s \in Caches, Tracked(s), NEW a \in Lines,
         Names(s.sets[Index(a)]) \subseteq Home(Index(a)) \ {a},
         IsFiniteSet(Home(Index(a))), Cardinality(Home(Index(a))) <= Associativity
  PROVE  Len(s.sets[Index(a)]) < Associativity
<1> DEFINE set == s.sets[Index(a)]
           H   == Home(Index(a))
           f   == [i \in 1 .. Len(set) |-> set[i].addr]
<1>1. set \in Seq(Entries) BY SetOf
<1>2. /\ Len(set) \in Nat /\ \A i \in 1 .. Len(set) : set[i].addr \in Lines
  BY <1>1, SetFacts
<1>3. \A i, j \in 1 .. Len(set) : f[i] = f[j] => i = j
  <2> SUFFICES ASSUME NEW i \in 1 .. Len(set), NEW j \in 1 .. Len(set),
                      set[i].addr = set[j].addr
               PROVE  i = j
    OBVIOUS
  <2> DEFINE b == set[i].addr
  <2>1. b \in Lines BY <1>2
  <2>2. Index(b) = Index(a)
    <3>1. b \in Names(set) BY DEF Names
    <3> QED BY <3>1 DEF Home
  <2>3. Tracks(set, b, b \in s.mshrs) BY <2>1, <2>2 DEF Tracked
  <2> QED BY <2>3 DEF Tracks
<1>4. \A i \in 1 .. Len(set) : f[i] \in H \ {a}
  <2>1. \A i \in 1 .. Len(set) : set[i].addr \in Names(set) BY DEF Names
  <2>2. Names(set) \subseteq H \ {a} OBVIOUS
  <2> HIDE DEF H, set
  <2> QED BY <2>1, <2>2
<1> HIDE DEF set, H
<1>5. f \in Injection(1 .. Len(set), H \ {a})
  <2>1. f \in [1 .. Len(set) -> H \ {a}] BY <1>4
  <2> HIDE DEF f
  <2> QED BY <1>3, <2>1 DEF Injection, IsInjective
<1> HIDE DEF f
<1>6. a \in H BY DEF H, Home
<1>7. IsFiniteSet(H \ {a}) /\ Cardinality(H \ {a}) = Cardinality(H) - 1
  BY <1>6, FS_RemoveElement DEF H
<1>8. Cardinality(1 .. Len(set)) <= Cardinality(H \ {a}) BY <1>5, <1>7, FS_Injection
<1>9. Cardinality(1 .. Len(set)) = Len(set)
  <2> DEFINE n == Len(set)
  <2>1. n \in Nat /\ n \in Int /\ 1 \in Int BY <1>2
  <2> HIDE DEF n
  <2>2. Cardinality(1 .. n) = IF 1 > n THEN 0 ELSE n - 1 + 1 BY <2>1, FS_Interval
  <2>3. (IF 1 > n THEN 0 ELSE n - 1 + 1) = n BY <2>1
  <2> QED BY <2>2, <2>3 DEF n
<1>10. Cardinality(H) \in Nat BY FS_CardinalityType DEF H
<1>11. Cardinality(H) <= Associativity BY DEF H
<1> QED BY <1>2, <1>7, <1>8, <1>9, <1>10, <1>11, LLCAssumption DEF set

LEMMA RoomStep ==
  ASSUME LinesApart,
         \A k \in 0 .. NumSets - 1 :
           IsFiniteSet(Home(k)) /\ Cardinality(Home(k)) <= Associativity,
         CacheInv, RoomInv, [Next]_vars
  PROVE  RoomInv'
<1>1. llc \in Caches /\ Tracked(llc) /\ Homed(llc) BY DEF CacheInv, TypeOK
<1>2. \A h \in llc.hits : h \in Answers /\ h.addr \in Lines BY <1>1, CacheFacts DEF Answers
\* Naming the same lines, with no hits and no miss-status entries that are new.
<1>3. ASSUME SameNames(llc, llc'), llc'.mshrs \subseteq llc.mshrs,
             \A h \in llc'.hits : \E g \in llc.hits : h.addr = g.addr
      PROVE  RoomInv'
  <2>1. ASSUME NEW h \in llc'.hits
        PROVE  h.addr \in Names(llc'.sets[Index(h.addr)]) /\ h.addr \notin llc'.mshrs
    <3>1. PICK g \in llc.hits : h.addr = g.addr BY <1>3, <2>1
    <3>2. g.addr \in Names(llc.sets[Index(g.addr)]) /\ g.addr \notin llc.mshrs
      BY DEF RoomInv, HitsSettled
    <3>3. Index(g.addr) \in 0 .. NumSets - 1 BY <1>2, IndexFacts
    <3> QED BY <1>3, <3>1, <3>2, <3>3 DEF SameNames
  <2> QED BY <2>1 DEF RoomInv, HitsSettled, Index
<1>4. CASE TickLLC
  <2> DEFINE A == { h.addr : h \in Due(llc) }
  <2>1. /\ llc'.mshrs = llc.mshrs \ A /\ SameNames(llc, llc')
        /\ llc'.hits = { Aged(h) : h \in llc.hits \ Due(llc) }
    BY <1>4, TickLLCFacts
  <2>2. \A h \in llc.hits : Aged(h).addr = h.addr BY <1>2 DEF Aged, Answers
  <2> HIDE DEF A
  <2> QED BY <1>3, <2>1, <2>2
<1>5. CASE \E c \in Cores : TickCore(c)
  <2>1. PICK c \in Cores : TickCore(c) BY <1>5
  <2>2. Issues(c, cores'[c]) BY <2>1, TickCoreFacts
  <2>3. CASE llc' = llc BY <1>3, <2>3 DEF SameNames
  <2>4. CASE \E a \in Lines : Taken(llc, llc', c, a)
    <3>1. PICK a \in Lines : Taken(llc, llc', c, a) BY <2>4
    <3>2. Index(a) \in 0 .. NumSets - 1 BY IndexFacts
    <3>3. CASE HitStep(llc, llc', c, a)
      <4> DEFINE h == [in |-> Latency, addr |-> a, core |-> c]
      <4>1. /\ h.addr = a /\ llc'.hits = llc.hits \cup {h} /\ llc'.mshrs = llc.mshrs
            /\ a \notin llc.mshrs /\ Hit(llc'.sets[Index(a)], a) # {}
            /\ SameNames(llc, llc')
        BY <3>3 DEF HitStep
      <4> HIDE DEF h
      <4>2. a \in Names(llc'.sets[Index(a)])
        <5> DEFINE set == llc'.sets[Index(a)]
        <5>1. llc' \in Caches /\ Tracked(llc') /\ Homed(llc')
          <6>1. CacheInv' BY <2>1, TickCoreFacts
          <6> QED BY <6>1 DEF CacheInv, TypeOK, Tracked, Homed, Index
        <5>2. set \in Seq(Entries) BY <5>1, SetOf
        <5>3. DOMAIN set = 1 .. Len(set) BY <5>2, SetFacts
        <5>4. Hit(set, a) = { i \in DOMAIN set : set[i].addr = a /\ set[i].ready }
          BY <5>1, MatchFacts
        <5>5. Hit(set, a) # {} BY <4>1
        <5> HIDE DEF set
        <5>6. a \in Names(set) BY <5>3, <5>4, <5>5 DEF Names
        <5> QED BY <5>6 DEF set
      <4>4. ASSUME NEW g \in llc'.hits
            PROVE  g.addr \in Names(llc'.sets[Index(g.addr)]) /\ g.addr \notin llc'.mshrs
        <5>1. CASE g = h BY <4>1, <4>2, <5>1
        <5>2. CASE g \in llc.hits
          <6>1. g.addr \in Names(llc.sets[Index(g.addr)]) /\ g.addr \notin llc.mshrs
            BY <5>2 DEF RoomInv, HitsSettled
          <6>2. Index(g.addr) \in 0 .. NumSets - 1 BY <1>2, <5>2, IndexFacts
          <6> QED BY <4>1, <6>1, <6>2 DEF SameNames
        <5> QED BY <4>1, <5>1, <5>2
      <4> QED BY <4>4 DEF RoomInv, HitsSettled, Index
    <3>4. CASE JoinStep(llc, llc', c, a)
      <4>1. llc'.mshrs = llc.mshrs /\ llc'.hits = llc.hits /\ SameNames(llc, llc')
        BY <3>4 DEF JoinStep
      <4> QED BY <1>3, <4>1
    <3>5. CASE MissStep(llc, llc', c, a)
      <4>1. /\ a \notin llc.mshrs /\ Hit(llc.sets[Index(a)], a) = {}
            /\ llc'.mshrs = llc.mshrs \cup {a} /\ llc'.hits = llc.hits
            /\ MissNames(llc, llc', a)
        BY <3>5 DEF MissStep
      <4>2. a \notin Names(llc.sets[Index(a)])
        <5> DEFINE set == llc.sets[Index(a)]
        <5> SUFFICES ASSUME NEW i \in 1 .. Len(set), set[i].addr = a PROVE FALSE
          BY DEF Names
        <5>1. set \in Seq(Entries) /\ Tracks(set, a, a \in llc.mshrs)
          BY <1>1, SetOf DEF Tracked
        <5>2. set[i].ready BY <4>1, <5>1 DEF Tracks
        <5>3. DOMAIN set = 1 .. Len(set) BY <5>1, SetFacts
        <5>4. Hit(set, a) = { j \in DOMAIN set : set[j].addr = a /\ set[j].ready }
          BY <1>1, MatchFacts
        <5>5. Hit(set, a) = {} BY <4>1
        <5> HIDE DEF set
        <5> QED BY <5>2, <5>3, <5>4, <5>5
      <4>3. Names(llc.sets[Index(a)]) \subseteq Home(Index(a)) \ {a}
        BY <1>1, <3>2, <4>2 DEF Homed
      <4>4. Len(llc.sets[Index(a)]) < Associativity BY <1>1, <3>2, <4>3, RoomForLine
      <4>5. \A k \in 0 .. NumSets - 1 :
              /\ Names(llc.sets[k]) \subseteq Names(llc'.sets[k])
              /\ Names(llc'.sets[k]) \subseteq
                   Names(llc.sets[k]) \cup (IF k = Index(a) THEN {a} ELSE {})
        BY <4>1, <4>4 DEF MissNames
      <4>7. ASSUME NEW g \in llc'.hits
            PROVE  g.addr \in Names(llc'.sets[Index(g.addr)]) /\ g.addr \notin llc'.mshrs
        <5>1. /\ g \in llc.hits /\ g.addr \in Names(llc.sets[Index(g.addr)])
              /\ g.addr \notin llc.mshrs
          BY <4>1 DEF RoomInv, HitsSettled
        <5>2. Index(g.addr) \in 0 .. NumSets - 1 BY <1>2, <5>1, IndexFacts
        <5>3. g.addr # a BY <4>2, <5>1
        <5> QED BY <4>1, <4>5, <5>1, <5>2, <5>3
      <4> QED BY <4>7 DEF RoomInv, HitsSettled, Index
    <3> QED BY <3>1, <3>3, <3>4, <3>5 DEF Taken
  <2> QED BY <2>2, <2>3, <2>4 DEF Issues
<1>6. CASE \E a \in Lines : Answer(a)
  <2>1. PICK a \in Lines : Answer(a) BY <1>6
  <2>2. /\ llc'.mshrs = llc.mshrs \ {a} /\ llc'.hits = llc.hits /\ SameNames(llc, llc')
    BY <2>1, AnswerFacts
  <2> QED BY <1>3, <2>2
<1>7. CASE Drain
  <2>1. llc' = llc BY <1>7, DrainFacts
  <2> QED BY <1>3, <2>1 DEF SameNames
<1>8. CASE UNCHANGED vars
  <2>1. llc' = llc BY <1>8 DEF vars
  <2> QED BY <1>3, <2>1 DEF SameNames
<1> QED BY <1>4, <1>5, <1>6, <1>7, <1>8 DEF Next

\* For every latency and any number of cores: no hit is answered while its line is
\* being fetched again, if no set ever has to evict a line.
THEOREM RoomyHitsSettled ==
  ASSUME LinesApart,
         \A k \in 0 .. NumSets - 1 :
           IsFiniteSet(Home(k)) /\ Cardinality(Home(k)) <= Associativity
  PROVE  Spec => []HitsSettled
<1>1. Init => RoomInv
  <2> SUFFICES ASSUME Init PROVE RoomInv
    OBVIOUS
  <2>1. llc.hits = {} BY CacheInit
  <2> QED BY <2>1 DEF RoomInv, HitsSettled
<1>2. CacheInv /\ RoomInv /\ [Next]_vars => RoomInv' BY RoomStep
<1>3. RoomInv => HitsSettled BY DEF RoomInv
<1> QED BY <1>1, <1>2, <1>3, CacheAlways, PTL DEF Spec
=============================================================================

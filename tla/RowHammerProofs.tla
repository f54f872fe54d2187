---------------------------- MODULE RowHammerProofs ----------------------------
(***************************************************************************)
(* What the RowHammer mitigations promise, for every number of rows,       *)
(* threshold, table and cache: Hydra's cache and its table in DRAM agree,  *)
(* the row indirection finds the rows it swapped, and a row's neighbours   *)
(* are refreshed before it has been activated too often.  For Hydra the    *)
(* rows of a group are taken to be those it is initialized with.           *)
(***************************************************************************)
EXTENDS RowHammer, ProofLemmas

----------------------------------------------------------------------------
(* The places of rows in Hydra's cache, and its groups.                    *)

\* A row has one place in the cache.
LEMMA RowOfPlace ==
  ASSUME NEW x \in Rows
  PROVE  x = (TagOf(x) * Pow2[Log2(Sets)]) + SetOf(x) /\ SetOf(x) \in 0 .. Sets - 1
<1> DEFINE d == Pow2[Log2(Sets)]
<1>1. x \in Nat /\ Sets \in Nat \ {0} BY HydraAssumption, RowHammerAssumption DEF Rows
<1>2. Log2(Sets) \in Nat /\ d <= Sets BY <1>1, Log2Facts
<1>3. d \in Nat \ {0} BY <1>2, Pow2Facts
<1>4. SetOf(x) = x % d /\ TagOf(x) = x \div d BY DEF SetOf, TagOf
<1> HIDE DEF d
<1>5. x \div d \in Nat /\ x % d \in 0 .. d - 1 /\ x = d * (x \div d) + (x % d)
  BY <1>1, <1>3, DivFacts
<1>6. d * (x \div d) = (x \div d) * d BY <1>3, <1>5
<1>7. x % d \in 0 .. Sets - 1 BY <1>1, <1>2, <1>3, <1>5
<1>8. x = (TagOf(x) * d) + SetOf(x) BY <1>4, <1>5, <1>6
<1> QED BY <1>4, <1>7, <1>8 DEF d

LEMMA SamePlace ==
  ASSUME NEW x \in Rows, NEW y \in Rows, SetOf(x) = SetOf(y), TagOf(x) = TagOf(y)
  PROVE  x = y
BY RowOfPlace

\* The rows of a group are those it is initialized with.
GroupsMatch == Pow2[GroupBits] = GroupSize

LEMMA GroupRowsFacts ==
  ASSUME GroupsMatch, NEW x \in Rows, NEW y \in Rows
  PROVE  x \in GroupRows(GroupOf(y)) <=> GroupOf(x) = GroupOf(y)
<1> DEFINE d == GroupSize
<1>1. x \in Nat /\ y \in Nat /\ d \in Nat \ {0}
  BY HydraAssumption, RowHammerAssumption DEF Rows
<1>2. GroupOf(x) = x \div d /\ GroupOf(y) = y \div d BY DEF GroupsMatch, GroupOf
<1>3. PICK k \in Nat : k = y \div d BY <1>1, DivFacts
<1>4. PICK j \in Nat, m \in 0 .. d - 1 : j = x \div d /\ x = d * j + m BY <1>1, DivFacts
<1>5. GroupRows(k) = k * d .. k * d + d - 1 BY DEF GroupRows
<1> HIDE DEF d
<1>6. ASSUME j = k PROVE x \in k * d .. k * d + d - 1
  <2>1. d * j = k * d /\ d * j \in Nat BY <1>1, <1>6
  <2> QED BY <1>1, <1>4, <2>1
<1>7. ASSUME x \in k * d .. k * d + d - 1 PROVE j = k
  <2>1. d * k = k * d /\ k * d \in Nat BY <1>1
  <2>2. x - d * k \in 0 .. d - 1 /\ x = d * k + (x - d * k) BY <1>1, <1>7, <2>1
  <2>3. x \div d = k BY <1>1, <2>2, DivUnique
  <2> QED BY <1>4, <2>3
<1> QED BY <1>2, <1>3, <1>4, <1>5, <1>6, <1>7

\* Banks and groups of powers of two of rows, the configurations shipped.
LEMMA PowersMatch ==
  ASSUME NEW k \in Nat, NEW j \in Nat, GroupSize = Pow2[k], NumRows = Pow2[k + j]
  PROVE  GroupsMatch
<1> DEFINE T == { n \in Nat : Pow2[k + n] = Pow2[k] * Pow2[n] }
<1>1. Pow2[k] \in Nat \ {0} /\ Pow2[j] \in Nat \ {0} /\ k + j \in Nat BY Pow2Facts
<1>2. 0 \in T BY <1>1, Pow2Facts
<1>3. ASSUME NEW n \in Nat, n \in T PROVE n + 1 \in T
  <2>1. Pow2[n] \in Nat /\ Pow2[k + n] \in Nat BY Pow2Facts
  <2>2. Pow2[n + 1] = 2 * Pow2[n] /\ Pow2[(k + n) + 1] = 2 * Pow2[k + n]
        /\ (k + n) + 1 = k + (n + 1)
    BY Pow2Facts
  <2>3. 2 * (Pow2[k] * Pow2[n]) = Pow2[k] * (2 * Pow2[n]) BY <1>1, <2>1
  <2> QED BY <1>3, <2>2, <2>3
<1>4. Pow2[k + j] = Pow2[k] * Pow2[j]
  <2> HIDE DEF T
  <2>1. Nat \subseteq T BY <1>2, <1>3, NatSetInduction
  <2> QED BY <2>1 DEF T
<1>5. NumRows \div GroupSize = Pow2[j]
  <2> DEFINE a == Pow2[k]
             b == Pow2[j]
  <2>1. NumRows = a * b /\ GroupSize = a /\ a \in Nat \ {0} /\ b \in Nat BY <1>1, <1>4
  <2>2. NumRows \in Nat BY RowHammerAssumption
  <2> HIDE DEF a, b
  <2>3. 0 \in 0 .. a - 1 /\ NumRows = a * b + 0 BY <2>1, <2>2
  <2>4. NumRows \div a = b BY <2>1, <2>2, <2>3, DivUnique
  <2> QED BY <2>1, <2>4 DEF b
<1>6. Log2(NumRows) = k + j /\ Log2(NumRows \div GroupSize) = j
  BY <1>1, <1>5, Log2Power
<1>7. GroupBits = k BY <1>6 DEF GroupBits
<1> QED BY <1>7 DEF GroupsMatch

----------------------------------------------------------------------------
(* Hydra's cache and table: the inductive invariant.                       *)

Entries == [n : Int, initialized : BOOLEAN]

\* The entry of a set for a tag is the count the table has of a row, and the
\* row's group has its rows counted one by one.
Held(g, r, cache, i, tag, x) ==
  /\ SetOf(x) = i /\ TagOf(x) = tag
  /\ x \in DOMAIN r /\ r[x] = cache[i][tag]
  /\ GroupOf(x) \in DOMAIN g /\ g[GroupOf(x)].initialized = TRUE

Agree(g, r, cache) ==
  /\ DOMAIN cache = 0 .. Sets - 1
  /\ \A k \in DOMAIN g : g[k] \in Entries
  /\ \A i \in DOMAIN cache : \A tag \in DOMAIN cache[i] :
       \E x \in Rows : Held(g, r, cache, i, tag, x)

HydraInv == Agree(group, rct, rcc)

LEMMA EmptyAgree == Agree(<<>>, <<>>, EmptyCache)
BY DEF Agree, EmptyCache

\* What an activation finds in the group table.
EntryOf(g, k) == IF k \in DOMAIN g THEN g[k] ELSE [n |-> 0, initialized |-> FALSE]

LEMMA GroupCountAgree ==
  ASSUME NEW g, NEW r, NEW cache, NEW k, Agree(g, r, cache)
  PROVE  Agree(With(g, k, [EntryOf(g, k) EXCEPT !.n = @ + 1]), r, cache)
<1> DEFINE e == EntryOf(g, k)
           new == [e EXCEPT !.n = @ + 1]
           h == With(g, k, new)
<1>1. e \in Entries BY DEF Agree, EntryOf, Entries
<1>2. new \in Entries /\ new.initialized = e.initialized BY <1>1 DEF Entries
<1> HIDE DEF new
<1>3. /\ DOMAIN h = DOMAIN g \cup {k} /\ h[k] = new
      /\ \A y \in DOMAIN g \ {k} : h[y] = g[y]
  BY DEF With
<1> HIDE DEF h
<1>4. \A y \in DOMAIN g : h[y].initialized = g[y].initialized
  BY <1>2, <1>3 DEF EntryOf
<1>5. \A y \in DOMAIN h : h[y] \in Entries BY <1>2, <1>3 DEF Agree
<1>6. ASSUME NEW i \in DOMAIN cache, NEW tag \in DOMAIN cache[i]
      PROVE  \E x \in Rows : Held(h, r, cache, i, tag, x)
  <2>1. PICK x \in Rows : Held(g, r, cache, i, tag, x) BY DEF Agree
  <2>2. Held(h, r, cache, i, tag, x) BY <1>3, <1>4, <2>1 DEF Held
  <2> QED BY <2>2
<1>7. Agree(h, r, cache) BY <1>5, <1>6 DEF Agree
<1> QED BY <1>7 DEF h, new

\* A set with a row in it: the row's count is one more or the one that was read,
\* and no other count changed.
LEMMA FillsCounts ==
  ASSUME NEW set, NEW tag, NEW n, NEW f \in Fills(set, tag, n)
  PROVE  /\ tag \in DOMAIN f.set
         /\ f.set[tag] = IF tag \in DOMAIN set THEN set[tag] + 1 ELSE n
         /\ \A t \in DOMAIN f.set \ {tag} : t \in DOMAIN set /\ f.set[t] = set[t]
<1> DEFINE Counts(new, value) ==
             /\ tag \in DOMAIN new /\ new[tag] = value
             /\ \A t \in DOMAIN new \ {tag} : t \in DOMAIN set /\ new[t] = set[t]
<1>1. \A v : Counts(With(set, tag, v), v) BY DEF With
<1>2. \A v, out : Counts(With(Without(set, out), tag, v), v) BY DEF With, Without
<1>3. f.set = With(set, tag, set[tag] + 1) \/ tag \notin DOMAIN set BY DEF Fills
<1>4. \/ tag \in DOMAIN set
      \/ f.set = With(set, tag, n)
      \/ \E out : f.set = With(Without(set, out), tag, n)
  BY DEF Fills
<1> HIDE DEF Counts
<1>5. Counts(f.set, IF tag \in DOMAIN set THEN set[tag] + 1 ELSE n)
  <2>1. CASE tag \in DOMAIN set BY <1>1, <1>3, <2>1
  <2>2. CASE tag \notin DOMAIN set BY <1>1, <1>2, <1>4, <2>2
  <2> QED BY <2>1, <2>2
<1> QED BY <1>5 DEF Counts
----------------------------------------------------------------------------
(* An activation of a row whose group is suspect.                          *)

\* A count that is cached is the row's count in the table.
LEMMA CachedCount ==
  ASSUME NEW g, NEW r, NEW cache, NEW row \in Rows, Agree(g, r, cache),
         TagOf(row) \in DOMAIN cache[SetOf(row)]
  PROVE  /\ EntryOf(g, GroupOf(row)).initialized
         /\ row \in DOMAIN r /\ cache[SetOf(row)][TagOf(row)] = r[row]
<1>1. SetOf(row) \in DOMAIN cache BY RowOfPlace DEF Agree
<1>2. PICK x \in Rows : Held(g, r, cache, SetOf(row), TagOf(row), x) BY <1>1 DEF Agree
<1>3. x = row BY <1>2, SamePlace DEF Held
<1> QED BY <1>2, <1>3 DEF Held, EntryOf

LEMMA RowCountAgree ==
  ASSUME GroupsMatch, NEW g, NEW r, NEW cache, NEW a, NEW row \in Rows, Agree(g, r, cache),
         HydraRowCount(g, r, cache, a, row, EntryOf(g, GroupOf(row)))
  PROVE  Agree(group', rct', rcc')
<1> DEFINE k       == GroupOf(row)
           entry   == EntryOf(g, k)
           table   == IF entry.initialized THEN r ELSE Initialized(r, k)
           counted == With(table, row, (IF row \in DOMAIN table THEN table[row] ELSE 0) + 1)
           s       == SetOf(row)
           tag     == TagOf(row)
           marked  == With(g, k, [entry EXCEPT !.initialized = TRUE])
\* The count of the row is set in both places, and nothing else is touched.
           Written(table1, cache1) ==
             /\ DOMAIN table1 = DOMAIN table \cup {row}
             /\ \A x \in DOMAIN table \ {row} : table1[x] = table[x]
             /\ DOMAIN cache1 = DOMAIN cache
             /\ \A i \in DOMAIN cache \ {s} : cache1[i] = cache[i]
             /\ tag \in DOMAIN cache1[s] /\ cache1[s][tag] = table1[row]
             /\ \A t \in DOMAIN cache1[s] \ {tag} :
                  t \in DOMAIN cache[s] /\ cache1[s][t] = cache[s][t]
<1>1. entry \in Entries /\ s \in DOMAIN cache BY RowOfPlace DEF Agree, EntryOf, Entries
<1>2. /\ marked[k].initialized = TRUE /\ k \in DOMAIN marked
      /\ \A y \in DOMAIN marked : marked[y] \in Entries
      /\ \A y \in DOMAIN g : y \in DOMAIN marked
                             /\ (g[y].initialized = TRUE => marked[y].initialized = TRUE)
  <2> DEFINE new == [entry EXCEPT !.initialized = TRUE]
  <2>1. new \in Entries /\ new.initialized = TRUE BY <1>1 DEF Entries
  <2> HIDE DEF new
  <2>2. /\ DOMAIN With(g, k, new) = DOMAIN g \cup {k} /\ With(g, k, new)[k] = new
        /\ \A y \in DOMAIN g \ {k} : With(g, k, new)[y] = g[y]
    BY DEF With
  <2>3. \A y \in DOMAIN g : g[y] \in Entries BY DEF Agree
  <2>4. marked = With(g, k, new) BY DEF new
  <2> HIDE DEF marked
  <2> QED BY <2>1, <2>2, <2>3, <2>4
\* Counts that were cached keep their values in the table: the rows of a group
\* that is initialized now were not cached.
<1>3. ASSUME NEW i, NEW t, NEW x \in Rows, Held(g, r, cache, i, t, x)
      PROVE  x \in DOMAIN table /\ table[x] = r[x]
  <2>1. CASE entry.initialized BY <1>3, <2>1 DEF Held
  <2>2. CASE ~entry.initialized
    <3>1. GroupOf(x) # k BY <1>3, <2>2 DEF Held, EntryOf
    <3>2. x \notin GroupRows(k) BY <3>1, GroupRowsFacts
    <3> QED BY <1>3, <2>2, <3>2 DEF Held, Initialized
  <2> QED BY <2>1, <2>2
\* A cached count of the row itself is the one the table has, and one is added.
<1>4. /\ tag \in DOMAIN cache[s] => cache[s][tag] + 1 = counted[row]
      /\ DOMAIN counted = DOMAIN table \cup {row}
      /\ \A x \in DOMAIN table \ {row} : counted[x] = table[x]
  <2>1. counted[row] = (IF row \in DOMAIN table THEN table[row] ELSE 0) + 1
    BY DEF With
  <2>2. ASSUME tag \in DOMAIN cache[s] PROVE cache[s][tag] + 1 = counted[row]
    <3>1. entry.initialized /\ row \in DOMAIN r /\ cache[s][tag] = r[row]
      BY <2>2, CachedCount
    <3>2. table = r BY <3>1
    <3> HIDE DEF counted, table
    <3> QED BY <2>1, <3>1, <3>2
  <2> QED BY <2>2 DEF With
<1> HIDE DEF counted, table
<1>5. group' = marked /\ Written(rct', rcc')
  <2>1. group' = marked BY DEF HydraRowCount
  <2>2. PICK f \in Fills(cache[s], tag, counted[row]) :
           \/ /\ rcc' = [cache EXCEPT ![s] = With(f.set, tag, 0)]
              /\ rct' = With(counted, row, 0)
           \/ /\ rcc' = [cache EXCEPT ![s] = f.set]
              /\ rct' = counted
    <3>1. counted = LET first == ~entry.initialized
                        tb == IF first THEN Initialized(r, GroupOf(row)) ELSE r
                    IN  With(tb, row, (IF row \in DOMAIN tb THEN tb[row] ELSE 0) + 1)
      BY <1>1 DEF counted, table, Entries
    <3> QED BY <3>1 DEF HydraRowCount
  <2>3. /\ tag \in DOMAIN f.set
        /\ f.set[tag] = counted[row]
        /\ \A t \in DOMAIN f.set \ {tag} : t \in DOMAIN cache[s] /\ f.set[t] = cache[s][t]
    BY <1>4, <2>2, FillsCounts
  <2>4. CASE /\ rcc' = [cache EXCEPT ![s] = With(f.set, tag, 0)]
             /\ rct' = With(counted, row, 0)
    <3>1. /\ DOMAIN With(f.set, tag, 0) = DOMAIN f.set \cup {tag} /\ With(f.set, tag, 0)[tag] = 0
          /\ \A t \in DOMAIN f.set \ {tag} : With(f.set, tag, 0)[t] = f.set[t]
      BY DEF With
    <3>2. /\ DOMAIN rct' = DOMAIN counted \cup {row} /\ rct'[row] = 0
          /\ \A x \in DOMAIN counted \ {row} : rct'[x] = counted[x]
      BY <2>4 DEF With
    <3>3. /\ DOMAIN rcc' = DOMAIN cache /\ rcc'[s] = With(f.set, tag, 0)
          /\ \A i \in DOMAIN cache \ {s} : rcc'[i] = cache[i]
      BY <1>1, <2>4
    <3> QED BY <1>4, <2>1, <2>3, <3>1, <3>2, <3>3
  <2>5. CASE rcc' = [cache EXCEPT ![s] = f.set] /\ rct' = counted
    <3>1. /\ DOMAIN rcc' = DOMAIN cache /\ rcc'[s] = f.set
          /\ \A i \in DOMAIN cache \ {s} : rcc'[i] = cache[i]
      BY <1>1, <2>5
    <3> QED BY <1>4, <2>1, <2>3, <2>5, <3>1
  <2> QED BY <2>2, <2>4, <2>5
<1>6. ASSUME NEW i \in DOMAIN rcc', NEW t \in DOMAIN rcc'[i]
      PROVE  \E x \in Rows : Held(marked, rct', rcc', i, t, x)
  <2>1. CASE i = s /\ t = tag
    <3>1. Held(marked, rct', rcc', i, t, row) BY <1>2, <1>5, <2>1 DEF Held
    <3> QED BY <3>1
  <2>2. CASE i # s \/ t # tag
    <3>1. i \in DOMAIN cache /\ t \in DOMAIN cache[i] /\ rcc'[i][t] = cache[i][t]
      BY <1>1, <1>5, <2>2
    <3>2. PICK x \in Rows : Held(g, r, cache, i, t, x) BY <3>1 DEF Agree
    <3>3. x # row BY <2>2, <3>2 DEF Held
    <3>4. x \in DOMAIN rct' /\ rct'[x] = r[x] BY <1>3, <1>5, <3>2, <3>3
    <3>5. Held(marked, rct', rcc', i, t, x) BY <1>2, <3>1, <3>2, <3>4 DEF Held
    <3> QED BY <3>5
  <2> QED BY <2>1, <2>2
<1>7. DOMAIN rcc' = 0 .. Sets - 1 BY <1>5 DEF Agree
<1> QED BY <1>2, <1>5, <1>6, <1>7 DEF Agree

----------------------------------------------------------------------------
LEMMA HydraStep ==
  ASSUME GroupsMatch, HydraInv, NEW reset, NEW row, HydraUpdate(reset, row)
  PROVE  HydraInv'
<1> DEFINE g     == IF reset THEN <<>> ELSE group
           r     == IF reset THEN <<>> ELSE rct
           cache == IF reset THEN EmptyCache ELSE rcc
           a     == IF reset THEN NoActs ELSE acts
           entry == EntryOf(g, GroupOf(row))
<1>1. Agree(g, r, cache)
  <2>1. CASE reset BY <2>1, EmptyAgree
  <2>2. CASE ~reset BY <2>2 DEF HydraInv
  <2> QED BY <2>1, <2>2
<1>2. \/ group' = g /\ rct' = r /\ rcc' = cache
      \/ HydraGroupCount(g, a, row, entry) /\ rct' = r /\ rcc' = cache
      \/ row \in Rows /\ HydraRowCount(g, r, cache, a, row, entry)
  BY DEF HydraUpdate, HydraIdle, EntryOf
<1> HIDE DEF g, r, cache, a
<1>3. CASE group' = g /\ rct' = r /\ rcc' = cache BY <1>1, <1>3 DEF HydraInv
<1>4. CASE HydraGroupCount(g, a, row, entry) /\ rct' = r /\ rcc' = cache
  <2>1. group' = With(g, GroupOf(row), [entry EXCEPT !.n = @ + 1])
    BY <1>4 DEF HydraGroupCount
  <2> QED BY <1>1, <1>4, <2>1, GroupCountAgree DEF HydraInv
<1>5. CASE row \in Rows /\ HydraRowCount(g, r, cache, a, row, entry)
  BY <1>1, <1>5, RowCountAgree DEF HydraInv
<1> QED BY <1>2, <1>3, <1>4, <1>5

LEMMA InitHydraInv == Init => HydraInv
BY EmptyAgree DEF Init, HydraInv

LEMMA NextHydraInv == ASSUME GroupsMatch PROVE HydraInv /\ [Next]_vars => HydraInv'
<1> SUFFICES ASSUME HydraInv, [Next]_vars PROVE HydraInv' OBVIOUS
<1>1. CASE UNCHANGED hydravars BY <1>1 DEF HydraInv, hydravars
<1>2. CASE ActivateHydra BY <1>2, HydraStep DEF ActivateHydra
<1>3. CASE ActivateGraphene \/ ActivateTracked \/ ActivateSwap \/ Served
  BY <1>1, <1>3 DEF ActivateGraphene, ActivateTracked, ActivateSwap, Served
<1>4. CASE UNCHANGED vars BY <1>1, <1>4 DEF vars
<1> QED BY <1>2, <1>3, <1>4 DEF Next

\* Whatever is activated, evicted and reset, Hydra's cache holds the counts its
\* table has (update, and the three branches that write both), if the groups of
\* rows are those that are initialized together, as they are for powers of two.
THEOREM CountsAgree == ASSUME GroupsMatch PROVE Spec => []CacheCoherent
<1>1. HydraInv => CacheCoherent
  <2> SUFFICES ASSUME HydraInv, NEW i \in DOMAIN rcc, NEW tag \in DOMAIN rcc[i]
               PROVE  LET row == tag * Pow2[Log2(Sets)] + i
                      IN  row \in DOMAIN rct /\ rct[row] = rcc[i][tag]
    BY DEF CacheCoherent
  <2>1. PICK x \in Rows : Held(group, rct, rcc, i, tag, x) BY DEF HydraInv, Agree
  <2>2. x = (tag * Pow2[Log2(Sets)]) + i BY <2>1, RowOfPlace DEF Held
  <2> QED BY <2>1, <2>2 DEF Held
<1> QED BY InitHydraInv, NextHydraInv, <1>1, PTL DEF Spec

----------------------------------------------------------------------------
(* The row indirection.                                                    *)

\* The table pairs rows, and the data of the rows of a pair has changed places.
Paired(t, h) ==
  /\ DOMAIN t \subseteq SwapRows
  /\ \A x \in DOMAIN t : t[x] \in DOMAIN t /\ t[x] # x /\ t[t[x]] = x
  /\ DOMAIN h = SwapRows
  /\ \A x \in SwapRows : h[x] = IF x \in DOMAIN t THEN t[x] ELSE x

LEMMA InsertedPaired ==
  ASSUME NEW t, NEW h, Paired(t.to, h),
         NEW a \in SwapRows \ DOMAIN t.to, NEW b \in SwapRows \ DOMAIN t.to, a # b
  PROVE  Paired(Inserted(t, a, b).to, Swapped(h, a, b))
<1> DEFINE new == Inserted(t, a, b).to
           moved == Swapped(h, a, b)
<1>1. /\ DOMAIN new = DOMAIN t.to \cup {a, b} /\ new[a] = b /\ new[b] = a
      /\ \A x \in DOMAIN t.to : new[x] = t.to[x]
  BY DEF Inserted, With
<1>2. /\ DOMAIN moved = SwapRows /\ moved[a] = h[b] /\ moved[b] = h[a]
      /\ \A x \in SwapRows \ {a, b} : moved[x] = h[x]
  BY DEF Paired, Swapped
<1> HIDE DEF new, moved
<1>3. h[a] = a /\ h[b] = b BY DEF Paired
<1>4. \A x \in SwapRows : moved[x] = IF x \in DOMAIN new THEN new[x] ELSE x
  BY <1>1, <1>2, <1>3 DEF Paired
<1>5. \A x \in DOMAIN new : new[x] \in DOMAIN new /\ new[x] # x /\ new[new[x]] = x
  BY <1>1 DEF Paired
<1>6. DOMAIN new \subseteq SwapRows BY <1>1 DEF Paired
<1>7. Paired(new, moved) BY <1>2, <1>4, <1>5, <1>6 DEF Paired
<1> QED BY <1>7 DEF new, moved

LEMMA RemovedPaired ==
  ASSUME NEW t, NEW h, Paired(t.to, h), NEW a \in DOMAIN t.to
  PROVE  /\ Paired(Removed(t, a, t.to[a]).to, Swapped(h, a, t.to[a]))
         /\ DOMAIN Removed(t, a, t.to[a]).to = DOMAIN t.to \ {a, t.to[a]}
<1> SUFFICES ASSUME NEW b, b = t.to[a]
             PROVE  /\ Paired(Removed(t, a, b).to, Swapped(h, a, b))
                    /\ DOMAIN Removed(t, a, b).to = DOMAIN t.to \ {a, b}
  OBVIOUS
<1> DEFINE new == Removed(t, a, b).to
           moved == Swapped(h, a, b)
<1>1. /\ DOMAIN new = DOMAIN t.to \ {a, b}
      /\ \A x \in DOMAIN new : new[x] = t.to[x]
  BY DEF Removed, Without
<1>2. a \in SwapRows /\ b \in SwapRows /\ b \in DOMAIN t.to /\ a # b /\ t.to[b] = a
  BY DEF Paired
<1>3. /\ DOMAIN moved = SwapRows /\ moved[a] = h[b] /\ moved[b] = h[a]
      /\ \A x \in SwapRows \ {a, b} : moved[x] = h[x]
  BY <1>2 DEF Paired, Swapped
<1>4. h[a] = b /\ h[b] = a BY <1>2 DEF Paired
<1> HIDE DEF new, moved
<1>5. \A x \in SwapRows : moved[x] = IF x \in DOMAIN new THEN new[x] ELSE x
  BY <1>1, <1>2, <1>3, <1>4 DEF Paired
<1>6. \A x \in DOMAIN new : new[x] \in DOMAIN new /\ new[x] # x /\ new[new[x]] = x
  <2> SUFFICES ASSUME NEW x \in DOMAIN new
               PROVE  new[x] \in DOMAIN new /\ new[x] # x /\ new[new[x]] = x
    OBVIOUS
  <2>1. x \in DOMAIN t.to /\ x # a /\ x # b /\ new[x] = t.to[x] BY <1>1
  <2>2. t.to[x] \in DOMAIN t.to /\ t.to[x] # x /\ t.to[t.to[x]] = x BY <2>1 DEF Paired
  <2>3. t.to[x] # a /\ t.to[x] # b BY <1>2, <2>1, <2>2
  <2> QED BY <1>1, <2>1, <2>2, <2>3
<1>7. DOMAIN new \subseteq SwapRows BY <1>1 DEF Paired
<1>8. Paired(new, moved) BY <1>3, <1>5, <1>6, <1>7 DEF Paired
<1> QED BY <1>1, <1>8 DEF new, moved

\* Making room takes a pair out, or nothing.
LEMMA RoomyPaired ==
  ASSUME NEW hot, NEW t, Paired(t.to, holds), NEW b \in Roomy(hot, t)
  PROVE  Paired(b.table.to, b.data) /\ DOMAIN b.table.to \subseteq DOMAIN t.to
<1>1. CASE b = [table |-> t, data |-> holds, swaps |-> 0] BY <1>1
<1>2. CASE \E r \in Unswappable(hot, t) :
             b = [table |-> Removed(t, r, t.to[r]), data |-> Swapped(holds, r, t.to[r]),
                  swaps |-> 1]
  <2>1. PICK r \in DOMAIN t.to :
               /\ b.table = Removed(t, r, t.to[r]) /\ b.data = Swapped(holds, r, t.to[r])
    BY <1>2 DEF Unswappable
  <2> QED BY <2>1, RemovedPaired
<1> QED BY <1>1, <1>2 DEF Roomy

\* A swap, unless it is the second of a row in an epoch.
LEMMA SwapsPaired ==
  ASSUME NEW hot, NEW t, Paired(t.to, holds), NEW row \in SwapRows,
         NEW after \in Swaps(hot, t, row), ~after.again
  PROVE  Paired(after.table.to, after.data)
<1>1. CASE row \notin DOMAIN t.to
  <2>1. PICK b \in Roomy(hot, t) : \E dst \in Fresh(hot, b.table, row) :
          after = [table |-> Inserted(b.table, row, dst), data |-> Swapped(b.data, row, dst),
                   swaps |-> b.swaps + 1, again |-> FALSE]
    BY <1>1 DEF Swaps, SwapNew
  <2>2. PICK dst \in SwapRows \ DOMAIN b.table.to :
          /\ after.table = Inserted(b.table, row, dst) /\ after.data = Swapped(b.data, row, dst)
          /\ dst # row
    BY <2>1 DEF Fresh
  <2>3. Paired(b.table.to, b.data) /\ row \notin DOMAIN b.table.to BY <1>1, <2>1, RoomyPaired
  <2> QED BY <2>2, <2>3, InsertedPaired
<1>2. CASE row \in DOMAIN t.to /\ row \notin t.keep
  <2>1. PICK dst \in Fresh(hot, t, row) :
          after = [table |-> Inserted(Removed(t, row, t.to[row]), row, dst),
                   data |-> Swapped(Swapped(holds, row, t.to[row]), row, dst),
                   swaps |-> 2, again |-> FALSE]
    BY <1>2 DEF Swaps, SwapAfterEpoch
  <2> DEFINE back == Removed(t, row, t.to[row])
             home == Swapped(holds, row, t.to[row])
  <2>2. after.table = Inserted(back, row, dst) /\ after.data = Swapped(home, row, dst)
    BY <2>1
  <2>3. Paired(back.to, home) /\ DOMAIN back.to = DOMAIN t.to \ {row, t.to[row]}
    BY <1>2, RemovedPaired
  <2>4. dst \in SwapRows \ DOMAIN t.to /\ dst # row BY <2>1 DEF Fresh
  <2> HIDE DEF back, home
  <2> QED BY <2>2, <2>3, <2>4, InsertedPaired
<1>3. CASE row \in DOMAIN t.to /\ row \in t.keep
  <2>1. after \in SwapAgain(hot, t, row) BY <1>3 DEF Swaps
  <2>2. after.again = TRUE BY <2>1 DEF SwapAgain
  <2> QED BY <2>2
<1> QED BY <1>1, <1>2, <1>3

SwapInv == ~reswapped => Paired(rit, holds)

LEMMA SwapStep ==
  ASSUME SwapInv, NEW reset, NEW row \in SwapRows \cup {NoRow}, SwapUpdate(reset, row)
  PROVE  SwapInv'
<1> DEFINE c == IF reset THEN <<>> ELSE count
           s == IF reset THEN 0 ELSE spill
           t == [to |-> rit, keep |-> IF reset THEN {} ELSE locked]
<1>1. Paired(t.to, holds) /\ ~reswapped BY DEF SwapUpdate, SwapInv
<1>2. CASE rit' = t.to /\ UNCHANGED <<holds, reswapped>>
  BY <1>1, <1>2 DEF SwapInv
<1>3. ASSUME NEW hot, SwapIfHot(hot, s, t, row), row \in Rows \cup DOMAIN rit
      PROVE  SwapInv'
  <2>1. row \in SwapRows
    BY <1>1, <1>3, RowHammerAssumption DEF Rows, SwapRows, Paired
  <2>2. CASE UNCHANGED <<rit, holds, reswapped>> BY <1>1, <2>2 DEF SwapInv
  <2>3. CASE \E after \in Swaps(hot, t, row) :
               /\ rit' = after.table.to /\ holds' = after.data
               /\ reswapped' = (reswapped \/ after.again)
    <3>1. PICK after \in Swaps(hot, t, row) :
               /\ rit' = after.table.to /\ holds' = after.data
               /\ reswapped' = (reswapped \/ after.again)
      BY <2>3
    <3> SUFFICES ASSUME ~after.again PROVE Paired(rit', holds')
      BY <3>1 DEF SwapInv
    <3> HIDE DEF t
    <3> QED BY <1>1, <2>1, <3>1, SwapsPaired
  <2> QED BY <1>2, <1>3, <2>2, <2>3 DEF SwapIfHot
<1>4. CASE SwapSpill(c, s, t, row) BY <1>2, <1>4 DEF SwapSpill
<1>5. \/ rit' = t.to /\ UNCHANGED <<holds, reswapped>>
      \/ row \in Rows \cup DOMAIN rit /\ \E hot : SwapIfHot(hot, s, t, row)
      \/ SwapSpill(c, s, t, row)
  BY DEF SwapUpdate
<1> QED BY <1>2, <1>3, <1>4, <1>5

\* SwappedRowsFound: through swaps, swaps back and the end of epochs the table
\* sends the requests of every row to where its data is, for any number of rows,
\* tables of any size and whichever rows are drawn, until a row is swapped twice
\* in an epoch.
THEOREM SwappedRowsFound == Spec => []SwappedFound
<1>1. Init => SwapInv BY DEF Init, SwapInv, Paired
<1>2. SwapInv /\ [Next]_vars => SwapInv'
  <2> SUFFICES ASSUME SwapInv, [Next]_vars PROVE SwapInv' OBVIOUS
  <2>1. CASE UNCHANGED swapvars BY <2>1 DEF SwapInv, swapvars
  <2>2. CASE ActivateSwap BY <2>2, SwapStep DEF ActivateSwap
  <2>3. CASE ActivateGraphene \/ ActivateTracked \/ ActivateHydra \/ Served
    BY <2>1, <2>3 DEF ActivateGraphene, ActivateTracked, ActivateHydra, Served
  <2>4. CASE UNCHANGED vars BY <2>1, <2>4 DEF vars
  <2> QED BY <2>2, <2>3, <2>4 DEF Next
<1>3. SwapInv => SwappedFound
  <2> SUFFICES ASSUME Paired(rit, holds), NEW l \in SwapRows
               PROVE  holds[IF l \in DOMAIN rit THEN rit[l] ELSE l] = l
    BY DEF SwapInv, SwappedFound
  <2> QED BY DEF Paired
<1> QED BY <1>1, <1>2, <1>3, PTL DEF Spec

----------------------------------------------------------------------------
(* Activations and what bounds them: f is a bound of every row that is     *)
(* followed.                                                               *)

Bounded(a, gone, f) ==
  /\ a \in [Rows -> Nat]
  /\ \A r \in Rows \ gone : a[r] <= f[r]

LEMMA NothingBounded == ASSUME NEW gone, NEW f \in [Rows -> Nat] PROVE Bounded(NoActs, gone, f)
BY DEF Bounded, NoActs

\* A row's bound grows with its activations, and no other row's bound shrinks.
LEMMA CountedBounded ==
  ASSUME NEW a, NEW f \in [Rows -> Int], NEW g \in [Rows -> Int], Bounded(a, lost, f),
         NEW row \in Rows, Counted(a, row),
         g[row] >= f[row] + 1, \A r \in Rows \ {row} : g[r] >= f[r]
  PROVE  Bounded(acts', lost', g)
<1>1. acts' \in [Rows -> Nat] /\ lost' = lost BY DEF Counted, Bounded
<1>2. \A r \in Rows : acts'[r] = IF r = row /\ r \notin lost THEN a[r] + 1 ELSE a[r]
  BY DEF Counted, Bounded
<1>3. ASSUME NEW r \in Rows \ lost' PROVE acts'[r] <= g[r]
  <2>1. a[r] <= f[r] /\ a[r] \in Nat /\ f[r] \in Int /\ g[r] \in Int BY <1>1 DEF Bounded
  <2> QED BY <1>1, <1>2, <2>1
<1> QED BY <1>1, <1>3 DEF Bounded

\* A row whose victims were refreshed starts again.
LEMMA VictimsBounded ==
  ASSUME NEW a, NEW f \in [Rows -> Int], NEW g \in [Rows -> Int], Bounded(a, lost, f),
         NEW row \in Rows, NEW n, RefreshVictims(a, row, n),
         g[row] >= 0, \A r \in Rows \ {row} : g[r] >= f[r]
  PROVE  Bounded(acts', lost', g)
<1>1. /\ acts' \in [Rows -> Nat] /\ acts'[row] = 0
      /\ \A r \in Rows \ {row} : acts'[r] = a[r] /\ (r \in lost' <=> r \in lost)
  BY DEF RefreshVictims, Bounded
<1>2. ASSUME NEW r \in Rows \ lost' PROVE acts'[r] <= g[r]
  <2>1. r # row => a[r] <= f[r] /\ a[r] \in Nat /\ f[r] \in Int /\ g[r] \in Int
    BY <1>1 DEF Bounded
  <2> QED BY <1>1, <2>1
<1> QED BY <1>1, <1>2 DEF Bounded

----------------------------------------------------------------------------
(* Graphene: a row has been activated as often as its entry says at most,  *)
(* and a row without an entry as often as the spillover counter says,      *)
(* which is never above an entry.                                          *)

GrapheneBound(c, s) == [r \in Rows |-> IF r \in DOMAIN c THEN c[r] ELSE s]

GrapheneCounts(c, s) ==
  /\ s \in Nat
  /\ \A x \in DOMAIN c : c[x] \in Nat /\ s <= c[x] /\ (c[x] <= s + 1 \/ c[x] <= Threshold - 1)

GrapheneAt(c, s, a, gone) == GrapheneCounts(c, s) /\ Bounded(a, gone, GrapheneBound(c, s))

LEMMA GrapheneBoundType ==
  ASSUME NEW c, NEW s, GrapheneCounts(c, s)
  PROVE  GrapheneBound(c, s) \in [Rows -> Nat]
BY DEF GrapheneCounts, GrapheneBound

\* A row takes over an entry that is at the spillover counter.
LEMMA ReplacedCounts ==
  ASSUME NEW c, NEW s, GrapheneCounts(c, s), NEW row \in Rows \ DOMAIN c,
         NEW old \in DOMAIN c, c[old] = s, NEW new, new = With(Without(c, old), row, s + 1)
  PROVE  /\ GrapheneCounts(new, s)
         /\ GrapheneBound(new, s)[row] = s + 1
         /\ \A r \in Rows \ {row} : GrapheneBound(new, s)[r] = GrapheneBound(c, s)[r]
<1>1. /\ DOMAIN new = (DOMAIN c \ {old}) \cup {row} /\ new[row] = s + 1
      /\ \A x \in DOMAIN c \ {old} : new[x] = c[x]
  BY DEF With, Without
<1>2. GrapheneCounts(new, s) BY <1>1 DEF GrapheneCounts
<1>3. \A r \in Rows : GrapheneBound(new, s)[r] = IF r \in DOMAIN new THEN new[r] ELSE s
  BY DEF GrapheneBound
<1>4. \A r \in Rows : GrapheneBound(c, s)[r] = IF r \in DOMAIN c THEN c[r] ELSE s
  BY DEF GrapheneBound
<1> QED BY <1>1, <1>2, <1>3, <1>4

LEMMA GrapheneStep ==
  ASSUME NEW c, NEW s, NEW a, NEW row \in Rows, GrapheneAt(c, s, a, lost),
         \/ GrapheneCount(c, s, a, row)
         \/ GrapheneReplace(c, s, a, row)
         \/ GrapheneSpill(c, s, a, row)
  PROVE  GrapheneAt(count', spill', acts', lost')
<1> DEFINE f == GrapheneBound(c, s)
           g == GrapheneBound(count', spill')
<1>1. f \in [Rows -> Nat] /\ Bounded(a, lost, f) /\ GrapheneCounts(c, s)
  BY GrapheneBoundType DEF GrapheneAt
<1>2. \A r \in Rows : f[r] = IF r \in DOMAIN c THEN c[r] ELSE s BY DEF GrapheneBound
<1>3. \A r \in Rows : g[r] = IF r \in DOMAIN count' THEN count'[r] ELSE spill'
  BY DEF GrapheneBound
<1>4. Threshold \in Nat BY RowHammerAssumption
<1> HIDE DEF f, g
<1>5. SUFFICES /\ GrapheneCounts(count', spill')
               /\ \A r \in Rows \ {row} : g[r] >= f[r]
               /\ \/ Counted(a, row) /\ g[row] >= f[row] + 1
                  \/ RefreshVictims(a, row, 0) /\ g[row] >= 0
  <2>1. ASSUME GrapheneCounts(count', spill') PROVE g \in [Rows -> Nat]
    BY <2>1, GrapheneBoundType DEF g
  <2>2. f \in [Rows -> Int] BY <1>1
  <2>3. Bounded(acts', lost', g)
    <3>1. g \in [Rows -> Int] BY <1>5, <2>1
    <3>2. CASE Counted(a, row) /\ g[row] >= f[row] + 1
      BY <1>1, <1>5, <2>2, <3>1, <3>2, CountedBounded
    <3>3. CASE RefreshVictims(a, row, 0) /\ g[row] >= 0
      BY <1>1, <1>5, <2>2, <3>1, <3>3, VictimsBounded
    <3> QED BY <1>5, <3>2, <3>3
  <2> QED BY <1>5, <2>3 DEF GrapheneAt, g
<1>6. CASE GrapheneCount(c, s, a, row)
  <2>1. row \in DOMAIN c /\ spill' = s BY <1>6 DEF GrapheneCount
  <2>2. CASE c[row] + 1 < Threshold /\ count' = [c EXCEPT ![row] = @ + 1] /\ Counted(a, row)
    <3>1. /\ DOMAIN count' = DOMAIN c /\ count'[row] = c[row] + 1
          /\ \A x \in DOMAIN c \ {row} : count'[x] = c[x]
      BY <2>1, <2>2
    <3>2. GrapheneCounts(count', spill') BY <1>1, <1>4, <2>1, <2>2, <3>1 DEF GrapheneCounts
    <3>3. g[row] >= f[row] + 1 /\ \A r \in Rows \ {row} : g[r] >= f[r]
      BY <1>1, <1>2, <1>3, <2>1, <3>1 DEF GrapheneCounts
    <3> QED BY <2>2, <3>2, <3>3
  <2>3. CASE count' = [c EXCEPT ![row] = s] /\ RefreshVictims(a, row, 0)
    <3>1. /\ DOMAIN count' = DOMAIN c /\ count'[row] = s
          /\ \A x \in DOMAIN c \ {row} : count'[x] = c[x]
      BY <2>1, <2>3
    <3>2. GrapheneCounts(count', spill') BY <1>1, <1>4, <2>1, <3>1 DEF GrapheneCounts
    <3>3. g[row] >= 0 /\ \A r \in Rows \ {row} : g[r] >= f[r]
      BY <1>1, <1>2, <1>3, <2>1, <3>1 DEF GrapheneCounts
    <3> QED BY <2>3, <3>2, <3>3
  <2> QED BY <1>6, <2>2, <2>3 DEF GrapheneCount
<1>7. CASE GrapheneReplace(c, s, a, row)
  <2>1. PICK old \in DOMAIN c : c[old] = s /\ count' = With(Without(c, old), row, s + 1)
    BY <1>7 DEF GrapheneReplace
  <2>2. row \in Rows \ DOMAIN c /\ spill' = s /\ Counted(a, row) BY <1>7 DEF GrapheneReplace
  <2>3. /\ GrapheneCounts(count', spill')
        /\ g[row] = s + 1 /\ \A r \in Rows \ {row} : g[r] = f[r]
    BY <1>1, <2>1, <2>2, ReplacedCounts DEF f, g
  <2>4. f[row] = s /\ s \in Nat /\ \A r \in Rows : f[r] \in Nat
    BY <1>1, <1>2, <2>2 DEF GrapheneCounts
  <2> QED BY <2>2, <2>3, <2>4
<1>8. CASE GrapheneSpill(c, s, a, row)
  <2>1. /\ row \notin DOMAIN c /\ spill' = s + 1 /\ count' = c /\ Counted(a, row)
        /\ \A x \in DOMAIN c : c[x] # s
    BY <1>8 DEF GrapheneSpill
  <2>2. GrapheneCounts(count', spill') BY <1>1, <1>4, <2>1 DEF GrapheneCounts
  <2>3. g[row] >= f[row] + 1 /\ \A r \in Rows \ {row} : g[r] >= f[r]
    BY <1>1, <1>2, <1>3, <2>1 DEF GrapheneCounts
  <2> QED BY <2>1, <2>2, <2>3
<1> QED BY <1>6, <1>7, <1>8

\* The counters at the start of a period.
LEMMA GrapheneFresh ==
  ASSUME NEW c, \A x \in DOMAIN c : c[x] = 0
  PROVE  GrapheneAt(c, 0, NoActs, lost)
<1>1. GrapheneCounts(c, 0) BY DEF GrapheneCounts
<1> QED BY <1>1, GrapheneBoundType, NothingBounded DEF GrapheneAt

LEMMA GrapheneUpdates ==
  ASSUME GrapheneAt(count, spill, acts, lost), NEW reset \in BOOLEAN,
         NEW row \in Rows \cup {NoRow}, GrapheneUpdate(reset, row)
  PROVE  GrapheneAt(count', spill', acts', lost')
<1> DEFINE c == IF reset THEN [r \in DOMAIN count |-> 0] ELSE count
           s == IF reset THEN 0 ELSE spill
           a == IF reset THEN NoActs ELSE acts
<1>1. GrapheneAt(c, s, a, lost)
  <2>1. CASE reset BY <2>1, GrapheneFresh
  <2>2. CASE ~reset BY <2>2
  <2> QED BY <2>1, <2>2
<1>2. \/ GrapheneIdle(c, s, a)
      \/ row \in Rows /\ GrapheneCount(c, s, a, row)
      \/ row \in Rows /\ GrapheneReplace(c, s, a, row)
      \/ row \in Rows /\ GrapheneSpill(c, s, a, row)
  BY DEF GrapheneUpdate
<1> HIDE DEF c, s, a
<1>3. CASE GrapheneIdle(c, s, a) BY <1>1, <1>3 DEF GrapheneIdle
<1> QED BY <1>1, <1>2, <1>3, GrapheneStep

----------------------------------------------------------------------------
(* A table of counts: a row has been activated as often as its count says  *)
(* at most, and not at all without one.                                    *)

CountBound(c) == [r \in Rows |-> IF r \in DOMAIN c THEN c[r] ELSE 0]

Counts(c) == \A x \in DOMAIN c : c[x] \in 0 .. Threshold - 1

CountsAt(c, a, gone) == Counts(c) /\ Bounded(a, gone, CountBound(c))

LEMMA CountBoundType == ASSUME NEW c, Counts(c) PROVE CountBound(c) \in [Rows -> Nat]
BY RowHammerAssumption DEF Counts, CountBound

LEMMA NoCounts == ASSUME NEW gone PROVE CountsAt(<<>>, NoActs, gone)
<1>1. Counts(<<>>) BY DEF Counts
<1> QED BY <1>1, CountBoundType, NothingBounded DEF CountsAt

\* The row is counted, or refreshed and its count started again.
LEMMA CountsStep ==
  ASSUME NEW c, NEW d, NEW a, NEW row \in Rows, NEW n, CountsAt(c, a, lost), Counts(d),
         \A x \in DOMAIN c \ {row} : x \in DOMAIN d /\ d[x] = c[x],
         \/ /\ Counted(a, row) /\ row \in DOMAIN d
            /\ d[row] = IF row \in DOMAIN c THEN c[row] + 1 ELSE 1
         \/ RefreshVictims(a, row, n)
  PROVE  CountsAt(d, acts', lost')
<1> DEFINE f == CountBound(c)
           g == CountBound(d)
<1>1. f \in [Rows -> Nat] /\ g \in [Rows -> Nat] /\ Bounded(a, lost, f)
  BY CountBoundType DEF CountsAt
<1>2. /\ \A r \in Rows : f[r] = IF r \in DOMAIN c THEN c[r] ELSE 0
      /\ \A r \in Rows : g[r] = IF r \in DOMAIN d THEN d[r] ELSE 0
  BY DEF CountBound
<1> HIDE DEF f, g
<1>3. f \in [Rows -> Int] /\ g \in [Rows -> Int] BY <1>1
<1>4. \A r \in Rows \ {row} : g[r] >= f[r]
  <2> SUFFICES ASSUME NEW r \in Rows \ {row} PROVE g[r] >= f[r] OBVIOUS
  <2>1. CASE r \in DOMAIN c BY <1>2, <1>3, <2>1
  <2>2. CASE r \notin DOMAIN c BY <1>1, <1>2, <2>2
  <2> QED BY <2>1, <2>2
<1>5. Bounded(acts', lost', g)
  <2>1. CASE /\ Counted(a, row) /\ row \in DOMAIN d
             /\ d[row] = IF row \in DOMAIN c THEN c[row] + 1 ELSE 1
    <3>1. g[row] >= f[row] + 1 BY <1>2, <1>3, <2>1
    <3> QED BY <1>1, <1>3, <1>4, <2>1, <3>1, CountedBounded
  <2>2. CASE RefreshVictims(a, row, n)
    <3>1. g[row] >= 0 BY <1>1
    <3> QED BY <1>1, <1>3, <1>4, <2>2, <3>1, VictimsBounded
  <2> QED BY <2>1, <2>2
<1> QED BY <1>5 DEF CountsAt, g

LEMMA OracleStep ==
  ASSUME 2 <= Threshold, CountsAt(count, acts, lost), NEW cmd \in Rows \cup {Refresh},
         OracleUpdate(cmd)
  PROVE  CountsAt(count', acts', lost')
<1>1. CASE cmd = Refresh
  <2>1. OracleRefresh BY <1>1 DEF OracleUpdate
  <2> QED BY <2>1, NoCounts DEF OracleRefresh
<1>2. CASE cmd # Refresh
  <2>1. cmd \in Rows /\ OracleActivate(cmd) BY <1>2 DEF OracleUpdate
  <2>2. Threshold \in Nat /\ \A x \in DOMAIN count : count[x] \in 0 .. Threshold - 1
    BY RowHammerAssumption DEF CountsAt, Counts
  <2> DEFINE n == IF cmd \in DOMAIN count THEN count[cmd] + 1 ELSE 1
  <2>3. CASE cmd \in DOMAIN count /\ n >= Threshold
    <3>1. count' = [count EXCEPT ![cmd] = 0] /\ RefreshVictims(acts, cmd, 0)
      BY <2>1, <2>3 DEF OracleActivate
    <3>2. Counts(count') BY <2>2, <3>1 DEF Counts
    <3> QED BY <2>1, <3>1, <3>2, CountsStep
  <2>4. CASE ~(cmd \in DOMAIN count /\ n >= Threshold)
    <3>1. count' = With(count, cmd, n) /\ Counted(acts, cmd)
      BY <2>1, <2>4 DEF OracleActivate
    <3>2. n \in 0 .. Threshold - 1 BY <2>2, <2>4
    <3>3. n = IF cmd \in DOMAIN count THEN count[cmd] + 1 ELSE 1 OBVIOUS
    <3> HIDE DEF n
    <3>4. /\ DOMAIN count' = DOMAIN count \cup {cmd} /\ count'[cmd] = n
          /\ \A x \in DOMAIN count \ {cmd} : count'[x] = count[x]
      BY <3>1 DEF With
    <3>5. Counts(count') BY <2>2, <3>2, <3>4 DEF Counts
    <3> QED BY <2>1, <3>1, <3>3, <3>4, <3>5, CountsStep
  <2> QED BY <2>3, <2>4
<1> QED BY <1>1, <1>2

----------------------------------------------------------------------------
(* TWiCe: a row has been activated as often as its entry says and before   *)
(* it had one, which was less than what pruning lets pass in the refreshes *)
(* the entry has not survived.                                             *)

PrunedBound(c, l, n) ==
  [r \in Rows |-> IF r \in DOMAIN c THEN c[r] + PruneRate * (n - l[r]) ELSE PruneRate * n]

Lives(c, l, n) ==
  /\ n \in Nat
  /\ DOMAIN l = DOMAIN c
  /\ \A x \in DOMAIN c : l[x] \in 0 .. n

TWiCeAt(c, l, n, a, gone) ==
  Counts(c) /\ Lives(c, l, n) /\ Bounded(a, gone, PrunedBound(c, l, n))

LEMMA PrunedProducts ==
  ASSUME NEW n \in Nat, NEW l \in 0 .. n
  PROVE  /\ PruneRate * n \in Nat /\ PruneRate * l \in Nat /\ PruneRate * (n - l) \in Nat
         /\ PruneRate * (n - l) = PruneRate * n - PruneRate * l
         /\ PruneRate * (n + 1) = PruneRate * n + PruneRate
         /\ l * PruneRate = PruneRate * l
<1>1. PruneRate \in Nat BY RowTrackersAssumption
<1> QED BY <1>1

LEMMA PrunedBoundType ==
  ASSUME NEW c, NEW l, NEW n, Counts(c), Lives(c, l, n)
  PROVE  PrunedBound(c, l, n) \in [Rows -> Nat]
<1>1. PruneRate * n \in Nat BY RowTrackersAssumption DEF Lives
<1>2. \A x \in DOMAIN c : c[x] \in Nat /\ PruneRate * (n - l[x]) \in Nat
  BY RowHammerAssumption, PrunedProducts DEF Counts, Lives
<1>3. \A x \in DOMAIN c : c[x] + PruneRate * (n - l[x]) \in Nat BY <1>2
<1> QED BY <1>1, <1>3 DEF PrunedBound

LEMMA TWiCeRefreshed ==
  ASSUME TWiCeAt(count, life, refs, acts, lost), TWiCeRefresh
  PROVE  TWiCeAt(count', life', refs', acts', lost')
<1> DEFINE kept == { r \in DOMAIN count : ~TWiCePrune(r) }
           f == PrunedBound(count, life, refs)
           g == PrunedBound(count', life', refs')
<1>1. /\ refs' = refs + 1 /\ acts' = acts /\ lost' = lost
      /\ DOMAIN count' = kept /\ DOMAIN life' = kept
      /\ \A r \in kept : count'[r] = count[r] /\ life'[r] = life[r] + 1
  BY DEF TWiCeRefresh
<1>2. /\ refs \in Nat /\ DOMAIN life = DOMAIN count
      /\ \A x \in DOMAIN count : count[x] \in 0 .. Threshold - 1 /\ life[x] \in 0 .. refs
      /\ PruneRate \in Nat /\ Threshold \in Nat
  BY RowHammerAssumption, RowTrackersAssumption DEF TWiCeAt, Counts, Lives
<1>3. Counts(count') /\ Lives(count', life', refs') BY <1>1, <1>2 DEF Counts, Lives
<1>4. f \in [Rows -> Nat] /\ g \in [Rows -> Nat] /\ Bounded(acts, lost, f)
  BY <1>3, PrunedBoundType DEF TWiCeAt
<1>5. ASSUME NEW r \in Rows PROVE f[r] <= g[r]
  <2>1. /\ f[r] = IF r \in DOMAIN count THEN count[r] + PruneRate * (refs - life[r])
                  ELSE PruneRate * refs
        /\ g[r] = IF r \in kept THEN count'[r] + PruneRate * (refs' - life'[r])
                  ELSE PruneRate * refs'
    BY <1>1 DEF PrunedBound
  <2>2. CASE r \in kept
    <3>1. refs' - life'[r] = refs - life[r] BY <1>1, <1>2, <2>2
    <3>2. count'[r] = count[r] BY <1>1, <2>2
    <3>3. f[r] = g[r] BY <2>1, <2>2, <3>1, <3>2
    <3> HIDE DEF f, g
    <3> QED BY <1>4, <3>3
  <2>3. CASE r \in DOMAIN count \ kept
    <3>1. count[r] < life[r] * PruneRate BY <2>3 DEF TWiCePrune
    <3>2. /\ PruneRate * refs \in Nat /\ PruneRate * life[r] \in Nat
          /\ PruneRate * (refs - life[r]) = PruneRate * refs - PruneRate * life[r]
          /\ PruneRate * (refs + 1) = PruneRate * refs + PruneRate
          /\ life[r] * PruneRate = PruneRate * life[r]
      BY <1>2, <2>3, PrunedProducts
    <3>3. f[r] = count[r] + (PruneRate * refs - PruneRate * life[r])
      BY <2>1, <2>3, <3>2
    <3>4. g[r] = PruneRate * refs + PruneRate BY <1>1, <2>1, <2>3, <3>2
    <3>5. count[r] < PruneRate * life[r] /\ count[r] \in Int BY <1>2, <2>3, <3>1, <3>2
    <3> HIDE DEF f, g, kept
    <3> DEFINE pn == PruneRate * refs
               pl == PruneRate * life[r]
    <3>6. pn \in Nat /\ pl \in Nat /\ f[r] = count[r] + (pn - pl) /\ g[r] = pn + PruneRate
          /\ count[r] < pl
      BY <3>2, <3>3, <3>4, <3>5
    <3> HIDE DEF pn, pl
    <3> QED BY <1>2, <3>5, <3>6
  <2>4. CASE r \notin DOMAIN count
    <3>1. PruneRate * refs \in Nat /\ PruneRate * (refs + 1) = PruneRate * refs + PruneRate
      BY <1>2, PrunedProducts
    <3>2. f[r] = PruneRate * refs /\ g[r] = PruneRate * refs + PruneRate
      BY <1>1, <2>1, <2>4, <3>1
    <3> HIDE DEF f, g, kept
    <3> QED BY <1>2, <3>1, <3>2
  <2> QED BY <2>2, <2>3, <2>4
<1> HIDE DEF f, g
<1>6. Bounded(acts', lost', g)
  <2>1. acts \in [Rows -> Nat] /\ \A r \in Rows \ lost : acts[r] <= f[r]
    BY <1>4 DEF Bounded
  <2>2. ASSUME NEW r \in Rows \ lost PROVE acts[r] <= g[r]
    <3>1. acts[r] \in Nat /\ f[r] \in Nat /\ g[r] \in Nat /\ acts[r] <= f[r] /\ f[r] <= g[r]
      BY <1>4, <1>5, <2>1
    <3> QED BY <3>1
  <2> QED BY <1>1, <2>1, <2>2 DEF Bounded
<1> QED BY <1>3, <1>6 DEF TWiCeAt, g

LEMMA TWiCeActivated ==
  ASSUME 2 <= Threshold, TWiCeAt(count, life, refs, acts, lost), NEW row \in Rows,
         TWiCeActivate(row)
  PROVE  TWiCeAt(count', life', refs', acts', lost')
<1> DEFINE f == PrunedBound(count, life, refs)
           g == PrunedBound(count', life', refs')
<1>1. /\ refs \in Nat /\ DOMAIN life = DOMAIN count
      /\ \A x \in DOMAIN count : count[x] \in 0 .. Threshold - 1 /\ life[x] \in 0 .. refs
      /\ PruneRate \in Nat /\ Threshold \in Nat /\ refs' = refs
  BY RowHammerAssumption, RowTrackersAssumption
  DEF TWiCeAt, Counts, Lives, TWiCeActivate
<1>2. \A r \in Rows :
        /\ f[r] = IF r \in DOMAIN count THEN count[r] + PruneRate * (refs - life[r])
                  ELSE PruneRate * refs
        /\ g[r] = IF r \in DOMAIN count' THEN count'[r] + PruneRate * (refs - life'[r])
                  ELSE PruneRate * refs
  BY <1>1 DEF PrunedBound
<1>3. f \in [Rows -> Nat] /\ Bounded(acts, lost, f)
  BY PrunedBoundType DEF TWiCeAt
<1>4. PruneRate * refs \in Nat BY <1>1, PrunedProducts
<1>5. \A r \in DOMAIN count : PruneRate * (refs - life[r]) \in Nat
  BY <1>1, PrunedProducts
<1> HIDE DEF f, g
<1>6. SUFFICES /\ Counts(count') /\ Lives(count', life', refs')
               /\ \A r \in Rows \ {row} : g[r] = f[r]
               /\ (Counted(acts, row) /\ g[row] = f[row] + 1) \/ RefreshVictims(acts, row, 0)
  <2>1. g \in [Rows -> Nat] BY <1>6, PrunedBoundType DEF g
  <2>2. f \in [Rows -> Int] /\ g \in [Rows -> Int] BY <1>3, <2>1
  <2>3. \A r \in Rows \ {row} : g[r] >= f[r] BY <1>6, <2>2
  <2>4. Bounded(acts', lost', g)
    <3>1. CASE Counted(acts, row) /\ g[row] = f[row] + 1
      <4>1. g[row] >= f[row] + 1 BY <2>2, <3>1
      <4> QED BY <1>3, <2>2, <2>3, <3>1, <4>1, CountedBounded
    <3>2. CASE RefreshVictims(acts, row, 0)
      <4>1. g[row] >= 0 BY <2>1
      <4> QED BY <1>3, <2>2, <2>3, <3>2, <4>1, VictimsBounded
    <3> QED BY <1>6, <3>1, <3>2
  <2> QED BY <1>6, <2>4 DEF TWiCeAt, g
<1>7. CASE /\ row \notin DOMAIN count /\ Counted(acts, row)
           /\ count' = With(count, row, 1) /\ life' = With(life, row, 0)
  <2>1. /\ DOMAIN count' = DOMAIN count \cup {row} /\ DOMAIN life' = DOMAIN count'
        /\ count'[row] = 1 /\ life'[row] = 0
        /\ \A x \in DOMAIN count : count'[x] = count[x] /\ life'[x] = life[x]
    BY <1>1, <1>7 DEF With
  <2>2. Counts(count') /\ Lives(count', life', refs') BY <1>1, <2>1 DEF Counts, Lives
  <2>3. \A r \in Rows \ {row} : g[r] = f[r] BY <1>2, <2>1
  <2>4. g[row] = f[row] + 1
    <3>1. f[row] = PruneRate * refs /\ g[row] = 1 + PruneRate * (refs - 0)
      BY <1>2, <1>7, <2>1
    <3>2. refs - 0 = refs BY <1>1
    <3> DEFINE pn == PruneRate * refs
    <3>3. pn \in Nat /\ f[row] = pn /\ g[row] = 1 + pn BY <1>4, <3>1, <3>2
    <3> HIDE DEF pn
    <3> QED BY <3>3
  <2> QED BY <1>7, <2>2, <2>3, <2>4
<1>8. CASE /\ row \in DOMAIN count /\ count[row] + 1 < Threshold
           /\ count' = [count EXCEPT ![row] = @ + 1] /\ life' = life /\ Counted(acts, row)
  <2>1. /\ DOMAIN count' = DOMAIN count /\ count'[row] = count[row] + 1
        /\ \A x \in DOMAIN count \ {row} : count'[x] = count[x]
    BY <1>8
  <2>2. Counts(count') /\ Lives(count', life', refs')
    BY <1>1, <1>8, <2>1 DEF Counts, Lives
  <2>3. \A r \in Rows \ {row} : g[r] = f[r] BY <1>2, <1>8, <2>1
  <2>4. g[row] = f[row] + 1
    <3> DEFINE q == PruneRate * (refs - life[row])
    <3>1. q \in Nat /\ f[row] = count[row] + q /\ g[row] = (count[row] + 1) + q
          /\ count[row] \in Int
      BY <1>1, <1>2, <1>5, <1>8, <2>1
    <3> HIDE DEF q
    <3> QED BY <3>1
  <2> QED BY <1>8, <2>2, <2>3, <2>4
<1>9. CASE /\ row \in DOMAIN count /\ RefreshVictims(acts, row, 0)
           /\ count' = Without(count, row) /\ life' = Without(life, row)
  <2>1. /\ DOMAIN count' = DOMAIN count \ {row} /\ DOMAIN life' = DOMAIN count'
        /\ \A x \in DOMAIN count \ {row} : count'[x] = count[x] /\ life'[x] = life[x]
    BY <1>1, <1>9 DEF Without
  <2>2. Counts(count') /\ Lives(count', life', refs') BY <1>1, <2>1 DEF Counts, Lives
  <2>3. \A r \in Rows \ {row} : g[r] = f[r] BY <1>2, <2>1
  <2> QED BY <1>9, <2>2, <2>3
<1> QED BY <1>7, <1>8, <1>9 DEF TWiCeActivate

LEMMA TWiCeStep ==
  ASSUME 2 <= Threshold, TWiCeAt(count, life, refs, acts, lost),
         NEW cmd \in Rows \cup {Refresh}, TWiCeUpdate(cmd)
  PROVE  TWiCeAt(count', life', refs', acts', lost')
<1>1. \/ TWiCeRefresh
      \/ cmd \in Rows /\ TWiCeActivate(cmd)
  BY DEF TWiCeUpdate
<1> QED BY <1>1, TWiCeRefreshed, TWiCeActivated

----------------------------------------------------------------------------
(* Hydra: a row has been activated as often as its own count says at most, *)
(* and until its group has its rows counted one by one, as often as the    *)
(* group.  The rows of the RCT have counts of their own.                   *)

HydraBound(c, g, r) ==
  [x \in Rows |->
     IF x < RCTRows THEN CountBound(c)[x]
     ELSE IF EntryOf(g, GroupOf(x)).initialized THEN r[x]
     ELSE EntryOf(g, GroupOf(x)).n]

GroupCounts(g, r) ==
  /\ \A k \in DOMAIN g :
       /\ g[k] \in [n : 0 .. GroupThreshold, initialized : BOOLEAN]
       /\ g[k].initialized =>
            g[k].n = GroupThreshold /\ \A x \in Rows : GroupOf(x) = k => x \in DOMAIN r
  /\ \A x \in DOMAIN r : r[x] \in 0 .. Threshold - 1

HydraAt(c, g, r, a, gone) ==
  Counts(c) /\ GroupCounts(g, r) /\ Bounded(a, gone, HydraBound(c, g, r))

LEMMA EntryCounts ==
  ASSUME NEW g, NEW r, NEW k, GroupCounts(g, r)
  PROVE  /\ EntryOf(g, k) \in [n : 0 .. GroupThreshold, initialized : BOOLEAN]
         /\ EntryOf(g, k).n \in 0 .. GroupThreshold /\ EntryOf(g, k).initialized \in BOOLEAN
         /\ EntryOf(g, k).initialized =>
              EntryOf(g, k).n = GroupThreshold /\ \A x \in Rows : GroupOf(x) = k => x \in DOMAIN r
<1>1. CASE k \in DOMAIN g
  <2>1. EntryOf(g, k) = g[k] BY <1>1 DEF EntryOf
  <2> QED BY <1>1, <2>1 DEF GroupCounts
<1>2. CASE k \notin DOMAIN g
  <2>1. EntryOf(g, k) = [n |-> 0, initialized |-> FALSE] BY <1>2 DEF EntryOf
  <2>2. 0 \in 0 .. GroupThreshold BY HydraAssumption
  <2> QED BY <2>1, <2>2
<1> QED BY <1>1, <1>2

LEMMA HydraBoundType ==
  ASSUME NEW c, NEW g, NEW r, Counts(c), GroupCounts(g, r)
  PROVE  HydraBound(c, g, r) \in [Rows -> Nat]
<1>1. SUFFICES ASSUME NEW x \in Rows PROVE HydraBound(c, g, r)[x] \in Nat
  BY DEF HydraBound
<1>2. CountBound(c)[x] \in Nat BY CountBoundType
<1>3. /\ EntryOf(g, GroupOf(x)).n \in Nat
      /\ EntryOf(g, GroupOf(x)).initialized => r[x] \in Nat
  BY EntryCounts, HydraAssumption, RowHammerAssumption DEF GroupCounts
<1> QED BY <1>2, <1>3 DEF HydraBound

LEMMA HydraFresh == ASSUME NEW gone PROVE HydraAt(<<>>, <<>>, <<>>, NoActs, gone)
<1>1. Counts(<<>>) /\ GroupCounts(<<>>, <<>>) BY DEF Counts, GroupCounts
<1> QED BY <1>1, HydraBoundType, NothingBounded DEF HydraAt

\* What an activation has to do to the counts.
LEMMA HydraBounds ==
  ASSUME NEW c, NEW g, NEW r, NEW a, HydraAt(c, g, r, a, lost), NEW row \in Rows, NEW n,
         Counts(count'), GroupCounts(group', rct'),
         NEW f, f = HydraBound(c, g, r), NEW h, h = HydraBound(count', group', rct'),
         \A x \in Rows \ {row} : h[x] >= f[x],
         (Counted(a, row) /\ h[row] >= f[row] + 1) \/ RefreshVictims(a, row, n)
  PROVE  HydraAt(count', group', rct', acts', lost')
<1>1. f \in [Rows -> Nat] /\ h \in [Rows -> Nat] /\ Bounded(a, lost, f)
  BY HydraBoundType DEF HydraAt
<1>2. f \in [Rows -> Int] /\ h \in [Rows -> Int] /\ h[row] >= 0 BY <1>1
<1>3. Bounded(acts', lost', h)
  <2>1. CASE Counted(a, row) /\ h[row] >= f[row] + 1 BY <1>1, <1>2, <2>1, CountedBounded
  <2>2. CASE RefreshVictims(a, row, n) BY <1>1, <1>2, <2>2, VictimsBounded
  <2> QED BY <2>1, <2>2
<1> QED BY <1>3 DEF HydraAt

LEMMA TableRowStep ==
  ASSUME NEW c, NEW g, NEW r, NEW a, HydraAt(c, g, r, a, lost), NEW row \in Rows,
         1 <= Threshold, row < RCTRows, HydraTableRow(c, a, row), group' = g, rct' = r
  PROVE  HydraAt(count', group', rct', acts', lost')
<1> DEFINE n == IF row \in DOMAIN c THEN c[row] + 1 ELSE 1
           f == HydraBound(c, g, r)
           h == HydraBound(count', group', rct')
<1>1. Threshold \in Nat /\ \A x \in DOMAIN c : c[x] \in 0 .. Threshold - 1
  BY RowHammerAssumption DEF HydraAt, Counts
<1>2. GroupCounts(group', rct') BY DEF HydraAt
<1>3. f \in [Rows -> Nat] BY HydraBoundType DEF HydraAt
<1>4. /\ f[row] = (IF row \in DOMAIN c THEN c[row] ELSE 0)
      /\ h[row] = (IF row \in DOMAIN count' THEN count'[row] ELSE 0)
  BY DEF HydraBound, CountBound
<1>5. ASSUME \A x \in DOMAIN c \ {row} : x \in DOMAIN count' /\ count'[x] = c[x],
             DOMAIN count' \subseteq DOMAIN c \cup {row}
      PROVE  \A x \in Rows \ {row} : h[x] >= f[x]
  <2> SUFFICES ASSUME NEW x \in Rows \ {row} PROVE h[x] = f[x] BY <1>3
  <2>1. CountBound(count')[x] = CountBound(c)[x] BY <1>5 DEF CountBound
  <2> QED BY <2>1 DEF HydraBound
<1> HIDE DEF f, h
<1>6. CASE n >= Threshold
  <2>1. count' = Without(c, row) /\ RefreshVictims(a, row, 0) BY <1>6 DEF HydraTableRow
  <2>2. /\ DOMAIN count' = DOMAIN c \ {row}
        /\ \A x \in DOMAIN c \ {row} : count'[x] = c[x]
    BY <2>1 DEF Without
  <2>3. Counts(count') BY <1>1, <2>2 DEF Counts
  <2>4. \A x \in Rows \ {row} : h[x] >= f[x] BY <1>5, <2>2
  <2> QED BY <1>2, <2>1, <2>3, <2>4, HydraBounds DEF f, h
<1>7. CASE ~(n >= Threshold)
  <2>1. count' = With(c, row, n) /\ Counted(a, row) BY <1>7 DEF HydraTableRow
  <2>2. n \in 0 .. Threshold - 1 BY <1>1, <1>7
  <2>3. n = (IF row \in DOMAIN c THEN c[row] ELSE 0) + 1 BY <1>1
  <2> HIDE DEF n
  <2>4. /\ DOMAIN count' = DOMAIN c \cup {row} /\ count'[row] = n
        /\ \A x \in DOMAIN c \ {row} : count'[x] = c[x]
    BY <2>1 DEF With
  <2>5. Counts(count') BY <1>1, <2>2, <2>4 DEF Counts
  <2>6. \A x \in Rows \ {row} : h[x] >= f[x] BY <1>5, <2>4
  <2>7. h[row] >= f[row] + 1 BY <1>4, <2>2, <2>3, <2>4
  <2> QED BY <1>2, <2>1, <2>5, <2>6, <2>7, HydraBounds DEF f, h
<1> QED BY <1>6, <1>7

LEMMA GroupCountStep ==
  ASSUME NEW c, NEW g, NEW r, NEW a, HydraAt(c, g, r, a, lost), NEW row \in Rows,
         ~(row < RCTRows), HydraGroupCount(g, a, row, EntryOf(g, GroupOf(row))),
         count' = c, rct' = r
  PROVE  HydraAt(count', group', rct', acts', lost')
<1> DEFINE k     == GroupOf(row)
           entry == EntryOf(g, k)
           new   == [entry EXCEPT !.n = @ + 1]
           f     == HydraBound(c, g, r)
           h     == HydraBound(count', group', rct')
<1>1. /\ GroupThreshold \in Nat /\ entry.n < GroupThreshold
      /\ group' = With(g, k, new) /\ Counted(a, row)
  BY HydraAssumption DEF HydraGroupCount
<1>2. Counts(count') /\ GroupCounts(g, r) BY DEF HydraAt
<1>3. entry \in [n : 0 .. GroupThreshold, initialized : BOOLEAN] /\ ~entry.initialized
  BY <1>1, <1>2, EntryCounts
<1>4. /\ new \in [n : 0 .. GroupThreshold, initialized : BOOLEAN]
      /\ new.n = entry.n + 1 /\ ~new.initialized
  BY <1>1, <1>3
<1> HIDE DEF new
<1>5. /\ DOMAIN group' = DOMAIN g \cup {k} /\ group'[k] = new
      /\ \A j \in DOMAIN g \ {k} : group'[j] = g[j]
  BY <1>1 DEF With
<1>6. GroupCounts(group', rct') BY <1>2, <1>4, <1>5 DEF GroupCounts
<1>7. f \in [Rows -> Nat] /\ h \in [Rows -> Nat]
  BY <1>2, <1>6, HydraBoundType DEF HydraAt
<1>8. EntryOf(group', k) = new /\ \A j : j # k => EntryOf(group', j) = EntryOf(g, j)
  BY <1>5 DEF EntryOf
<1>9. \A x \in Rows : ~(x < RCTRows) /\ GroupOf(x) = k => h[x] = f[x] + 1
  <2> SUFFICES ASSUME NEW x \in Rows, ~(x < RCTRows), GroupOf(x) = k PROVE h[x] = f[x] + 1
    OBVIOUS
  <2>1. h[x] = new.n /\ f[x] = entry.n BY <1>3, <1>4, <1>8 DEF HydraBound
  <2> QED BY <1>4, <2>1
<1>10. \A x \in Rows : x < RCTRows \/ GroupOf(x) # k => h[x] = f[x]
  BY <1>8 DEF HydraBound
<1> HIDE DEF f, h
<1>11. \A x \in Rows \ {row} : h[x] >= f[x] BY <1>7, <1>9, <1>10
<1>12. h[row] >= f[row] + 1 BY <1>7, <1>9
<1> QED BY <1>1, <1>2, <1>6, <1>11, <1>12, HydraBounds DEF f, h

\* The counters of a row's group that are made when the group is suspect, and
\* the row's, one up.
CountedTable(g, r, row) ==
  LET first == ~EntryOf(g, GroupOf(row)).initialized
      table == IF first THEN Initialized(r, GroupOf(row)) ELSE r
  IN  With(table, row, (IF row \in DOMAIN table THEN table[row] ELSE 0) + 1)

\* The row's cached count is the one the activation made in the table: it is
\* what is compared with the threshold.
LEMMA ComparedCount ==
  ASSUME NEW c, NEW g, NEW r, NEW cache, NEW a, NEW row \in Rows, Agree(g, r, cache),
         GroupCounts(g, r), HydraRowCount(g, r, cache, a, row, EntryOf(g, GroupOf(row)))
  PROVE  LET new == CountedTable(g, r, row)
         IN  \/ new[row] >= Threshold /\ rct' = With(new, row, 0)
                /\ \E n : RefreshVictims(a, row, n)
             \/ ~(new[row] >= Threshold) /\ rct' = new /\ Counted(a, row)
<1> DEFINE new   == CountedTable(g, r, row)
           entry == EntryOf(g, GroupOf(row))
           s     == SetOf(row)
           tag   == TagOf(row)
<1>1. PICK f \in Fills(cache[s], tag, new[row]) :
        IF f.set[tag] >= Threshold
        THEN rct' = With(new, row, 0) /\ \E n : RefreshVictims(a, row, n)
        ELSE rct' = new /\ Counted(a, row)
  BY DEF HydraRowCount, CountedTable
<1>2. tag \in DOMAIN cache[s] => cache[s][tag] + 1 = new[row]
  <2> SUFFICES ASSUME tag \in DOMAIN cache[s] PROVE cache[s][tag] + 1 = new[row]
    OBVIOUS
  <2>1. entry.initialized /\ row \in DOMAIN r /\ cache[s][tag] = r[row]
    BY CachedCount
  <2>2. new = With(r, row, (IF row \in DOMAIN r THEN r[row] ELSE 0) + 1)
    BY <2>1 DEF CountedTable
  <2> QED BY <2>1, <2>2 DEF With
<1> HIDE DEF new
<1>3. f.set[tag] = new[row] BY <1>1, <1>2, FillsCounts
<1> QED BY <1>1, <1>3 DEF new

LEMMA RowCountStep ==
  ASSUME GroupsMatch, NEW c, NEW g, NEW r, NEW cache, NEW a, HydraAt(c, g, r, a, lost),
         Agree(g, r, cache), GroupThreshold < Threshold, NEW row \in Rows, ~(row < RCTRows),
         HydraRowCount(g, r, cache, a, row, EntryOf(g, GroupOf(row))), count' = c
  PROVE  HydraAt(count', group', rct', acts', lost')
<1> DEFINE k     == GroupOf(row)
           entry == EntryOf(g, k)
           mark  == [entry EXCEPT !.initialized = TRUE]
           new   == CountedTable(g, r, row)
           table == IF entry.initialized THEN r ELSE Initialized(r, k)
           f     == HydraBound(c, g, r)
           h     == HydraBound(count', group', rct')
<1>1. /\ GroupThreshold \in Nat /\ Threshold \in Nat
      /\ Counts(c) /\ GroupCounts(g, r)
  BY HydraAssumption, RowHammerAssumption DEF HydraAt
<1>2. /\ entry \in [n : 0 .. GroupThreshold, initialized : BOOLEAN]
      /\ entry.n = GroupThreshold /\ entry.initialized \in BOOLEAN
      /\ entry.initialized => \A x \in Rows : GroupOf(x) = k => x \in DOMAIN r
  <2>1. entry.n >= GroupThreshold BY DEF HydraRowCount
  <2> QED BY <1>1, <2>1, EntryCounts
<1>3. /\ mark \in [n : 0 .. GroupThreshold, initialized : BOOLEAN]
      /\ mark.n = GroupThreshold /\ mark.initialized = TRUE
  BY <1>2
<1>4. group' = With(g, k, mark) BY DEF HydraRowCount
<1> HIDE DEF mark
<1>5. /\ DOMAIN group' = DOMAIN g \cup {k} /\ group'[k] = mark
      /\ \A j \in DOMAIN g \ {k} : group'[j] = g[j]
  BY <1>4 DEF With
\* All rows of the group are in the table, those it did not have with as many
\* activations as the group.
<1>6. /\ DOMAIN r \subseteq DOMAIN table
      /\ \A x \in Rows : GroupOf(x) = k => x \in DOMAIN table
      /\ \A x \in DOMAIN table : table[x] \in 0 .. Threshold - 1
      /\ \A x \in Rows : x \in DOMAIN r /\ (entry.initialized \/ GroupOf(x) # k) =>
           table[x] = r[x]
      /\ \A x \in Rows : GroupOf(x) = k =>
           table[x] = IF entry.initialized THEN r[x] ELSE entry.n
  <2>1. CASE entry.initialized BY <1>1, <1>2, <2>1 DEF GroupCounts
  <2>2. CASE ~entry.initialized
    <3>1. \A x \in Rows : x \in GroupRows(k) <=> GroupOf(x) = k BY GroupRowsFacts
    <3> QED BY <1>1, <1>2, <2>2, <3>1 DEF GroupCounts, Initialized
  <2> QED BY <2>1, <2>2
<1>7. /\ DOMAIN new = DOMAIN table \cup {row}
      /\ new[row] = table[row] + 1
      /\ \A x \in DOMAIN table \ {row} : new[x] = table[x]
  <2>1. new = With(table, row, (IF row \in DOMAIN table THEN table[row] ELSE 0) + 1)
    BY <1>2 DEF CountedTable
  <2>2. row \in DOMAIN table BY <1>6
  <2> HIDE DEF new, table
  <2> QED BY <2>1, <2>2 DEF With
<1>8. \/ /\ new[row] >= Threshold /\ rct' = With(new, row, 0)
         /\ \E n : RefreshVictims(a, row, n)
      \/ ~(new[row] >= Threshold) /\ rct' = new /\ Counted(a, row)
  BY <1>1, ComparedCount
<1> HIDE DEF new
<1>9. /\ DOMAIN rct' = DOMAIN table \cup {row}
      /\ \A x \in DOMAIN table \ {row} : rct'[x] = table[x]
      /\ \/ rct'[row] = 0 /\ \E n : RefreshVictims(a, row, n)
         \/ rct'[row] = table[row] + 1 /\ ~(rct'[row] >= Threshold) /\ Counted(a, row)
  <2>1. CASE rct' = With(new, row, 0) /\ \E n : RefreshVictims(a, row, n)
    <3>1. /\ DOMAIN rct' = DOMAIN new \cup {row} /\ rct'[row] = 0
          /\ \A x \in DOMAIN new \ {row} : rct'[x] = new[x]
      BY <2>1 DEF With
    <3> HIDE DEF table
    <3> QED BY <1>7, <2>1, <3>1
  <2>2. CASE ~(new[row] >= Threshold) /\ rct' = new /\ Counted(a, row)
    BY <1>7, <2>2
  <2> QED BY <1>8, <2>1, <2>2
<1> HIDE DEF table
<1>10. Counts(count') /\ GroupCounts(group', rct')
  <2>1. \A x \in DOMAIN rct' : rct'[x] \in 0 .. Threshold - 1 BY <1>1, <1>6, <1>9
  <2>2. ASSUME NEW j \in DOMAIN group'
        PROVE  /\ group'[j] \in [n : 0 .. GroupThreshold, initialized : BOOLEAN]
               /\ group'[j].initialized =>
                    group'[j].n = GroupThreshold
                    /\ \A x \in Rows : GroupOf(x) = j => x \in DOMAIN rct'
    <3>1. CASE j = k BY <1>3, <1>5, <1>6, <1>9, <3>1
    <3>2. CASE j # k
      <4>1. j \in DOMAIN g /\ group'[j] = g[j] BY <1>5, <3>2
      <4> QED BY <1>1, <1>6, <1>9, <4>1 DEF GroupCounts
    <3> QED BY <3>1, <3>2
  <2> QED BY <1>1, <2>1, <2>2 DEF GroupCounts
<1>11. f \in [Rows -> Nat] /\ h \in [Rows -> Nat]
  BY <1>10, HydraBoundType DEF HydraAt
<1>12. EntryOf(group', k) = mark /\ \A j : j # k => EntryOf(group', j) = EntryOf(g, j)
  BY <1>5 DEF EntryOf
<1>13. ASSUME NEW x \in Rows, ~(x < RCTRows), GroupOf(x) = k
       PROVE  h[x] = rct'[x] /\ f[x] = table[x]
  <2>1. h[x] = rct'[x] BY <1>3, <1>12, <1>13 DEF HydraBound
  <2>2. f[x] = IF entry.initialized THEN r[x] ELSE entry.n BY <1>13 DEF HydraBound
  <2> QED BY <1>6, <1>13, <2>1, <2>2
<1>14. \A x \in Rows : x < RCTRows => h[x] = f[x] BY DEF HydraBound
<1>15. ASSUME NEW x \in Rows, ~(x < RCTRows), GroupOf(x) # k
       PROVE  h[x] = f[x]
  <2>1. EntryOf(group', GroupOf(x)) = EntryOf(g, GroupOf(x)) BY <1>12, <1>15
  <2>2. EntryOf(g, GroupOf(x)).initialized => x \in DOMAIN r BY <1>1, EntryCounts
  <2>3. EntryOf(g, GroupOf(x)).initialized => rct'[x] = r[x]
    BY <1>6, <1>9, <1>15, <2>2
  <2> QED BY <1>15, <2>1, <2>3 DEF HydraBound
<1>16. table[row] \in Nat BY <1>1, <1>6
<1> HIDE DEF f, h
<1>17. \A x \in Rows \ {row} : h[x] >= f[x]
  <2> SUFFICES ASSUME NEW x \in Rows \ {row} PROVE h[x] = f[x] BY <1>11
  <2>1. CASE ~(x < RCTRows) /\ GroupOf(x) = k BY <1>6, <1>9, <1>13, <2>1
  <2> QED BY <1>14, <1>15, <2>1
<1>18. h[row] = rct'[row] /\ f[row] = table[row] BY <1>13
<1>19. CASE rct'[row] = table[row] + 1 /\ Counted(a, row)
  <2>1. h[row] >= f[row] + 1 BY <1>16, <1>18, <1>19
  <2> QED BY <1>10, <1>17, <1>19, <2>1, HydraBounds DEF f, h
<1>20. ASSUME NEW n, RefreshVictims(a, row, n) PROVE HydraAt(count', group', rct', acts', lost')
  BY <1>10, <1>17, <1>20, HydraBounds DEF f, h
<1> QED BY <1>9, <1>19, <1>20

LEMMA HydraUpdates ==
  ASSUME GroupsMatch, GroupThreshold < Threshold, HydraInv, HydraAt(count, group, rct, acts, lost),
         NEW reset \in BOOLEAN, NEW row \in Rows \cup {NoRow}, HydraUpdate(reset, row)
  PROVE  HydraAt(count', group', rct', acts', lost')
<1> DEFINE c     == IF reset THEN <<>> ELSE count
           g     == IF reset THEN <<>> ELSE group
           r     == IF reset THEN <<>> ELSE rct
           cache == IF reset THEN EmptyCache ELSE rcc
           a     == IF reset THEN NoActs ELSE acts
           entry == EntryOf(g, GroupOf(row))
<1>1. Agree(g, r, cache) /\ HydraAt(c, g, r, a, lost)
  <2>1. CASE reset BY <2>1, EmptyAgree, HydraFresh
  <2>2. CASE ~reset BY <2>2 DEF HydraInv
  <2> QED BY <2>1, <2>2
<1>2. \/ HydraIdle(c, g, r, cache, a)
      \/ row \in Rows /\ row < RCTRows /\ HydraTableRow(c, a, row) /\ group' = g /\ rct' = r
      \/ /\ row \in Rows /\ ~(row < RCTRows) /\ count' = c
         /\ \/ HydraGroupCount(g, a, row, entry) /\ rct' = r
            \/ HydraRowCount(g, r, cache, a, row, entry)
  <2>1. row \in Rows /\ row >= RCTRows => ~(row < RCTRows)
    BY HydraAssumption, RowHammerAssumption DEF Rows
  <2> QED BY <2>1 DEF HydraUpdate, EntryOf
<1>3. 1 <= Threshold BY HydraAssumption, RowHammerAssumption
<1> HIDE DEF c, g, r, cache, a
<1>4. CASE HydraIdle(c, g, r, cache, a) BY <1>1, <1>4 DEF HydraIdle
<1>5. CASE row \in Rows /\ row < RCTRows /\ HydraTableRow(c, a, row) /\ group' = g /\ rct' = r
  BY <1>1, <1>3, <1>5, TableRowStep
<1>6. CASE /\ row \in Rows /\ ~(row < RCTRows) /\ count' = c
           /\ HydraGroupCount(g, a, row, entry) /\ rct' = r
  BY <1>1, <1>6, GroupCountStep
<1>7. CASE /\ row \in Rows /\ ~(row < RCTRows) /\ count' = c
           /\ HydraRowCount(g, r, cache, a, row, entry)
  BY <1>1, <1>7, RowCountStep
<1> QED BY <1>2, <1>4, <1>5, <1>6, <1>7

----------------------------------------------------------------------------
(* The mitigations together.                                               *)

\* OracleRH and TWiCe do not compare a row's first activation with the
\* threshold, and Hydra starts a row at the threshold of its group, which has
\* the rows it is initialized with.
SizesFit ==
  /\ "OracleRH" \in Plugins \/ "TWiCe" \in Plugins => 2 <= Threshold
  /\ "Hydra" \in Plugins => GroupThreshold < Threshold /\ GroupsMatch

ProtectInv ==
  /\ plugin \in Plugins
  /\ plugin = "Graphene" => GrapheneAt(count, spill, acts, lost)
  /\ plugin = "OracleRH" => CountsAt(count, acts, lost)
  /\ plugin = "TWiCe" => TWiCeAt(count, life, refs, acts, lost)
  /\ plugin = "Hydra" => HydraInv /\ HydraAt(count, group, rct, acts, lost)

LEMMA InitProtectInv == Init => ProtectInv
<1> SUFFICES ASSUME Init PROVE ProtectInv OBVIOUS
<1>1. CASE plugin = "Graphene"
  <2>1. \A x \in DOMAIN count : count[x] = 0 BY <1>1 DEF Init, GrapheneTable
  <2> QED BY <1>1, <2>1, GrapheneFresh, InitHydraInv DEF Init, ProtectInv
<1>2. CASE plugin = "OracleRH" BY <1>2, NoCounts, InitHydraInv DEF Init, ProtectInv
<1>3. CASE plugin = "TWiCe"
  <2>1. Counts(<<>>) /\ Lives(<<>>, <<>>, 0) BY DEF Counts, Lives
  <2>2. TWiCeAt(<<>>, <<>>, 0, NoActs, lost)
    BY <2>1, PrunedBoundType, NothingBounded DEF TWiCeAt
  <2> QED BY <1>3, <2>2, InitHydraInv DEF Init, ProtectInv
<1>4. CASE plugin = "Hydra" BY <1>4, HydraFresh, InitHydraInv DEF Init, ProtectInv
<1> QED BY <1>1, <1>2, <1>3, <1>4, InitHydraInv DEF Init, ProtectInv

LEMMA NextProtectInv == ASSUME SizesFit PROVE ProtectInv /\ [Next]_vars => ProtectInv'
<1> SUFFICES ASSUME ProtectInv, [Next]_vars PROVE ProtectInv' OBVIOUS
<1>1. plugin = "Hydra" => HydraInv'
  <2>1. ASSUME plugin = "Hydra" PROVE GroupsMatch BY <2>1 DEF ProtectInv, SizesFit
  <2> QED BY <2>1, NextHydraInv DEF ProtectInv
<1>2. SUFFICES /\ plugin' = plugin
               /\ plugin = "Graphene" => GrapheneAt(count', spill', acts', lost')
               /\ plugin = "OracleRH" => CountsAt(count', acts', lost')
               /\ plugin = "TWiCe" => TWiCeAt(count', life', refs', acts', lost')
               /\ plugin = "Hydra" => HydraAt(count', group', rct', acts', lost')
  BY <1>1 DEF ProtectInv
<1>3. CASE ActivateGraphene
  <2>1. PICK reset \in BOOLEAN, row \in Rows \cup {NoRow} : GrapheneUpdate(reset, row)
    BY <1>3 DEF ActivateGraphene
  <2>2. plugin = "Graphene" /\ plugin' = plugin BY <2>1 DEF GrapheneUpdate
  <2> QED BY <2>1, <2>2, GrapheneUpdates DEF ProtectInv
<1>4. CASE \E cmd \in Rows \cup {Refresh} : OracleUpdate(cmd)
  <2>1. PICK cmd \in Rows \cup {Refresh} : OracleUpdate(cmd) BY <1>4
  <2>2. plugin = "OracleRH" /\ plugin' = plugin BY <2>1 DEF OracleUpdate
  <2> QED BY <2>1, <2>2, OracleStep DEF ProtectInv, SizesFit
<1>5. CASE \E cmd \in Rows \cup {Refresh} : TWiCeUpdate(cmd)
  <2>1. PICK cmd \in Rows \cup {Refresh} : TWiCeUpdate(cmd) BY <1>5
  <2>2. plugin = "TWiCe" /\ plugin' = plugin BY <2>1 DEF TWiCeUpdate
  <2> QED BY <2>1, <2>2, TWiCeStep DEF ProtectInv, SizesFit
<1>6. CASE \E row \in Rows : PARAUpdate(row) \/ TRRUpdate(row)
  BY <1>6 DEF PARAUpdate, TRRUpdate
<1>7. CASE ActivateHydra
  <2>1. PICK reset \in BOOLEAN, row \in Rows \cup {NoRow} : HydraUpdate(reset, row)
    BY <1>7 DEF ActivateHydra
  <2>2. plugin = "Hydra" /\ plugin' = plugin BY <2>1 DEF HydraUpdate
  <2> QED BY <2>1, <2>2, HydraUpdates DEF ProtectInv, SizesFit
<1>8. CASE ActivateSwap
  <2>1. plugin = "RRS" /\ plugin' = plugin BY <1>8 DEF ActivateSwap, SwapUpdate
  <2> QED BY <2>1
<1>9. CASE Served \/ UNCHANGED vars
  <2>1. UNCHANGED <<plugin, count, spill, acts, lost, life, refs, group, rct>>
    BY <1>9 DEF Served, Serve, vars, bankvars, trackervars, hydravars
  <2> QED BY <2>1 DEF ProtectInv
<1> QED BY <1>3, <1>4, <1>5, <1>6, <1>7, <1>8, <1>9 DEF Next, ActivateTracked

\* RowsProtected: a mitigation that counts refreshes a row's neighbours before
\* the row has been activated as often as the threshold, whichever rows are
\* activated, take an entry over, are pruned, cached or evicted, and whenever a
\* period ends - for any number of rows, entries and activations, and thresholds
\* and groups that fit.  A row is out of it while the refresh it was due is one the
\* priority buffer had no place for.
THEOREM RowsProtected == ASSUME SizesFit PROVE Spec => []Protected
<1>1. ProtectInv => Protected
  <2> SUFFICES ASSUME ProtectInv, plugin \in {"Graphene", "OracleRH", "TWiCe", "Hydra"},
                      NEW r \in Rows \ lost
               PROVE  acts[r] <= Allowance
    BY DEF Protected
  <2>1. Threshold \in Nat BY RowHammerAssumption
  <2>2. CASE plugin = "Graphene"
    <3>1. GrapheneCounts(count, spill) /\ acts[r] <= GrapheneBound(count, spill)[r]
      BY <2>2 DEF ProtectInv, GrapheneAt, Bounded
    <3>2. /\ spill \in Nat
          /\ r \in DOMAIN count =>
               count[r] \in Nat /\ (count[r] <= spill + 1 \/ count[r] <= Threshold - 1)
      BY <3>1 DEF GrapheneCounts
    <3>3. acts[r] <= IF r \in DOMAIN count THEN count[r] ELSE spill
      BY <3>1 DEF GrapheneBound
    <3>4. acts[r] \in Nat BY <2>2 DEF ProtectInv, GrapheneAt, Bounded
    <3>5. acts[r] <= spill + 1 \/ acts[r] <= Threshold - 1 BY <2>1, <3>2, <3>3, <3>4
    <3>6. Allowance = IF spill + 1 > Threshold - 1 THEN spill + 1 ELSE Threshold - 1
      BY <2>2 DEF Allowance
    <3> QED BY <2>1, <3>2, <3>4, <3>5, <3>6
  <2>3. CASE plugin = "OracleRH"
    <3>1. Counts(count) /\ acts[r] \in Nat /\ acts[r] <= CountBound(count)[r] /\ 2 <= Threshold
      BY <2>3 DEF ProtectInv, CountsAt, Bounded, SizesFit
    <3>2. CountBound(count)[r] \in 0 .. Threshold - 1
      BY <2>1, <3>1 DEF CountBound, Counts
    <3>3. Allowance = Threshold - 1 BY <2>3 DEF Allowance
    <3> QED BY <2>1, <3>1, <3>2, <3>3
  <2>4. CASE plugin = "TWiCe"
    <3> DEFINE f == PrunedBound(count, life, refs)
    <3>1. /\ Counts(count) /\ Lives(count, life, refs) /\ 2 <= Threshold
          /\ acts[r] \in Nat /\ acts[r] <= f[r]
      BY <2>4 DEF ProtectInv, TWiCeAt, Bounded, SizesFit
    <3>2. /\ PruneRate * refs \in Nat
          /\ r \in DOMAIN count =>
               /\ count[r] \in 0 .. Threshold - 1
               /\ PruneRate * (refs - life[r]) = PruneRate * refs - PruneRate * life[r]
               /\ PruneRate * life[r] \in Nat
      BY <2>1, <3>1, PrunedProducts, RowTrackersAssumption DEF Counts, Lives
    <3>3. f[r] \in Nat /\ f[r] <= Threshold - 1 + PruneRate * refs
      <4>1. CASE r \in DOMAIN count
        <5>1. f[r] = count[r] + (PruneRate * refs - PruneRate * life[r])
          BY <3>2, <4>1 DEF PrunedBound
        <5>2. f[r] \in Nat BY <3>1, PrunedBoundType
        <5> HIDE DEF f
        <5> DEFINE pn == PruneRate * refs
                   pl == PruneRate * life[r]
        <5>3. /\ pn \in Nat /\ pl \in Nat /\ count[r] \in 0 .. Threshold - 1
              /\ f[r] = count[r] + (pn - pl)
          BY <3>2, <4>1, <5>1
        <5>4. f[r] <= Threshold - 1 + pn
          <6> HIDE DEF pn, pl
          <6> QED BY <2>1, <5>3
        <5> QED BY <5>2, <5>4
      <4>2. CASE r \notin DOMAIN count
        <5> DEFINE pn == PruneRate * refs
        <5>1. f[r] = pn /\ pn \in Nat BY <3>2, <4>2 DEF PrunedBound
        <5> HIDE DEF f
        <5>2. f[r] \in Nat /\ f[r] <= Threshold - 1 + pn
          <6> HIDE DEF pn
          <6> QED BY <2>1, <3>1, <5>1
        <5> QED BY <5>2
      <4> QED BY <4>1, <4>2
    <3>4. Allowance = Threshold - 1 + PruneRate * refs BY <2>4 DEF Allowance
    <3> HIDE DEF f
    <3>5. Allowance \in Int BY <2>1, <3>2, <3>4
    <3> QED BY <3>1, <3>3, <3>4, <3>5
  <2>5. CASE plugin = "Hydra"
    <3> DEFINE f == HydraBound(count, group, rct)
    <3>1. /\ Counts(count) /\ GroupCounts(group, rct) /\ GroupThreshold < Threshold
          /\ acts[r] \in Nat /\ acts[r] <= f[r]
      BY <2>5 DEF ProtectInv, HydraAt, Bounded, SizesFit
    <3>2. CountBound(count)[r] \in 0 .. Threshold - 1
      BY <2>1, <3>1, HydraAssumption DEF CountBound, Counts
    <3>3. /\ EntryOf(group, GroupOf(r)).n \in 0 .. GroupThreshold
          /\ EntryOf(group, GroupOf(r)).initialized => rct[r] \in 0 .. Threshold - 1
      BY <3>1, EntryCounts DEF GroupCounts
    <3>4. f[r] \in 0 .. Threshold - 1
      BY <2>1, <3>1, <3>2, <3>3, HydraAssumption DEF HydraBound
    <3>5. Allowance = Threshold - 1 BY <2>5 DEF Allowance
    <3> HIDE DEF f
    <3> QED BY <2>1, <3>1, <3>4, <3>5
  <2> QED BY <2>2, <2>3, <2>4, <2>5
<1> QED BY InitProtectInv, NextProtectInv, <1>1, PTL DEF Spec
=============================================================================

----------------------------- MODULE ProofLemmas -----------------------------
(***************************************************************************)
(* What the proofs about several components need of sequences and numbers. *)
(***************************************************************************)
EXTENDS Bits, SequencesExt, WellFoundedInduction, TLAPS

----------------------------------------------------------------------------
(* Sequences.                                                              *)

LEMMA FunctionIsSeq ==
  ASSUME NEW S, NEW n \in Nat, NEW f \in [1 .. n -> S]
  PROVE  f \in Seq(S) /\ Len(f) = n
OBVIOUS

LEMMA ConcatAppends ==
  ASSUME NEW S, NEW s \in Seq(S), NEW x \in S, NEW y \in S
  PROVE  /\ s \o <<x>> \o <<y>> = Append(Append(s, x), y)
         /\ s \o <<>> \o <<y>> = Append(s, y)
<1>1. s \o <<x>> = Append(s, x) /\ Append(s, x) \in Seq(S) OBVIOUS
<1>2. s \o <<>> = s OBVIOUS
<1>3. \A p \in Seq(S) : p \o <<y>> = Append(p, y) OBVIOUS
<1> QED BY <1>1, <1>2, <1>3

LEMMA TailFacts ==
  ASSUME NEW S, NEW s \in Seq(S), s # <<>>
  PROVE  /\ Tail(s) \in Seq(S)
         /\ Len(Tail(s)) = Len(s) - 1
         /\ \A i \in 1 .. Len(s) - 1 : Tail(s)[i] = s[i + 1]
OBVIOUS

LEMMA RemoveAtFacts ==
  ASSUME NEW S, NEW s \in Seq(S), NEW n \in 1 .. Len(s)
  PROVE  /\ RemoveAt(s, n) \in Seq(S)
         /\ Len(RemoveAt(s, n)) = Len(s) - 1
         /\ \A i \in 1 .. Len(s) - 1 :
              RemoveAt(s, n)[i] = IF i < n THEN s[i] ELSE s[i + 1]
<1> DEFINE left  == SubSeq(s, 1, n - 1)
           right == SubSeq(s, n + 1, Len(s))
<1>1. /\ left \in Seq(S) /\ Len(left) = n - 1
      /\ \A i \in 1 .. n - 1 : left[i] = s[i]
  OBVIOUS
<1>2. /\ right \in Seq(S) /\ Len(right) = Len(s) - n
      /\ \A i \in 1 .. Len(s) - n : right[i] = s[i + n]
  OBVIOUS
<1>3. RemoveAt(s, n) = left \o right
  BY DEF RemoveAt
<1> HIDE DEF left, right
<1>4. /\ left \in Seq(S) /\ Len(left) = n - 1
      /\ right \in Seq(S) /\ Len(right) = Len(s) - n
  BY <1>1, <1>2
<1>5. left \o right \in Seq(S) /\ Len(left \o right) = Len(s) - 1
  BY <1>4
<1>6. \A i \in 1 .. Len(s) - 1 :
        (left \o right)[i] = IF i < n THEN s[i] ELSE s[i + 1]
  <2>1. ASSUME NEW i \in 1 .. Len(s) - 1, i < n
        PROVE  (left \o right)[i] = s[i]
    <3>1. left[i] = s[i]
      BY <1>1, <2>1
    <3>2. QED
      BY <1>4, <2>1, <3>1
  <2>2. ASSUME NEW i \in 1 .. Len(s) - 1, ~(i < n)
        PROVE  (left \o right)[i] = s[i + 1]
    <3>1. i - (n - 1) \in 1 .. Len(s) - n /\ (i - (n - 1)) + n = i + 1
      BY <2>2
    <3>2. right[i - (n - 1)] = s[(i - (n - 1)) + n]
      BY <1>2, <3>1
    <3>3. (left \o right)[i] = right[i - (n - 1)]
      BY <1>4, <2>2
    <3>4. QED
      BY <3>1, <3>2, <3>3
  <2>3. QED
    BY <2>1, <2>2
<1>7. QED
  BY <1>3, <1>5, <1>6

----------------------------------------------------------------------------
(* Induction on the natural numbers, for the set of those that have a      *)
(* property.                                                               *)

LEMMA NatSetInduction ==
  ASSUME NEW S, 0 \in S, \A n \in Nat : n \in S => n + 1 \in S
  PROVE  Nat \subseteq S
<1> DEFINE R == OpToRel(<, Nat)
           W == Nat \ S
<1> SUFFICES ASSUME W # {} PROVE FALSE
  OBVIOUS
<1>1. IsWellFoundedOn(R, Nat) BY NatLessThanWellFounded, Zenon
<1>2. W \subseteq Nat OBVIOUS
<1> HIDE DEF R, W
<1>3. \E x \in W : \A y \in W : ~(<<y, x>> \in R) BY <1>1, <1>2, WFMin
<1>4. PICK x \in W : \A y \in W : ~(<<y, x>> \in R) BY <1>3
<1>5. x \in Nat /\ x \notin S /\ x # 0 BY <1>4 DEF W
<1>6. x - 1 \in Nat /\ x - 1 < x /\ (x - 1) + 1 = x BY <1>5
<1>7. x - 1 \notin S BY <1>5, <1>6
<1>8. x - 1 \in W BY <1>6, <1>7 DEF W
<1>9. <<x - 1, x>> \in R BY <1>5, <1>6 DEF R, OpToRel
<1> QED BY <1>4, <1>8, <1>9

\* A set of numbers has a least one.
LEMMA LeastOf ==
  ASSUME NEW E \in SUBSET Nat, E # {}
  PROVE  Min(E) \in E /\ \A e \in E : Min(E) <= e
<1> DEFINE R == OpToRel(<, Nat)
<1>1. IsWellFoundedOn(R, Nat) BY NatLessThanWellFounded, Zenon
<1> HIDE DEF R
<1>2. \E x \in E : \A y \in E : ~(<<y, x>> \in R) BY <1>1, WFMin
<1>3. PICK x \in E : \A y \in E : ~(<<y, x>> \in R) BY <1>2
<1>4. ASSUME NEW y \in E, y < x PROVE FALSE
  <2>1. <<y, x>> \in R BY <1>4 DEF R, OpToRel
  <2> QED BY <1>3, <2>1
<1>5. \A y \in E : x <= y BY <1>4
<1> QED BY <1>5 DEF Min

\* The places of a sequence that has one more element than n.
LEMMA LastOrBefore ==
  ASSUME NEW n \in Nat, NEW j \in 1 .. n + 1
  PROVE  j \in 1 .. n \/ j = n + 1
OBVIOUS

----------------------------------------------------------------------------
(* Lines of numbers: each of 1 .. n is in one line at one place, or gone.  *)

Split(places, lines, n, gone) ==
  /\ \A b, d \in places : \A i \in DOMAIN lines[b], j \in DOMAIN lines[d] :
       lines[b][i] = lines[d][j] => b = d /\ i = j
  /\ \A b \in places : \A i \in DOMAIN lines[b] : lines[b][i] \in (1 .. n) \ gone
  /\ \A id \in 1 .. n :
       id \in gone \/ \E b \in places : \E i \in DOMAIN lines[b] : lines[b][i] = id

\* l2 is l1 without the k-th element of its line a.
Less(places, l1, l2, a, k) ==
  \E len \in Nat :
    /\ k \in 1 .. len
    /\ DOMAIN l1[a] = 1 .. len /\ DOMAIN l2[a] = 1 .. len - 1
    /\ \A i \in 1 .. len - 1 : l2[a][i] = l1[a][IF i < k THEN i ELSE i + 1]
    /\ \A b \in places \ {a} : l2[b] = l1[b]

\* l2 is l1 with x at the end of its line a.
More(places, l1, l2, a, x) ==
  \E len \in Nat :
    /\ DOMAIN l1[a] = 1 .. len /\ DOMAIN l2[a] = 1 .. len + 1
    /\ \A i \in 1 .. len : l2[a][i] = l1[a][i]
    /\ l2[a][len + 1] = x
    /\ \A b \in places \ {a} : l2[b] = l1[b]

LEMMA SplitTakenOut ==
  ASSUME NEW places, NEW l1, NEW l2, NEW n, NEW gone, NEW a \in places, NEW k,
         Split(places, l1, n, gone), Less(places, l1, l2, a, k)
  PROVE  /\ Split(places, l2, n, gone \cup {l1[a][k]})
         /\ l1[a][k] \in (1 .. n) \ gone
<1> DEFINE x == l1[a][k]
           at(b, i) == IF b = a /\ ~(i < k) THEN i + 1 ELSE i
<1>1. PICK len \in Nat :
        /\ k \in 1 .. len
        /\ DOMAIN l1[a] = 1 .. len /\ DOMAIN l2[a] = 1 .. len - 1
        /\ \A i \in 1 .. len - 1 : l2[a][i] = l1[a][IF i < k THEN i ELSE i + 1]
        /\ \A b \in places \ {a} : l2[b] = l1[b]
  BY DEF Less
<1>2. /\ \A b, d \in places : \A i \in DOMAIN l1[b], j \in DOMAIN l1[d] :
           l1[b][i] = l1[d][j] => b = d /\ i = j
      /\ \A b \in places : \A i \in DOMAIN l1[b] : l1[b][i] \in (1 .. n) \ gone
      /\ \A id \in 1 .. n :
           id \in gone \/ \E b \in places : \E i \in DOMAIN l1[b] : l1[b][i] = id
  BY DEF Split
<1>3. ASSUME NEW b \in places, NEW i \in DOMAIN l2[b]
      PROVE  /\ at(b, i) \in DOMAIN l1[b]
             /\ l2[b][i] = l1[b][at(b, i)]
             /\ b = a => at(b, i) # k
  BY <1>1
<1>4. ASSUME NEW b \in places, NEW i \in DOMAIN l2[b], NEW j \in DOMAIN l2[b],
             at(b, i) = at(b, j)
      PROVE  i = j
  BY <1>1, <1>4
<1>5. ASSUME NEW b \in places, NEW j \in DOMAIN l1[b], b # a \/ j # k
      PROVE  \E i \in DOMAIN l2[b] : l2[b][i] = l1[b][j]
  <2>1. CASE b # a
    BY <1>1, <2>1
  <2>2. CASE b = a /\ j < k
    BY <1>1, <2>2
  <2>3. CASE b = a /\ j > k
    <3>1. j - 1 \in 1 .. len - 1 /\ ~(j - 1 < k) /\ (j - 1) + 1 = j
      BY <1>1, <2>3
    <3>2. QED
      BY <1>1, <2>3, <3>1
  <2>4. QED
    BY <1>1, <1>5, <2>1, <2>2, <2>3
<1>6. k \in DOMAIN l1[a] /\ x \in (1 .. n) \ gone
  BY <1>1, <1>2
<1> HIDE DEF at, x
<1>7. ASSUME NEW b \in places, NEW d \in places, NEW i \in DOMAIN l2[b],
             NEW j \in DOMAIN l2[d], l2[b][i] = l2[d][j]
      PROVE  b = d /\ i = j
  <2>1. b = d /\ at(b, i) = at(d, j)
    BY <1>2, <1>3, <1>7
  <2>2. QED
    BY <1>4, <2>1
<1>8. ASSUME NEW b \in places, NEW i \in DOMAIN l2[b]
      PROVE  l2[b][i] \in (1 .. n) \ (gone \cup {x})
  <2>1. l2[b][i] \in (1 .. n) \ gone
    BY <1>2, <1>3
  <2>2. l2[b][i] # x
    BY <1>2, <1>3, <1>6 DEF x
  <2>3. QED
    BY <2>1, <2>2
<1>9. ASSUME NEW id \in 1 .. n, id \notin gone \cup {x}
      PROVE  \E b \in places : \E i \in DOMAIN l2[b] : l2[b][i] = id
  <2>1. PICK b \in places : \E j \in DOMAIN l1[b] : l1[b][j] = id
    BY <1>2, <1>9
  <2>2. PICK j \in DOMAIN l1[b] : l1[b][j] = id
    BY <2>1
  <2>3. b # a \/ j # k
    BY <1>9, <2>2 DEF x
  <2>4. QED
    BY <1>5, <2>2, <2>3
<1>10. Split(places, l2, n, gone \cup {x})
  BY <1>7, <1>8, <1>9 DEF Split
<1>11. QED
  BY <1>6, <1>10 DEF x

LEMMA SplitPutBack ==
  ASSUME NEW places, NEW l1, NEW l2, NEW n, NEW gone, NEW a \in places,
         NEW x \in (1 .. n) \cap gone,
         Split(places, l1, n, gone), More(places, l1, l2, a, x)
  PROVE  Split(places, l2, n, gone \ {x})
<1>1. PICK len \in Nat :
        /\ DOMAIN l1[a] = 1 .. len /\ DOMAIN l2[a] = 1 .. len + 1
        /\ \A i \in 1 .. len : l2[a][i] = l1[a][i]
        /\ l2[a][len + 1] = x
        /\ \A b \in places \ {a} : l2[b] = l1[b]
  BY DEF More
<1>2. /\ \A b, d \in places : \A i \in DOMAIN l1[b], j \in DOMAIN l1[d] :
           l1[b][i] = l1[d][j] => b = d /\ i = j
      /\ \A b \in places : \A i \in DOMAIN l1[b] : l1[b][i] \in (1 .. n) \ gone
      /\ \A id \in 1 .. n :
           id \in gone \/ \E b \in places : \E i \in DOMAIN l1[b] : l1[b][i] = id
  BY DEF Split
<1>3. ASSUME NEW b \in places, NEW i \in DOMAIN l2[b]
      PROVE  \/ i \in DOMAIN l1[b] /\ l2[b][i] = l1[b][i] /\ l2[b][i] # x
             \/ b = a /\ i = len + 1 /\ l2[b][i] = x
  <2>1. (i \in DOMAIN l1[b] /\ l2[b][i] = l1[b][i]) \/ (b = a /\ i = len + 1)
    <3>1. CASE b = a
      <4>1. i \in 1 .. len + 1
        BY <1>1, <3>1
      <4>2. CASE i \in 1 .. len
        BY <1>1, <3>1, <4>2
      <4>3. QED
        BY <3>1, <4>1, <4>2
    <3>2. CASE b # a
      BY <1>1, <3>2
    <3>3. QED
      BY <3>1, <3>2
  <2>2. ASSUME i \in DOMAIN l1[b], l2[b][i] = l1[b][i] PROVE l2[b][i] # x
    BY <1>2, <2>2
  <2>3. QED
    BY <1>1, <2>1, <2>2
<1>4. ASSUME NEW b \in places, NEW i \in DOMAIN l1[b]
      PROVE  i \in DOMAIN l2[b] /\ l2[b][i] = l1[b][i]
  BY <1>1
<1>5. len + 1 \in DOMAIN l2[a] /\ l2[a][len + 1] = x
  BY <1>1
<1>6. ASSUME NEW b \in places, NEW d \in places, NEW i \in DOMAIN l2[b],
             NEW j \in DOMAIN l2[d], l2[b][i] = l2[d][j]
      PROVE  b = d /\ i = j
  <2>1. CASE l2[b][i] = x
    BY <1>3, <1>6, <2>1
  <2>2. CASE l2[b][i] # x
    BY <1>2, <1>3, <1>6, <2>2
  <2>3. QED
    BY <2>1, <2>2
<1>7. ASSUME NEW b \in places, NEW i \in DOMAIN l2[b]
      PROVE  l2[b][i] \in (1 .. n) \ (gone \ {x})
  BY <1>2, <1>3
<1>8. ASSUME NEW id \in 1 .. n, id \notin gone \ {x}
      PROVE  \E b \in places : \E i \in DOMAIN l2[b] : l2[b][i] = id
  BY <1>2, <1>4, <1>5, <1>8
<1>9. QED
  BY <1>6, <1>7, <1>8 DEF Split

\* A number that has never been used.
LEMMA SplitAdded ==
  ASSUME NEW places, NEW l1, NEW l2, NEW n \in Nat, NEW gone \in SUBSET (1 .. n),
         NEW a \in places, Split(places, l1, n, gone), More(places, l1, l2, a, n + 1)
  PROVE  Split(places, l2, n + 1, gone)
<1>1. Split(places, l1, n + 1, gone \cup {n + 1})
  <2>1. \A b \in places : \A i \in DOMAIN l1[b] :
          l1[b][i] \in (1 .. n + 1) \ (gone \cup {n + 1})
    BY DEF Split
  <2>2. \A id \in 1 .. n + 1 : id \in 1 .. n \/ id = n + 1
    OBVIOUS
  <2>3. QED
    BY <2>1, <2>2 DEF Split
<1>2. n + 1 \in (1 .. n + 1) \cap (gone \cup {n + 1})
  OBVIOUS
<1>3. Split(places, l2, n + 1, (gone \cup {n + 1}) \ {n + 1})
  BY <1>1, <1>2, SplitPutBack
<1>4. (gone \cup {n + 1}) \ {n + 1} = gone
  OBVIOUS
<1>5. QED
  BY <1>3, <1>4

\* From the k-th position of one line to the end of one, the same or another.
LEMMA SplitMoved ==
  ASSUME NEW places, NEW l1, NEW mid, NEW l2, NEW n, NEW gone, NEW a \in places,
         NEW k, NEW b \in places, Split(places, l1, n, gone),
         Less(places, l1, mid, a, k), More(places, mid, l2, b, l1[a][k])
  PROVE  Split(places, l2, n, gone)
<1> DEFINE x == l1[a][k]
<1>1. Split(places, mid, n, gone \cup {x}) /\ x \in (1 .. n) \ gone
  BY SplitTakenOut
<1> HIDE DEF x
<1>2. x \in (1 .. n) \cap (gone \cup {x}) /\ (gone \cup {x}) \ {x} = gone
  BY <1>1
<1>3. More(places, mid, l2, b, x)
  BY DEF x
<1>4. Split(places, l2, n, (gone \cup {x}) \ {x})
  BY <1>1, <1>2, <1>3, SplitPutBack
<1>5. QED
  BY <1>2, <1>4

----------------------------------------------------------------------------
(* Functions that are defined along the numbers.                           *)

\* f is what a pass from `first' over 1 .. n has after each of them.
IsPassOf(f, n, first, step) ==
  \A i \in 1 .. n : f[i] = IF i = 1 THEN first ELSE step[i][f[i - 1]]

LEMMA PassDefined ==
  ASSUME NEW S, NEW first \in S, NEW step \in [Nat -> [S -> S]], NEW n \in Nat
  PROVE  \E f \in [1 .. n -> S] : IsPassOf(f, n, first, step)
<1> USE DEF IsPassOf
<1> DEFINE P(m) == \E f \in [1 .. m -> S] : IsPassOf(f, m, first, step)
           T == { m \in Nat : P(m) }
<1>1. 0 \in T
  <2>1. [i \in 1 .. 0 |-> first] \in [1 .. 0 -> S] /\ \A i \in 1 .. 0 : FALSE OBVIOUS
  <2>2. P(0) BY <2>1
  <2> QED BY <2>2
<1>2. ASSUME NEW m \in Nat, P(m) PROVE P(m + 1)
  <2>1. PICK f \in [1 .. m -> S] :
          \A i \in 1 .. m : f[i] = IF i = 1 THEN first ELSE step[i][f[i - 1]]
    BY <1>2
  <2> DEFINE last == IF m = 0 THEN first ELSE step[m + 1][f[m]]
             g == [i \in 1 .. m + 1 |-> IF i <= m THEN f[i] ELSE last]
  <2>2. last \in S
    <3>1. CASE m = 0 BY <3>1
    <3>2. CASE m # 0
      <4>1. f[m] \in S /\ step[m + 1] \in [S -> S] BY <3>2
      <4> QED BY <3>2, <4>1
    <3> QED BY <3>1, <3>2
  <2>3. g \in [1 .. m + 1 -> S] BY <2>2
  <2>4. \A i \in 1 .. m + 1 : g[i] = IF i <= m THEN f[i] ELSE last OBVIOUS
  <2> HIDE DEF g
  <2>5. ASSUME NEW i \in 1 .. m + 1
        PROVE  g[i] = IF i = 1 THEN first ELSE step[i][g[i - 1]]
    <3>1. CASE i \in 1 .. m
      <4>1. g[i] = f[i] /\ (i # 1 => g[i - 1] = f[i - 1]) BY <2>4, <3>1
      <4> QED BY <2>1, <3>1, <4>1
    <3>2. CASE i = m + 1
      <4>1. g[i] = last /\ (i = 1 <=> m = 0) BY <2>4, <3>2
      <4>2. i # 1 => i - 1 = m /\ g[i - 1] = f[m] BY <2>4, <3>2
      <4> QED BY <3>2, <4>1, <4>2
    <3> QED BY <3>1, <3>2
  <2> QED BY <2>3, <2>5
<1>3. \A m \in Nat : m \in T => m + 1 \in T BY <1>2
<1> HIDE DEF T
<1>4. Nat \subseteq T BY <1>1, <1>3, NatSetInduction
<1> QED BY <1>4 DEF T
\* Two passes of the same steps agree as far as both go.
LEMMA PassUnique ==
  ASSUME NEW first, NEW step, NEW n \in Nat, NEW m \in Nat, n <= m,
         NEW f, NEW g, IsPassOf(f, n, first, step), IsPassOf(g, m, first, step)
  PROVE  \A i \in 1 .. n : f[i] = g[i]
<1> DEFINE T == { i \in Nat : i \in 1 .. n => f[i] = g[i] }
<1>1. 0 \in T OBVIOUS
<1>2. ASSUME NEW i \in Nat, i \in T PROVE i + 1 \in T
  <2> SUFFICES ASSUME i + 1 \in 1 .. n PROVE f[i + 1] = g[i + 1] OBVIOUS
  <2>1. /\ f[i + 1] = IF i + 1 = 1 THEN first ELSE step[i + 1][f[(i + 1) - 1]]
        /\ g[i + 1] = IF i + 1 = 1 THEN first ELSE step[i + 1][g[(i + 1) - 1]]
    BY DEF IsPassOf
  <2>2. (i + 1) - 1 = i OBVIOUS
  <2>3. CASE i = 0 BY <2>1, <2>3
  <2>4. CASE i # 0
    <3>1. f[i] = g[i] BY <1>2, <2>4
    <3> QED BY <2>1, <2>2, <2>4, <3>1
  <2> QED BY <2>3, <2>4
<1> HIDE DEF T
<1>3. Nat \subseteq T BY <1>1, <1>2, NatSetInduction
<1> QED BY <1>3 DEF T

\* f starts with `first' and takes the steps from there.
Iterates(f, first, step) == f[0] = first /\ \A n \in Nat : f[n + 1] = step[n][f[n]]

LEMMA IteratesDefined ==
  ASSUME NEW S, NEW first \in S, NEW step \in [Nat -> [S -> S]]
  PROVE  \E f \in [Nat -> S] : Iterates(f, first, step)
<1> DEFINE next == [i \in Nat |-> IF i >= 2 THEN step[i - 2] ELSE [x \in S |-> x]]
           F(n) == CHOOSE f \in [1 .. n + 1 -> S] : IsPassOf(f, n + 1, first, next)
           f == [n \in Nat |-> F(n)[n + 1]]
<1>1. next \in [Nat -> [S -> S]]
  <2> SUFFICES ASSUME NEW i \in Nat
               PROVE  (IF i >= 2 THEN step[i - 2] ELSE [x \in S |-> x]) \in [S -> S]
    OBVIOUS
  <2>1. CASE i >= 2
    <3>1. i - 2 \in Nat BY <2>1
    <3> QED BY <2>1, <3>1
  <2>2. CASE ~(i >= 2) BY <2>2
  <2> QED BY <2>1, <2>2
<1>2. \A n \in Nat : next[n + 2] = step[n]
  <2> TAKE n \in Nat
  <2>1. n + 2 \in Nat /\ n + 2 >= 2 /\ (n + 2) - 2 = n OBVIOUS
  <2> QED BY <2>1
<1> HIDE DEF next
<1>3. ASSUME NEW n \in Nat
      PROVE  F(n) \in [1 .. n + 1 -> S] /\ IsPassOf(F(n), n + 1, first, next)
  <2>1. n + 1 \in Nat OBVIOUS
  <2>2. \E g \in [1 .. n + 1 -> S] : IsPassOf(g, n + 1, first, next)
    BY <1>1, <2>1, PassDefined
  <2> QED BY <2>2
<1> HIDE DEF F
<1>4. f \in [Nat -> S]
  <2> SUFFICES ASSUME NEW n \in Nat PROVE F(n)[n + 1] \in S OBVIOUS
  <2>1. n + 1 \in 1 .. n + 1 OBVIOUS
  <2> QED BY <1>3, <2>1
<1>5. f[0] = first
  <2>1. F(0)[1] = first BY <1>3 DEF IsPassOf
  <2> QED BY <2>1
<1>6. ASSUME NEW n \in Nat PROVE f[n + 1] = step[n][f[n]]
  <2>1. n + 1 \in Nat /\ n + 1 <= n + 2 /\ n + 2 \in Nat /\ (n + 1) + 1 = n + 2 /\ (n + 2) - 1 = n + 1
    OBVIOUS
  <2>2. IsPassOf(F(n), n + 1, first, next) /\ IsPassOf(F(n + 1), n + 2, first, next)
    BY <1>3, <2>1
  <2>3. F(n)[n + 1] = F(n + 1)[n + 1]
    <3>1. \A i \in 1 .. n + 1 : F(n)[i] = F(n + 1)[i] BY <2>1, <2>2, PassUnique
    <3> QED BY <3>1
  <2>4. F(n + 1)[n + 2] = next[n + 2][F(n + 1)[n + 1]]
    <3>1. n + 2 \in 1 .. n + 2 /\ n + 2 # 1 OBVIOUS
    <3>2. F(n + 1)[n + 2] = next[n + 2][F(n + 1)[(n + 2) - 1]] BY <2>2, <3>1 DEF IsPassOf
    <3> QED BY <2>1, <3>2
  <2>5. f[n] = F(n)[n + 1] /\ f[n + 1] = F(n + 1)[n + 2] BY <2>1
  <2> QED BY <1>2, <2>3, <2>4, <2>5
<1> QED BY <1>4, <1>5, <1>6 DEF Iterates

----------------------------------------------------------------------------
(* Powers of two, and how often a number can be halved.                    *)

LEMMA Pow2Facts ==
  /\ Pow2 \in [Nat -> Nat \ {0}]
  /\ Pow2[0] = 1
  /\ \A n \in Nat : Pow2[n + 1] = 2 * Pow2[n]
<1> DEFINE S == Nat \ {0}
           step == [n \in Nat |-> [x \in S |-> 2 * x]]
           body(f) == [n \in Nat |-> IF n = 0 THEN 1 ELSE 2 * f[n - 1]]
<1>1. \A x \in S : 2 * x \in S OBVIOUS
<1>2. step \in [Nat -> [S -> S]] BY <1>1
<1>3. PICK f \in [Nat -> S] : f[0] = 1 /\ \A n \in Nat : f[n + 1] = step[n][f[n]]
  <2> DEFINE one == 1
  <2>1. one \in S OBVIOUS
  <2> HIDE DEF S, step, one
  <2>2. \E f \in [Nat -> S] : Iterates(f, one, step) BY <1>2, <2>1, IteratesDefined, Zenon
  <2> QED BY <2>2 DEF one, Iterates
<1>4. \A n \in Nat : f[n + 1] = 2 * f[n] BY <1>3
<1>5. f = body(f)
  <2> SUFFICES ASSUME NEW n \in Nat PROVE f[n] = IF n = 0 THEN 1 ELSE 2 * f[n - 1]
    BY <1>3
  <2>1. CASE n = 0 BY <1>3, <2>1
  <2>2. CASE n # 0
    <3>1. n - 1 \in Nat /\ (n - 1) + 1 = n BY <2>2
    <3>2. f[(n - 1) + 1] = 2 * f[n - 1] BY <1>4, <3>1
    <3> QED BY <2>2, <3>1, <3>2
  <2> QED BY <2>1, <2>2
<1>6. Pow2 = body(Pow2)
  <2>1. Pow2 = CHOOSE g : g = body(g) BY DEF Pow2
  <2> HIDE DEF body
  <2> QED BY <1>5, <2>1
<1>7. \A n \in Nat : Pow2[n] = IF n = 0 THEN 1 ELSE 2 * Pow2[n - 1] BY <1>6
<1>8. \A n \in Nat : Pow2[n + 1] = 2 * Pow2[n]
  <2> TAKE n \in Nat
  <2>1. n + 1 \in Nat /\ n + 1 # 0 /\ (n + 1) - 1 = n OBVIOUS
  <2> QED BY <1>7, <2>1
<1>9. Pow2[0] = 1 BY <1>7
<1> DEFINE T == { n \in Nat : Pow2[n] \in S }
<1>10. Nat \subseteq T
  <2>1. 0 \in T BY <1>9
  <2>2. \A n \in Nat : n \in T => n + 1 \in T BY <1>8
  <2> HIDE DEF T
  <2> QED BY <2>1, <2>2, NatSetInduction
<1>11. \A n \in Nat : Pow2[n] \in S BY <1>10
<1>12. Pow2 = [n \in Nat |-> Pow2[n]] BY <1>6
<1> QED BY <1>8, <1>9, <1>11, <1>12

LEMMA Pow2Increases ==
  ASSUME NEW a \in Nat, NEW b \in Nat, a < b
  PROVE  Pow2[a] < Pow2[b]
<1> DEFINE T == { n \in Nat : a < n => Pow2[a] < Pow2[n] }
<1>1. 0 \in T OBVIOUS
<1>2. ASSUME NEW n \in Nat, n \in T PROVE n + 1 \in T
  <2> SUFFICES ASSUME a < n + 1 PROVE Pow2[a] < Pow2[n + 1] OBVIOUS
  <2>1. Pow2[a] \in Nat \ {0} /\ Pow2[n] \in Nat \ {0} /\ Pow2[n + 1] = 2 * Pow2[n]
    BY Pow2Facts
  <2>2. a = n \/ Pow2[a] < Pow2[n] BY <1>2
  <2> QED BY <2>1, <2>2
<1> HIDE DEF T
<1>3. Nat \subseteq T BY <1>1, <1>2, NatSetInduction
<1> QED BY <1>3 DEF T

LEMMA Log2Facts ==
  ASSUME NEW n \in Nat \ {0}
  PROVE  Log2(n) \in Nat /\ Pow2[Log2(n)] <= n /\ n < Pow2[Log2(n) + 1]
<1> DEFINE P(x) == \E k \in 0 .. x : Pow2[k] <= x /\ x < Pow2[k + 1]
           T == { x \in Nat : P(x + 1) }
<1>1. 0 \in T
  <2>1. Pow2[1] = 2
    <3>1. Pow2[0 + 1] = 2 * Pow2[0] BY Pow2Facts
    <3> QED BY <3>1, Pow2Facts
  <2>2. 0 \in 0 .. 1 /\ Pow2[0] <= 1 /\ 1 < Pow2[0 + 1] BY <2>1, Pow2Facts
  <2> QED BY <2>2
<1>2. ASSUME NEW x \in Nat, x \in T PROVE x + 1 \in T
  <2>1. PICK k \in 0 .. x + 1 : Pow2[k] <= x + 1 /\ x + 1 < Pow2[k + 1] BY <1>2
  <2>2. /\ k \in Nat /\ k + 1 \in Nat /\ Pow2[k] \in Nat /\ Pow2[k + 1] \in Nat \ {0}
        /\ Pow2[(k + 1) + 1] = 2 * Pow2[k + 1]
    BY Pow2Facts
  <2>3. CASE (x + 1) + 1 < Pow2[k + 1]
    <3>1. k \in 0 .. (x + 1) + 1 /\ Pow2[k] <= (x + 1) + 1 BY <2>1, <2>2
    <3> QED BY <2>3, <3>1
  <2>4. CASE ~((x + 1) + 1 < Pow2[k + 1])
    <3>1. k + 1 \in 0 .. (x + 1) + 1 BY <2>1
    <3>2. Pow2[k + 1] <= (x + 1) + 1 /\ (x + 1) + 1 < Pow2[(k + 1) + 1] BY <2>1, <2>2, <2>4
    <3> QED BY <3>1, <3>2
  <2> QED BY <2>3, <2>4
<1> HIDE DEF T
<1>3. Nat \subseteq T BY <1>1, <1>2, NatSetInduction
<1>4. P(n)
  <2>1. n - 1 \in T BY <1>3
  <2>2. (n - 1) + 1 = n OBVIOUS
  <2> QED BY <2>1, <2>2 DEF T
<1>5. /\ Log2(n) \in 0 .. n /\ Pow2[Log2(n)] <= n /\ n < Pow2[Log2(n) + 1]
  BY <1>4 DEF Log2
<1> QED BY <1>5

LEMMA Log2AtLeast ==
  ASSUME NEW n \in Nat \ {0}, NEW j \in Nat, Pow2[j] <= n
  PROVE  j <= Log2(n)
<1>1. Log2(n) \in Nat /\ n < Pow2[Log2(n) + 1] BY Log2Facts
<1>2. SUFFICES ASSUME Log2(n) < j PROVE FALSE BY <1>1
<1>3. Log2(n) + 1 \in Nat /\ (Log2(n) + 1 = j \/ Log2(n) + 1 < j) BY <1>1, <1>2
<1>4. Pow2[Log2(n) + 1] <= Pow2[j]
  <2>1. Pow2[Log2(n) + 1] \in Nat /\ Pow2[j] \in Nat BY <1>3, Pow2Facts
  <2>2. CASE Log2(n) + 1 = j BY <2>1, <2>2
  <2>3. CASE Log2(n) + 1 < j BY <1>3, <2>1, <2>3, Pow2Increases
  <2> QED BY <1>3, <2>2, <2>3
<1>5. Pow2[Log2(n) + 1] \in Nat /\ Pow2[j] \in Nat BY <1>3, Pow2Facts
<1> QED BY <1>1, <1>4, <1>5

LEMMA Log2Power ==
  ASSUME NEW j \in Nat
  PROVE  Log2(Pow2[j]) = j
<1>1. Pow2[j] \in Nat \ {0} BY Pow2Facts
<1>2. Log2(Pow2[j]) \in Nat /\ Pow2[Log2(Pow2[j])] <= Pow2[j] BY <1>1, Log2Facts
<1>3. j <= Log2(Pow2[j]) BY <1>1, Log2AtLeast
<1>4. ~(j < Log2(Pow2[j]))
  <2> SUFFICES ASSUME j < Log2(Pow2[j]) PROVE FALSE OBVIOUS
  <2>1. Pow2[j] < Pow2[Log2(Pow2[j])] BY <1>2, Pow2Increases
  <2>2. Pow2[Log2(Pow2[j])] \in Nat BY <1>2, Pow2Facts
  <2> QED BY <1>1, <1>2, <2>1, <2>2
<1> QED BY <1>2, <1>3, <1>4

----------------------------------------------------------------------------
(* Bits of numbers.                                                        *)

LEMMA DivFacts ==
  ASSUME NEW x \in Nat, NEW d \in Nat \ {0}
  PROVE  x \div d \in Nat /\ x % d \in 0 .. d - 1 /\ x = d * (x \div d) + (x % d)
OBVIOUS

\* Halves of numbers of w + 1 bits have w bits.
LEMMA HalfFacts ==
  ASSUME NEW a \in Nat, NEW w \in Nat, a < Pow2[w + 1]
  PROVE  a \div 2 \in Nat /\ a \div 2 < Pow2[w]
<1>1. Pow2[w + 1] = 2 * Pow2[w] /\ Pow2[w] \in Nat BY Pow2Facts
<1> QED BY <1>1

\* Quotient and rest are the only ones.
LEMMA DivUnique ==
  ASSUME NEW x \in Nat, NEW d \in Nat \ {0}, NEW q \in Nat, NEW r \in 0 .. d - 1,
         x = d * q + r
  PROVE  x \div d = q /\ x % d = r
<1> DEFINE p == x \div d
           s == x % d
<1>1. p \in Nat /\ s \in 0 .. d - 1 /\ x = d * p + s BY DivFacts
<1> HIDE DEF p, s
<1>2. ASSUME NEW i \in Nat, NEW j \in Nat, i < j PROVE d * i + d <= d * j
  <2>1. PICK e \in Nat : j = (i + 1) + e
    <3>1. j - (i + 1) \in Nat /\ j = (i + 1) + (j - (i + 1)) BY <1>2
    <3> QED BY <3>1
  <2>2. d * ((i + 1) + e) = d * i + d + d * e OBVIOUS
  <2>3. d * e \in Nat /\ d * i \in Nat OBVIOUS
  <2> QED BY <2>1, <2>2, <2>3
<1>3. d * p \in Nat /\ d * q \in Nat BY <1>1
<1>4. ~(p < q)
  <2> SUFFICES ASSUME p < q PROVE FALSE OBVIOUS
  <2>1. d * p + d <= d * q BY <1>1, <1>2
  <2> QED BY <1>1, <1>3, <2>1
<1>5. ~(q < p)
  <2> SUFFICES ASSUME q < p PROVE FALSE OBVIOUS
  <2>1. d * q + d <= d * p BY <1>1, <1>2
  <2> QED BY <1>1, <1>3, <2>1
<1>6. p = q BY <1>1, <1>4, <1>5
<1> QED BY <1>1, <1>3, <1>6 DEF p, s

\* f puts low of two numbers before what it makes of their halves.
BitsOf(low, f) ==
  [w \in Nat |->
     IF w = 0 THEN [p \in Nat \X Nat |-> 0]
     ELSE [p \in Nat \X Nat |-> low[p] + 2 * f[w - 1][<<p[1] \div 2, p[2] \div 2>>]]]

BuiltFrom(low, f) == f = BitsOf(low, f)

\* What it is, of no bits and of one bit more.
BitRules(low, f) ==
  /\ \A w, a, b \in Nat : f[w][<<a, b>>] \in Nat
  /\ \A a, b \in Nat : f[0][<<a, b>>] = 0
  /\ \A w, a, b \in Nat :
       f[w + 1][<<a, b>>] = low[<<a, b>>] + 2 * f[w][<<a \div 2, b \div 2>>]

\* Functions of two numbers.
OfTwo == [Nat \X Nat -> Nat]

LEMMA BitsOfDefined ==
  ASSUME NEW low, low \in OfTwo
  PROVE  \E f : f = BitsOf(low, f)
<1>0. low \in [Nat \X Nat -> Nat] BY DEF OfTwo
<1> DEFINE S == [Nat \X Nat -> Nat]
           half(p) == <<p[1] \div 2, p[2] \div 2>>
           more(x) == [p \in Nat \X Nat |-> low[p] + 2 * x[half(p)]]
           none == [p \in Nat \X Nat |-> 0]
           step == [w \in Nat |-> [x \in S |-> more(x)]]
<1>1. ASSUME NEW p \in Nat \X Nat PROVE half(p) \in Nat \X Nat
  <2>1. p[1] \in Nat /\ p[2] \in Nat OBVIOUS
  <2>2. p[1] \div 2 \in Nat /\ p[2] \div 2 \in Nat BY <2>1, DivFacts
  <2> QED BY <2>2
<1> HIDE DEF half
<1>2. ASSUME NEW x \in S PROVE more(x) \in S
  <2> SUFFICES ASSUME NEW p \in Nat \X Nat PROVE low[p] + 2 * x[half(p)] \in Nat OBVIOUS
  <2> DEFINE r == low[p]
             y == x[half(p)]
  <2>1. r \in Nat /\ y \in Nat BY <1>0, <1>1
  <2> HIDE DEF r, y
  <2>2. r + 2 * y \in Nat BY <2>1
  <2> QED BY <2>2 DEF r, y
<1>3. none \in S OBVIOUS
<1> HIDE DEF more, none
<1>4. step \in [Nat -> [S -> S]] BY <1>2
<1>5. PICK f \in [Nat -> S] : Iterates(f, none, step)
  <2> HIDE DEF step, S
  <2> QED BY <1>3, <1>4, IteratesDefined, Zenon
<1>6. f[0] = none /\ \A w \in Nat : f[w + 1] = more(f[w])
  <2> HIDE DEF S
  <2>1. \A w \in Nat : f[w + 1] = step[w][f[w]] BY <1>5 DEF Iterates
  <2>2. \A w \in Nat : f[w] \in S BY <1>5
  <2> QED BY <1>5, <2>1, <2>2 DEF Iterates
<1> HIDE DEF S
<1>7. f = [w \in Nat |-> IF w = 0 THEN none ELSE more(f[w - 1])]
  <2> SUFFICES ASSUME NEW w \in Nat PROVE f[w] = IF w = 0 THEN none ELSE more(f[w - 1])
    BY <1>5
  <2>1. CASE w = 0 BY <1>6, <2>1
  <2>2. CASE w # 0
    <3>1. w - 1 \in Nat /\ (w - 1) + 1 = w BY <2>2
    <3>2. f[(w - 1) + 1] = more(f[w - 1]) BY <1>6, <3>1
    <3> QED BY <2>2, <3>1, <3>2
  <2> QED BY <2>1, <2>2
<1>8. f = BitsOf(low, f) BY <1>7, Zenon DEF BitsOf, more, none, half
<1> QED BY <1>8

LEMMA BitsOfFacts ==
  ASSUME NEW low, low \in OfTwo, NEW f, BuiltFrom(low, f)
  PROVE  BitRules(low, f)
<1>0. f = BitsOf(low, f) BY DEF BuiltFrom
<1>1. \A a, b \in Nat : f[0][<<a, b>>] = 0
  <2>1. f[0] = [p \in Nat \X Nat |-> 0] BY <1>0, Zenon DEF BitsOf
  <2> QED BY <2>1
<1>2. ASSUME NEW w \in Nat, NEW a \in Nat, NEW b \in Nat
      PROVE  f[w + 1][<<a, b>>] = low[<<a, b>>] + 2 * f[w][<<a \div 2, b \div 2>>]
  <2>1. w + 1 \in Nat /\ w + 1 # 0 /\ (w + 1) - 1 = w OBVIOUS
  <2> DEFINE v == w + 1
  <2>2. v \in Nat /\ v # 0 /\ v - 1 = w BY <2>1
  <2> HIDE DEF v
  <2>3. f[v] = [p \in Nat \X Nat |->
                  low[p] + 2 * f[v - 1][<<p[1] \div 2, p[2] \div 2>>]]
    BY <1>0, <2>2, Zenon DEF BitsOf
  <2>4. <<a, b>> \in Nat \X Nat /\ <<a, b>>[1] = a /\ <<a, b>>[2] = b OBVIOUS
  <2>5. f[v][<<a, b>>] = low[<<a, b>>] + 2 * f[w][<<a \div 2, b \div 2>>]
    BY <2>2, <2>3, <2>4, Zenon
  <2> QED BY <2>5 DEF v
<1> DEFINE T == { w \in Nat : \A a, b \in Nat : f[w][<<a, b>>] \in Nat }
<1>3. 0 \in T BY <1>1
<1>4. ASSUME NEW w \in Nat, w \in T PROVE w + 1 \in T
  <2> SUFFICES ASSUME NEW a \in Nat, NEW b \in Nat PROVE f[w + 1][<<a, b>>] \in Nat
    OBVIOUS
  <2>1. a \div 2 \in Nat /\ b \div 2 \in Nat BY DivFacts
  <2> DEFINE x == a \div 2
             y == b \div 2
             l == low[<<a, b>>]
             r == f[w][<<x, y>>]
  <2>2. l \in Nat BY DEF OfTwo
  <2>3. r \in Nat
    <3>1. x \in Nat /\ y \in Nat BY <2>1
    <3> HIDE DEF x, y
    <3> QED BY <1>4, <3>1
  <2>4. f[w + 1][<<a, b>>] = l + 2 * r BY <1>2, Zenon
  <2> HIDE DEF l, r
  <2> QED BY <2>2, <2>3, <2>4
<1> HIDE DEF T
<1>5. Nat \subseteq T BY <1>3, <1>4, NatSetInduction
<1>6. \A w, a, b \in Nat : f[w][<<a, b>>] \in Nat BY <1>5 DEF T
<1> QED BY <1>1, <1>2, <1>6 DEF BitRules

LEMMA BitXorFacts ==
  /\ \A w, a, b \in Nat : BitXor[w][<<a, b>>] \in Nat
  /\ \A a, b \in Nat : BitXor[0][<<a, b>>] = 0
  /\ \A w \in Nat, a, b \in Nat :
       BitXor[w + 1][<<a, b>>] = ((a + b) % 2) + 2 * BitXor[w][<<a \div 2, b \div 2>>]
<1> DEFINE low == [p \in Nat \X Nat |-> (p[1] + p[2]) % 2]
<1>1. low \in OfTwo
  <2> SUFFICES ASSUME NEW p \in Nat \X Nat PROVE (p[1] + p[2]) % 2 \in Nat BY DEF OfTwo
  <2>1. p[1] + p[2] \in Nat OBVIOUS
  <2> QED BY <2>1, DivFacts
<1>2. \A a, b \in Nat : low[<<a, b>>] = (a + b) % 2 OBVIOUS
<1>3. BitXor = BitsOf(low, BitXor)
  <2> DEFINE body(f) ==
        [w \in Nat |->
           IF w = 0 THEN [p \in Nat \X Nat |-> 0]
           ELSE [p \in Nat \X Nat |-> ((p[1] + p[2]) % 2)
                                       + 2 * f[w - 1][<<p[1] \div 2, p[2] \div 2>>]]]
  <2>1. \A f : BitsOf(low, f) = body(f) BY Zenon DEF BitsOf
  <2>2. PICK f : f = BitsOf(low, f) BY <1>1, BitsOfDefined
  <2>3. BitXor = CHOOSE g : g = body(g) BY DEF BitXor
  <2> HIDE DEF body, low
  <2>4. f = body(f) BY <2>1, <2>2
  <2>5. BitXor = body(BitXor) BY <2>3, <2>4
  <2> QED BY <2>1, <2>5
<1> HIDE DEF low
<1> DEFINE x == BitXor
<1>4. BuiltFrom(low, x) BY <1>3 DEF BuiltFrom
<1> HIDE DEF x
<1>5. /\ \A w, a, b \in Nat : x[w][<<a, b>>] \in Nat
      /\ \A a, b \in Nat : x[0][<<a, b>>] = 0
      /\ \A w, a, b \in Nat :
           x[w + 1][<<a, b>>] = low[<<a, b>>] + 2 * x[w][<<a \div 2, b \div 2>>]
  <2>1. BitRules(low, x) BY <1>1, <1>4, BitsOfFacts, Zenon
  <2> QED BY <2>1, Zenon DEF BitRules
<1>6. \A w, a, b \in Nat :
        x[w + 1][<<a, b>>] = low[<<a, b>>] + 2 * x[w][<<a \div 2, b \div 2>>]
  BY <1>5, Zenon
<1>7. \A w \in Nat, a, b \in Nat :
        x[w + 1][<<a, b>>] = ((a + b) % 2) + 2 * x[w][<<a \div 2, b \div 2>>]
  <2> TAKE w \in Nat, a, b \in Nat
  <2>1. x[w + 1][<<a, b>>] = low[<<a, b>>] + 2 * x[w][<<a \div 2, b \div 2>>]
    BY <1>6, Zenon
  <2>2. low[<<a, b>>] = (a + b) % 2 BY <1>2, Zenon
  <2> QED BY <2>1, <2>2, Zenon
<1> QED BY <1>5, <1>7, Zenon DEF x

LEMMA BitAndFacts ==
  /\ \A w, a, b \in Nat : BitAnd[w][<<a, b>>] \in Nat
  /\ \A a, b \in Nat : BitAnd[0][<<a, b>>] = 0
  /\ \A w \in Nat, a, b \in Nat :
       BitAnd[w + 1][<<a, b>>] = ((a % 2) * (b % 2)) + 2 * BitAnd[w][<<a \div 2, b \div 2>>]
<1> DEFINE low == [p \in Nat \X Nat |-> (p[1] % 2) * (p[2] % 2)]
<1>1. low \in OfTwo
  <2> SUFFICES ASSUME NEW p \in Nat \X Nat PROVE (p[1] % 2) * (p[2] % 2) \in Nat BY DEF OfTwo
  <2>1. p[1] % 2 \in Nat /\ p[2] % 2 \in Nat
    <3>1. p[1] \in Nat /\ p[2] \in Nat OBVIOUS
    <3> QED BY <3>1, DivFacts
  <2> DEFINE y == p[1] % 2
             z == p[2] % 2
  <2>2. y \in Nat /\ z \in Nat BY <2>1
  <2> HIDE DEF y, z
  <2>3. y * z \in Nat BY <2>2
  <2> QED BY <2>3 DEF y, z
<1>2. \A a, b \in Nat : low[<<a, b>>] = (a % 2) * (b % 2) OBVIOUS
<1>3. BitAnd = BitsOf(low, BitAnd)
  <2> DEFINE body(f) ==
        [w \in Nat |->
           IF w = 0 THEN [p \in Nat \X Nat |-> 0]
           ELSE [p \in Nat \X Nat |-> ((p[1] % 2) * (p[2] % 2))
                                       + 2 * f[w - 1][<<p[1] \div 2, p[2] \div 2>>]]]
  <2>1. \A f : BitsOf(low, f) = body(f) BY Zenon DEF BitsOf
  <2>2. PICK f : f = BitsOf(low, f) BY <1>1, BitsOfDefined
  <2>3. BitAnd = CHOOSE g : g = body(g) BY DEF BitAnd
  <2> HIDE DEF body, low
  <2>4. f = body(f) BY <2>1, <2>2
  <2>5. BitAnd = body(BitAnd) BY <2>3, <2>4
  <2> QED BY <2>1, <2>5
<1> HIDE DEF low
<1> DEFINE x == BitAnd
<1>4. BuiltFrom(low, x) BY <1>3 DEF BuiltFrom
<1> HIDE DEF x
<1>5. /\ \A w, a, b \in Nat : x[w][<<a, b>>] \in Nat
      /\ \A a, b \in Nat : x[0][<<a, b>>] = 0
      /\ \A w, a, b \in Nat :
           x[w + 1][<<a, b>>] = low[<<a, b>>] + 2 * x[w][<<a \div 2, b \div 2>>]
  <2>1. BitRules(low, x) BY <1>1, <1>4, BitsOfFacts, Zenon
  <2> QED BY <2>1, Zenon DEF BitRules
<1>6. \A w, a, b \in Nat :
        x[w + 1][<<a, b>>] = low[<<a, b>>] + 2 * x[w][<<a \div 2, b \div 2>>]
  BY <1>5, Zenon
<1>7. \A w \in Nat, a, b \in Nat :
        x[w + 1][<<a, b>>] = ((a % 2) * (b % 2)) + 2 * x[w][<<a \div 2, b \div 2>>]
  <2> TAKE w \in Nat, a, b \in Nat
  <2>1. x[w + 1][<<a, b>>] = low[<<a, b>>] + 2 * x[w][<<a \div 2, b \div 2>>]
    BY <1>6, Zenon
  <2>2. low[<<a, b>>] = (a % 2) * (b % 2) BY <1>2, Zenon
  <2> QED BY <2>1, <2>2, Zenon
<1> QED BY <1>5, <1>7, Zenon DEF x

\* A mask leaves no more than itself.
LEMMA BitAndBound ==
  ASSUME NEW w \in Nat, NEW a \in Nat, NEW m \in Nat
  PROVE  BitAnd[w][<<a, m>>] \in 0 .. m
<1> DEFINE T == { v \in Nat : \A x, y \in Nat : BitAnd[v][<<x, y>>] <= y }
<1>1. 0 \in T BY BitAndFacts
<1>2. ASSUME NEW v \in Nat, v \in T PROVE v + 1 \in T
  <2> SUFFICES ASSUME NEW x \in Nat, NEW y \in Nat PROVE BitAnd[v + 1][<<x, y>>] <= y
    OBVIOUS
  <2> DEFINE hx == x \div 2
             hy == y \div 2
             rest == BitAnd[v][<<hx, hy>>]
             l == (x % 2) * (y % 2)
  <2>1. hx \in Nat /\ hy \in Nat /\ y = 2 * hy + (y % 2) /\ l <= y % 2 /\ l \in Nat
    <3>1. x % 2 \in {0, 1} /\ y % 2 \in {0, 1} OBVIOUS
    <3>2. hx \in Nat /\ hy \in Nat /\ y = 2 * hy + (y % 2) OBVIOUS
    <3> HIDE DEF hx, hy
    <3> QED BY <3>1, <3>2
  <2>2. BitAnd[v + 1][<<x, y>>] = l + 2 * rest BY BitAndFacts, Zenon
  <2> HIDE DEF hx, hy, l
  <2>3. rest \in Nat /\ rest <= hy BY <1>2, <2>1, BitAndFacts
  <2> HIDE DEF rest
  <2>4. y % 2 \in Nat OBVIOUS
  <2> QED BY <2>1, <2>2, <2>3, <2>4
<1> HIDE DEF T
<1>3. Nat \subseteq T BY <1>1, <1>2, NatSetInduction
<1>4. BitAnd[w][<<a, m>>] <= m BY <1>3 DEF T
<1>5. BitAnd[w][<<a, m>>] \in Nat BY BitAndFacts
<1> QED BY <1>4, <1>5

\* A mask of all bits below one is the rest by that one.
LEMMA BitAndPower ==
  ASSUME NEW w \in Nat, NEW k \in 0 .. w, NEW a \in Nat
  PROVE  BitAnd[w][<<a, Pow2[k] - 1>>] = a % Pow2[k]
<1> DEFINE Good(v) == \A j \in 0 .. v, x \in Nat :
                        BitAnd[v][<<x, Pow2[j] - 1>>] = x % Pow2[j]
           T == { v \in Nat : Good(v) }
<1>1. 0 \in T
  <2> SUFFICES ASSUME NEW j \in 0 .. 0, NEW x \in Nat
               PROVE  BitAnd[0][<<x, Pow2[j] - 1>>] = x % Pow2[j]
    OBVIOUS
  <2>1. Pow2[j] = 1 BY Pow2Facts
  <2>2. x % 1 = 0 OBVIOUS
  <2>3. BitAnd[0][<<x, 0>>] = 0 BY BitAndFacts
  <2> QED BY <2>1, <2>2, <2>3
<1>2. ASSUME NEW v \in Nat, Good(v) PROVE Good(v + 1)
  <2>1. Good(v) BY <1>2
  <2> SUFFICES ASSUME NEW j \in 0 .. v + 1, NEW x \in Nat
               PROVE  BitAnd[v + 1][<<x, Pow2[j] - 1>>] = x % Pow2[j]
    OBVIOUS
  <2> DEFINE m == Pow2[j] - 1
             hx == x \div 2
             hm == m \div 2
             lx == x % 2
             rest == BitAnd[v][<<hx, hm>>]
  <2>2. Pow2[j] \in Nat \ {0} BY Pow2Facts
  <2>3. m \in Nat /\ hx \in Nat /\ lx \in {0, 1} /\ x = 2 * hx + lx BY <2>2
  <2>4. BitAnd[v + 1][<<x, m>>] = (lx * (m % 2)) + 2 * rest
    <3>1. m \in Nat BY <2>3
    <3> HIDE DEF m
    <3> QED BY <3>1, BitAndFacts, Zenon
  <2>5. CASE j = 0
    <3>1. Pow2[j] = 1 BY <2>5, Pow2Facts
    <3>2. m = 0 /\ hm = 0 /\ m % 2 = 0 BY <3>1
    <3>3. Pow2[0] - 1 = 0 /\ 0 \in 0 .. v BY Pow2Facts
    <3> HIDE DEF hx, lx
    <3>4. BitAnd[v][<<hx, Pow2[0] - 1>>] = hx % Pow2[0] BY <2>1, <2>3, <3>3
    <3>5. hx % 1 = 0 /\ x % 1 = 0 BY <2>3
    <3>6. rest = 0
      <4> HIDE DEF hm
      <4> QED BY <3>2, <3>3, <3>4, <3>5, Pow2Facts
    <3> HIDE DEF rest
    <3>7. lx * (m % 2) = 0 BY <2>3, <3>2
    <3> HIDE DEF m
    <3>8. BitAnd[v + 1][<<x, m>>] = 0 BY <2>4, <3>6, <3>7
    <3> QED BY <3>1, <3>5, <3>8 DEF m
  <2>6. CASE j # 0
    <3> DEFINE P == Pow2[j - 1]
    <3>1. j - 1 \in 0 .. v /\ j - 1 \in Nat /\ (j - 1) + 1 = j BY <2>6
    <3>2. Pow2[j] = 2 * P /\ P \in Nat \ {0}
      <4>1. Pow2[(j - 1) + 1] = 2 * Pow2[j - 1] BY <3>1, Pow2Facts
      <4> QED BY <3>1, <4>1, Pow2Facts
    <3> HIDE DEF P
    <3>3. m % 2 = 1 /\ hm = P - 1 BY <3>2
    <3> DEFINE r == hx % P
               q == hx \div P
    <3>4. rest = r
      <4> HIDE DEF hm, hx, m
      <4>1. BitAnd[v][<<hx, Pow2[j - 1] - 1>>] = hx % Pow2[j - 1] BY <2>1, <2>3, <3>1
      <4> QED BY <3>3, <4>1 DEF P
    <3>5. q \in Nat /\ r \in 0 .. P - 1 /\ hx = P * q + r
      <4> HIDE DEF hx
      <4> QED BY <2>3, <3>2, DivFacts
    <3> HIDE DEF r, q, rest, hm
    <3>6. lx * (m % 2) = lx BY <2>3, <3>3
    <3> HIDE DEF hx, lx, m
    <3>7. BitAnd[v + 1][<<x, m>>] = lx + 2 * r BY <2>4, <3>4, <3>6
    <3>8. x = (2 * P) * q + (2 * r + lx) BY <2>3, <3>2, <3>5
    <3>9. 2 * r + lx \in 0 .. 2 * P - 1 /\ 2 * P \in Nat \ {0} BY <2>3, <3>2, <3>5
    <3> DEFINE d == 2 * P
               y == 2 * r + lx
    <3>10. d \in Nat \ {0} /\ y \in 0 .. d - 1 /\ x = d * q + y BY <3>8, <3>9
    <3>11. y = lx + 2 * r BY <2>3, <3>5
    <3>12. d = Pow2[j] BY <3>2
    <3> HIDE DEF d, y
    <3>13. x % d = y BY <3>5, <3>10, DivUnique
    <3> QED BY <3>7, <3>11, <3>12, <3>13 DEF m
  <2> QED BY <2>5, <2>6
<1> HIDE DEF Good
<1>3. \A v \in Nat : v \in T => v + 1 \in T BY <1>2
<1> HIDE DEF T
<1>4. Nat \subseteq T BY <1>1, <1>3, NatSetInduction
<1>5. Good(w) BY <1>4 DEF T
<1> QED BY <1>5 DEF Good

\* Below a power of two: a number is its quotient and its masked bits.
LEMMA PowerFacts ==
  ASSUME NEW w \in Nat, NEW k \in 0 .. w, NEW a \in Nat, NEW b \in Nat,
         BitAnd[w][<<a, Pow2[k] - 1>>] = BitAnd[w][<<b, Pow2[k] - 1>>],
         a \div Pow2[k] = b \div Pow2[k]
  PROVE  a = b
<1>1. Pow2[k] \in Nat \ {0} BY Pow2Facts
<1>2. a % Pow2[k] = b % Pow2[k] BY BitAndPower
<1>3. /\ a = Pow2[k] * (a \div Pow2[k]) + (a % Pow2[k])
      /\ b = Pow2[k] * (b \div Pow2[k]) + (b % Pow2[k])
  BY <1>1, DivFacts
<1> QED BY <1>2, <1>3
=============================================================================

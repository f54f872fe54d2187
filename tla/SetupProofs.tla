---------------------------- MODULE SetupProofs ----------------------------
(***************************************************************************)
(* For every configuration of the presets: no two addresses share a place, *)
(* and the timing values fit together.                                     *)
(***************************************************************************)
EXTENDS SetupProperties, ProofLemmas, FiniteSetTheorems, FunctionTheorems, SequenceTheorems

----------------------------------------------------------------------------
(* Cutting pieces off an address.                                          *)

LEMMA SmallPowers ==
  /\ Pow2[1] = 2 /\ Pow2[2] = 4 /\ Pow2[3] = 8 /\ Pow2[4] = 16 /\ Pow2[5] = 32
  /\ Pow2[6] = 64
<1>1. Pow2[0] = 1 /\ \A n \in Nat : Pow2[n + 1] = 2 * Pow2[n] BY Pow2Facts
<1>2. /\ Pow2[0 + 1] = 2 * Pow2[0] /\ Pow2[1 + 1] = 2 * Pow2[1] /\ Pow2[2 + 1] = 2 * Pow2[2]
      /\ Pow2[3 + 1] = 2 * Pow2[3] /\ Pow2[4 + 1] = 2 * Pow2[4] /\ Pow2[5 + 1] = 2 * Pow2[5]
  BY <1>1
<1> QED BY <1>1, <1>2

LEMMA ProductFacts ==
  ASSUME NEW a \in Nat \ {0}, NEW b \in Nat \ {0}
  PROVE  a * b \in Nat \ {0} /\ a <= a * b
<1>1. PICK d \in Nat : b = d + 1
  <2>1. b - 1 \in Nat /\ b = (b - 1) + 1 OBVIOUS
  <2> QED BY <2>1
<1>2. a * (d + 1) = a * d + a OBVIOUS
<1>3. a * d \in Nat OBVIOUS
<1> QED BY <1>1, <1>2, <1>3

LEMMA RestFacts ==
  ASSUME NEW slices \in Seq(Nat), NEW line \in Nat
  PROVE  /\ Rest(slices, line) \in [0 .. Len(slices) -> Nat]
         /\ Rest(slices, line)[0] = line
         /\ \A k \in 1 .. Len(slices) :
              Rest(slices, line)[k] = Rest(slices, line)[k - 1] \div Pow2[slices[k]]
<1> DEFINE n == Len(slices)
           cut(k) == [x \in Nat |-> x \div Pow2[slices[k + 1]]]
           step == [k \in Nat |-> IF k < n THEN cut(k) ELSE [x \in Nat |-> x]]
           body(f) == [k \in 0 .. n |-> IF k = 0 THEN line
                                         ELSE f[k - 1] \div Pow2[slices[k]]]
           rest[k \in 0 .. n] == IF k = 0 THEN line ELSE rest[k - 1] \div Pow2[slices[k]]
<1>0. n \in Nat /\ \A k \in 1 .. n : slices[k] \in Nat /\ Pow2[slices[k]] \in Nat \ {0}
  <2>1. n \in Nat /\ \A k \in 1 .. n : slices[k] \in Nat OBVIOUS
  <2> QED BY <2>1, Pow2Facts
<1> HIDE DEF n
<1>1. step \in [Nat -> [Nat -> Nat]]
  <2> SUFFICES ASSUME NEW k \in Nat, k < n, NEW x \in Nat
               PROVE  x \div Pow2[slices[k + 1]] \in Nat
    OBVIOUS
  <2>1. Pow2[slices[k + 1]] \in Nat \ {0} BY <1>0
  <2> QED BY <2>1, DivFacts
<1>2. PICK f \in [Nat -> Nat] : Iterates(f, line, step)
  <2> HIDE DEF step
  <2> QED BY <1>1, IteratesDefined, Zenon
<1>3. f[0] = line /\ \A k \in 1 .. n : f[k] = f[k - 1] \div Pow2[slices[k]]
  <2>1. ASSUME NEW k \in 1 .. n PROVE f[k] = f[k - 1] \div Pow2[slices[k]]
    <3>1. k - 1 \in Nat /\ k - 1 < n /\ (k - 1) + 1 = k BY <1>0
    <3>2. f[(k - 1) + 1] = step[k - 1][f[k - 1]] BY <1>2, <3>1 DEF Iterates
    <3>3. f[k - 1] \in Nat BY <3>1
    <3> QED BY <3>1, <3>2, <3>3
  <2> QED BY <1>2, <2>1 DEF Iterates
<1> DEFINE g == [k \in 0 .. n |-> f[k]]
<1>4. g \in [0 .. n -> Nat] /\ \A k \in 0 .. n : g[k] = f[k] BY <1>0
<1> HIDE DEF g
<1>5. g = body(g)
  <2> SUFFICES ASSUME NEW k \in 0 .. n
               PROVE  g[k] = IF k = 0 THEN line ELSE g[k - 1] \div Pow2[slices[k]]
    BY <1>4
  <2>1. CASE k = 0 BY <1>3, <1>4, <2>1
  <2>2. CASE k # 0
    <3>1. k \in 1 .. n /\ k - 1 \in 0 .. n BY <1>0, <2>2
    <3> QED BY <1>3, <1>4, <2>2, <3>1
  <2> QED BY <2>1, <2>2
<1>6. rest = body(rest) BY <1>5, Zenon
<1>7. Rest(slices, line) = rest BY Zenon DEF Rest, n
<1> HIDE DEF rest
<1>8. rest = [k \in 0 .. n |-> rest[k]] BY <1>6
<1>9. \A k \in 0 .. n : rest[k] = IF k = 0 THEN line ELSE rest[k - 1] \div Pow2[slices[k]]
  BY <1>6
<1>10. \A k \in 0 .. n : rest[k] \in Nat
  <2> DEFINE T == { k \in Nat : k <= n => rest[k] \in Nat }
  <2>1. 0 \in T BY <1>0, <1>9
  <2>2. ASSUME NEW k \in Nat, k \in T PROVE k + 1 \in T
    <3> SUFFICES ASSUME k + 1 <= n PROVE rest[k + 1] \in Nat OBVIOUS
    <3>1. /\ k <= n /\ k + 1 \in 1 .. n /\ k + 1 \in 0 .. n
          /\ (k + 1) - 1 = k /\ k + 1 # 0
      BY <1>0
    <3>2. rest[k] \in Nat BY <2>2, <3>1
    <3>3. rest[k + 1] = rest[k] \div Pow2[slices[k + 1]] BY <1>9, <3>1
    <3>4. Pow2[slices[k + 1]] \in Nat \ {0} BY <1>0, <3>1
    <3>5. rest[k] \div Pow2[slices[k + 1]] \in Nat BY <3>2, <3>4, DivFacts
    <3> QED BY <3>3, <3>5
  <2> HIDE DEF T
  <2>3. Nat \subseteq T BY <2>1, <2>2, NatSetInduction
  <2> QED BY <1>0, <2>3 DEF T
<1>11. rest \in [0 .. n -> Nat] BY <1>8, <1>10
<1>12. rest[0] = line BY <1>0, <1>9
<1>13. ASSUME NEW k \in 1 .. n PROVE rest[k] = rest[k - 1] \div Pow2[slices[k]]
  <2>1. k \in 0 .. n /\ k # 0 BY <1>0
  <2> QED BY <1>9, <2>1
<1> QED BY <1>7, <1>11, <1>12, <1>13 DEF n

\* What is left before a piece is what is left after it, and the piece.
LEMMA PieceFacts ==
  ASSUME NEW slices \in Seq(Nat), NEW line \in Nat, NEW k \in 1 .. Len(slices)
  PROVE  /\ Piece(slices, line, k) \in 0 .. Pow2[slices[k]] - 1
         /\ Rest(slices, line)[k - 1]
              = Pow2[slices[k]] * Rest(slices, line)[k] + Piece(slices, line, k)
<1>1. k - 1 \in 0 .. Len(slices) /\ slices[k] \in Nat /\ k \in 0 .. Len(slices) OBVIOUS
<1>2. Rest(slices, line)[k - 1] \in Nat BY <1>1, RestFacts
<1>3. Rest(slices, line)[k] = Rest(slices, line)[k - 1] \div Pow2[slices[k]] BY RestFacts
<1>4. Pow2[slices[k]] \in Nat \ {0} BY <1>1, Pow2Facts
<1> QED BY <1>2, <1>3, <1>4, DivFacts DEF Piece

\* Lines whose pieces and whose ends are the same are the same.
LEMMA SamePieces ==
  ASSUME NEW slices \in Seq(Nat), NEW line1 \in Nat, NEW line2 \in Nat,
         \A k \in 1 .. Len(slices) : Piece(slices, line1, k) = Piece(slices, line2, k),
         Rest(slices, line1)[Len(slices)] = Rest(slices, line2)[Len(slices)]
  PROVE  line1 = line2
<1> DEFINE n == Len(slices)
           T == { i \in Nat : i <= n => Rest(slices, line1)[n - i] = Rest(slices, line2)[n - i] }
<1>0. n \in Nat OBVIOUS
<1>1. 0 \in T BY <1>0
<1>2. ASSUME NEW i \in Nat, i \in T PROVE i + 1 \in T
  <2> SUFFICES ASSUME i + 1 <= n
               PROVE  Rest(slices, line1)[n - (i + 1)] = Rest(slices, line2)[n - (i + 1)]
    OBVIOUS
  <2> DEFINE k == n - i
  <2>1. k \in 1 .. n /\ i <= n /\ n - (i + 1) = k - 1 BY <1>0
  <2>2. Rest(slices, line1)[k] = Rest(slices, line2)[k] BY <1>2, <2>1
  <2>3. Piece(slices, line1, k) = Piece(slices, line2, k) BY <2>1
  <2>4. Rest(slices, line1)[k - 1]
          = Pow2[slices[k]] * Rest(slices, line1)[k] + Piece(slices, line1, k)
    BY <2>1, PieceFacts
  <2>5. Rest(slices, line2)[k - 1]
          = Pow2[slices[k]] * Rest(slices, line2)[k] + Piece(slices, line2, k)
    BY <2>1, PieceFacts
  <2> HIDE DEF k
  <2> QED BY <2>1, <2>2, <2>3, <2>4, <2>5
<1> HIDE DEF T
<1>3. Nat \subseteq T BY <1>1, <1>2, NatSetInduction
<1>4. n \in T BY <1>0, <1>3
<1>5. Rest(slices, line1)[n - n] = Rest(slices, line2)[n - n] BY <1>0, <1>4 DEF T
<1>6. Rest(slices, line1)[0] = Rest(slices, line2)[0] BY <1>0, <1>5
<1> QED BY <1>6, RestFacts

\* As for Rest, with the sizes of the pieces so far.
LEMMA CapacityFacts ==
  ASSUME NEW slices \in Seq(Nat)
  PROVE  \E room \in [0 .. Len(slices) -> Nat \ {0}] :
            /\ room[0] = 1 /\ room[Len(slices)] = Capacity(slices)
            /\ \A k \in 1 .. Len(slices) : room[k] = room[k - 1] * Pow2[slices[k]]
<1> DEFINE n == Len(slices)
           S == Nat \ {0}
           wider(k) == [x \in S |-> x * Pow2[slices[k + 1]]]
           step == [k \in Nat |-> IF k < n THEN wider(k) ELSE [x \in S |-> x]]
           body(f) == [k \in 0 .. n |-> IF k = 0 THEN 1 ELSE f[k - 1] * Pow2[slices[k]]]
           room[k \in 0 .. n] == IF k = 0 THEN 1 ELSE room[k - 1] * Pow2[slices[k]]
           one == 1
<1>0. n \in Nat /\ \A k \in 1 .. n : slices[k] \in Nat /\ Pow2[slices[k]] \in Nat \ {0}
  <2>1. n \in Nat /\ \A k \in 1 .. n : slices[k] \in Nat OBVIOUS
  <2> QED BY <2>1, Pow2Facts
<1> HIDE DEF n
<1>1. step \in [Nat -> [S -> S]]
  <2> SUFFICES ASSUME NEW k \in Nat, k < n, NEW x \in S
               PROVE  x * Pow2[slices[k + 1]] \in S
    OBVIOUS
  <2>1. Pow2[slices[k + 1]] \in Nat \ {0} BY <1>0
  <2> QED BY <2>1
<1>2. PICK f \in [Nat -> S] : Iterates(f, one, step)
  <2>1. one \in S OBVIOUS
  <2> HIDE DEF step, S, one
  <2> QED BY <1>1, <2>1, IteratesDefined, Zenon
<1>3. f[0] = 1 /\ \A k \in 1 .. n : f[k] = f[k - 1] * Pow2[slices[k]]
  <2>1. ASSUME NEW k \in 1 .. n PROVE f[k] = f[k - 1] * Pow2[slices[k]]
    <3>1. k - 1 \in Nat /\ k - 1 < n /\ (k - 1) + 1 = k BY <1>0
    <3>2. f[(k - 1) + 1] = step[k - 1][f[k - 1]] BY <1>2, <3>1 DEF Iterates
    <3>3. f[k - 1] \in S BY <3>1
    <3> QED BY <3>1, <3>2, <3>3
  <2> QED BY <1>2, <2>1 DEF Iterates
<1> DEFINE g == [k \in 0 .. n |-> f[k]]
<1>4. g \in [0 .. n -> S] /\ \A k \in 0 .. n : g[k] = f[k] BY <1>0
<1> HIDE DEF g
<1>5. g = body(g)
  <2> SUFFICES ASSUME NEW k \in 0 .. n
               PROVE  g[k] = IF k = 0 THEN 1 ELSE g[k - 1] * Pow2[slices[k]]
    BY <1>4
  <2>1. CASE k = 0 BY <1>3, <1>4, <2>1
  <2>2. CASE k # 0
    <3>1. k \in 1 .. n /\ k - 1 \in 0 .. n BY <1>0, <2>2
    <3> QED BY <1>3, <1>4, <2>2, <3>1
  <2> QED BY <2>1, <2>2
<1>6. room = body(room) BY <1>5, Zenon
<1>7. Capacity(slices) = room[n] BY Zenon DEF Capacity, n
<1> HIDE DEF room
<1>8. room = [k \in 0 .. n |-> room[k]] BY <1>6
<1>9. \A k \in 0 .. n : room[k] = IF k = 0 THEN 1 ELSE room[k - 1] * Pow2[slices[k]]
  BY <1>6
<1>10. \A k \in 0 .. n : room[k] \in S
  <2> DEFINE T == { k \in Nat : k <= n => room[k] \in S }
  <2>1. 0 \in T BY <1>0, <1>9
  <2>2. ASSUME NEW k \in Nat, k \in T PROVE k + 1 \in T
    <3> SUFFICES ASSUME k + 1 <= n PROVE room[k + 1] \in S OBVIOUS
    <3>1. /\ k <= n /\ k + 1 \in 1 .. n /\ k + 1 \in 0 .. n
          /\ (k + 1) - 1 = k /\ k + 1 # 0
      BY <1>0
    <3>2. room[k] \in S BY <2>2, <3>1
    <3>3. room[k + 1] = room[k] * Pow2[slices[k + 1]] BY <1>9, <3>1
    <3>4. Pow2[slices[k + 1]] \in Nat \ {0} BY <1>0, <3>1
    <3>5. room[k] * Pow2[slices[k + 1]] \in S BY <3>2, <3>4, ProductFacts
    <3> QED BY <3>3, <3>5
  <2> HIDE DEF T
  <2>3. Nat \subseteq T BY <2>1, <2>2, NatSetInduction
  <2> QED BY <1>0, <2>3 DEF T
<1>11. room \in [0 .. n -> S] BY <1>8, <1>10
<1>12. room[0] = 1 BY <1>0, <1>9
<1>13. ASSUME NEW k \in 1 .. n PROVE room[k] = room[k - 1] * Pow2[slices[k]]
  <2>1. k \in 0 .. n /\ k # 0 BY <1>0
  <2> QED BY <1>9, <2>1
<1> QED BY <1>7, <1>11, <1>12, <1>13 DEF n

\* A line within the capacity leaves nothing over.
LEMMA NothingOver ==
  ASSUME NEW slices \in Seq(Nat), NEW line \in 0 .. Capacity(slices) - 1
  PROVE  line \in Nat /\ Rest(slices, line)[Len(slices)] = 0
<1> DEFINE n == Len(slices)
<1>1. PICK room \in [0 .. n -> Nat \ {0}] :
         /\ room[0] = 1 /\ room[n] = Capacity(slices)
         /\ \A k \in 1 .. n : room[k] = room[k - 1] * Pow2[slices[k]]
  BY CapacityFacts
<1>2. n \in Nat /\ Capacity(slices) \in Nat \ {0} BY <1>1
<1>3. line \in Nat /\ line < Capacity(slices) BY <1>2
<1> DEFINE left == Rest(slices, line)
           T == { k \in Nat : k <= n => room[k] * left[k] <= line }
<1>4. left \in [0 .. n -> Nat] /\ left[0] = line BY <1>3, RestFacts
<1>5. 0 \in T BY <1>1, <1>3, <1>4
<1>6. ASSUME NEW k \in Nat, k \in T PROVE k + 1 \in T
  <2> SUFFICES ASSUME k + 1 <= n PROVE room[k + 1] * left[k + 1] <= line OBVIOUS
  <2> DEFINE size == Pow2[slices[k + 1]]
  <2>1. k + 1 \in 1 .. n /\ k \in 0 .. n /\ k + 1 \in 0 .. n /\ (k + 1) - 1 = k BY <1>2
  <2>2. slices[k + 1] \in Nat BY <2>1
  <2>3. size \in Nat \ {0} BY <2>2, Pow2Facts
  <2>4. Piece(slices, line, k + 1) \in 0 .. size - 1
        /\ left[k] = size * left[k + 1] + Piece(slices, line, k + 1)
    BY <1>3, <2>1, PieceFacts
  <2>5. room[k + 1] = room[k] * size BY <1>1, <2>1
  <2>6. left[k] \in Nat /\ left[k + 1] \in Nat /\ room[k] \in Nat BY <1>1, <1>4, <2>1
  <2>7. room[k] * left[k] <= line BY <1>6, <2>1
  <2> DEFINE piece == Piece(slices, line, k + 1)
  <2> HIDE DEF size, left, piece
  <2>8. piece \in Nat /\ left[k] = size * left[k + 1] + piece BY <2>3, <2>4 DEF piece
  <2>9. room[k] * left[k] = (room[k] * size) * left[k + 1] + room[k] * piece
    BY <2>3, <2>6, <2>8, SMTT(30)
  <2>10. room[k] * piece \in Nat BY <2>6, <2>8
  <2>11. (room[k] * size) * left[k + 1] \in Nat BY <2>3, <2>6
  <2> QED BY <1>3, <2>5, <2>7, <2>9, <2>10, <2>11
<1> HIDE DEF T, left
<1>7. Nat \subseteq T BY <1>5, <1>6, NatSetInduction
<1>8. n \in T /\ n \in 0 .. n BY <1>2, <1>7
<1>9. room[n] * left[n] <= line /\ left[n] \in Nat BY <1>2, <1>4, <1>8 DEF T
<1>10. left[n] = 0
  <2> SUFFICES ASSUME left[n] # 0 PROVE FALSE OBVIOUS
  <2>1. room[n] \in Nat \ {0} /\ left[n] \in Nat \ {0} BY <1>1, <1>2, <1>9
  <2>2. room[n] * left[n] \in Nat \ {0} /\ room[n] <= room[n] * left[n]
    BY <2>1, ProductFacts
  <2> QED BY <1>1, <1>3, <1>9, <2>1, <2>2
<1> QED BY <1>3, <1>10 DEF left

\* Lines within the capacity are told apart by their pieces.
LEMMA PiecesTell ==
  ASSUME NEW slices \in Seq(Nat),
         NEW line1 \in 0 .. Capacity(slices) - 1, NEW line2 \in 0 .. Capacity(slices) - 1,
         \A k \in 1 .. Len(slices) : Piece(slices, line1, k) = Piece(slices, line2, k)
  PROVE  line1 = line2
<1>1. line1 \in Nat /\ line2 \in Nat BY NothingOver
<1>2. Rest(slices, line1)[Len(slices)] = 0 BY NothingOver
<1>3. Rest(slices, line2)[Len(slices)] = 0 BY NothingOver
<1> QED BY <1>1, <1>2, <1>3, SamePieces
----------------------------------------------------------------------------
(* Exclusive or.                                                           *)

\* The exclusive or of numbers of w bits has w bits.
LEMMA XorRange ==
  ASSUME NEW K \in Nat, NEW w \in Nat, NEW a \in Nat, NEW b \in Nat,
         a < Pow2[w], b < Pow2[w]
  PROVE  BitXor[K][<<a, b>>] \in 0 .. Pow2[w] - 1
<1> DEFINE Small(k) == \A v \in Nat, x, y \in Nat :
                         x < Pow2[v] /\ y < Pow2[v] => BitXor[k][<<x, y>>] < Pow2[v]
           T == { k \in Nat : Small(k) }
<1>1. 0 \in T
  <2>1. \A v \in Nat : 0 < Pow2[v] BY Pow2Facts
  <2> QED BY <2>1, BitXorFacts
<1>2. ASSUME NEW k \in Nat, k \in T PROVE k + 1 \in T
  <2>1. Small(k) BY <1>2
  <2> SUFFICES ASSUME NEW v \in Nat, NEW x \in Nat, NEW y \in Nat, x < Pow2[v], y < Pow2[v]
               PROVE  BitXor[k + 1][<<x, y>>] < Pow2[v]
    OBVIOUS
  <2> DEFINE hx == x \div 2
             hy == y \div 2
             rest == BitXor[k][<<hx, hy>>]
  <2>2. hx \in Nat /\ hy \in Nat /\ rest \in Nat
    <3>1. hx \in Nat /\ hy \in Nat OBVIOUS
    <3> HIDE DEF hx, hy
    <3> QED BY <3>1, BitXorFacts
  <2>3. BitXor[k + 1][<<x, y>>] = ((x + y) % 2) + 2 * rest
    <3>1. \A p, q \in Nat : BitXor[k + 1][<<p, q>>] = ((p + q) % 2)
                                + 2 * BitXor[k][<<p \div 2, q \div 2>>]
      BY BitXorFacts
    <3> QED BY <3>1, Zenon
  <2>4. (x + y) % 2 \in 0 .. 1 OBVIOUS
  <2>5. CASE v = 0
    <3>1. x = 0 /\ y = 0 BY <2>5, Pow2Facts
    <3>2. hx = 0 /\ hy = 0 /\ (x + y) % 2 = 0 BY <3>1
    <3>3. rest < Pow2[0]
      <4>1. hx < Pow2[0] /\ hy < Pow2[0] BY <3>2, Pow2Facts
      <4> HIDE DEF hx, hy
      <4> QED BY <2>1, <2>2, <4>1
    <3> HIDE DEF rest
    <3> QED BY <2>2, <2>3, <2>5, <3>2, <3>3, Pow2Facts
  <2>6. CASE v # 0
    <3>1. v - 1 \in Nat /\ (v - 1) + 1 = v BY <2>6
    <3>2. hx < Pow2[v - 1] /\ hy < Pow2[v - 1] BY <3>1, HalfFacts
    <3>3. rest < Pow2[v - 1]
      <4> HIDE DEF hx, hy
      <4> QED BY <2>1, <2>2, <3>1, <3>2
    <3>4. Pow2[v] = 2 * Pow2[v - 1] /\ Pow2[v - 1] \in Nat
      <4>1. Pow2[(v - 1) + 1] = 2 * Pow2[v - 1] BY <3>1, Pow2Facts
      <4> QED BY <3>1, <4>1, Pow2Facts
    <3> HIDE DEF rest
    <3> QED BY <2>2, <2>3, <2>4, <3>3, <3>4
  <2> QED BY <2>5, <2>6
<1> HIDE DEF T
<1>3. Nat \subseteq T BY <1>1, <1>2, NatSetInduction
<1>4. BitXor[K][<<a, b>>] < Pow2[w] BY <1>3 DEF T
<1>5. BitXor[K][<<a, b>>] \in Nat BY BitXorFacts
<1>6. Pow2[w] \in Nat BY Pow2Facts
<1> QED BY <1>4, <1>5, <1>6

\* Numbers that fit in K bits stay apart under one mask.
LEMMA XorTells ==
  ASSUME NEW K \in Nat, NEW a \in Nat, NEW b \in Nat, NEW mask \in Nat,
         a < Pow2[K], b < Pow2[K], BitXor[K][<<a, mask>>] = BitXor[K][<<b, mask>>]
  PROVE  a = b
<1> DEFINE Tells(k) == \A x, y, m \in Nat :
                         /\ x < Pow2[k] /\ y < Pow2[k]
                         /\ BitXor[k][<<x, m>>] = BitXor[k][<<y, m>>]
                         => x = y
           T == { k \in Nat : Tells(k) }
<1>1. 0 \in T BY Pow2Facts
<1>2. ASSUME NEW k \in Nat, k \in T PROVE k + 1 \in T
  <2>1. Tells(k) BY <1>2
  <2> SUFFICES ASSUME NEW x \in Nat, NEW y \in Nat, NEW m \in Nat,
                      x < Pow2[k + 1], y < Pow2[k + 1],
                      BitXor[k + 1][<<x, m>>] = BitXor[k + 1][<<y, m>>]
               PROVE  x = y
    OBVIOUS
  <2> DEFINE hx == x \div 2
             hy == y \div 2
             hm == m \div 2
             restx == BitXor[k][<<hx, hm>>]
             resty == BitXor[k][<<hy, hm>>]
  <2>2. hx \in Nat /\ hy \in Nat /\ hm \in Nat /\ restx \in Nat /\ resty \in Nat
    <3>1. hx \in Nat /\ hy \in Nat /\ hm \in Nat OBVIOUS
    <3> HIDE DEF hx, hy, hm
    <3> QED BY <3>1, BitXorFacts
  <2>3. hx < Pow2[k] /\ hy < Pow2[k] BY HalfFacts
  <2>4. ((x + m) % 2) + 2 * restx = ((y + m) % 2) + 2 * resty
    <3>1. \A p, q \in Nat : BitXor[k + 1][<<p, q>>] = ((p + q) % 2)
                                + 2 * BitXor[k][<<p \div 2, q \div 2>>]
      BY BitXorFacts
    <3>2. BitXor[k + 1][<<x, m>>] = ((x + m) % 2) + 2 * restx BY <3>1, Zenon
    <3>3. BitXor[k + 1][<<y, m>>] = ((y + m) % 2) + 2 * resty BY <3>1, Zenon
    <3> QED BY <3>2, <3>3, Zenon
  <2>5. (x + m) % 2 \in 0 .. 1 /\ (y + m) % 2 \in 0 .. 1 OBVIOUS
  <2>6. restx = resty /\ (x + m) % 2 = (y + m) % 2
    <3> HIDE DEF restx, resty
    <3> QED BY <2>2, <2>4, <2>5
  <2>7. hx = hy
    <3> HIDE DEF hx, hy, hm
    <3> QED BY <2>1, <2>2, <2>3, <2>6
  <2> QED BY <2>6, <2>7
<1> HIDE DEF T
<1>3. Nat \subseteq T BY <1>1, <1>2, NatSetInduction
<1>4. Tells(K) BY <1>3 DEF T
<1> QED BY <1>4
----------------------------------------------------------------------------
(* One mapper after another: places stay within the levels' sizes, and two *)
(* lines within the capacity have two places.                              *)

PieceMappers == (LinearMappers \ {"MOP4CLXOR"}) \cup HBM3Mappers

Permutes(f, n) == /\ f \in [1 .. n -> 1 .. n]
                  /\ \A l \in 1 .. n : \E i \in 1 .. n : f[i] = l
                  /\ \A i, j \in 1 .. n : f[i] = f[j] => i = j

\* Each level takes one piece.
LEMMA SliceOrderPermutes ==
  ASSUME NEW n \in {5, 6, 7}, NEW m \in PieceMappers, m \in HBM3Mappers => n = 7
  PROVE  Permutes(SliceOrder(m, n), n)
<1> USE DEF PieceMappers, LinearMappers, HBM3Mappers, Permutes
<1>1. CASE m \in {"ChRaBaRoCo", "HBM3-Base", "HBM3-PIM"}
  <2>1. SliceOrder(m, n) = [i \in 1 .. n |-> n + 1 - i] BY <1>1 DEF SliceOrder
  <2>2. \A l \in 1 .. n : n + 1 - l \in 1 .. n /\ n + 1 - (n + 1 - l) = l OBVIOUS
  <2>3. \A l \in 1 .. n : SliceOrder(m, n)[n + 1 - l] = l BY <2>1, <2>2
  <2> QED BY <2>1, <2>2, <2>3
<1>2. CASE m = "RoBaRaCoCh"
  <2> DEFINE at(i) == CASE i = 1 -> 1 [] i = 2 -> n [] OTHER -> i - 1
             from(l) == CASE l = 1 -> 1 [] l = n -> 2 [] OTHER -> l + 1
  <2>1. SliceOrder(m, n) = [i \in 1 .. n |-> at(i)] BY <1>2 DEF SliceOrder
  <2>2. \A i \in 1 .. n : at(i) \in 1 .. n BY SMT
  <2>3. \A l \in 1 .. n : from(l) \in 1 .. n /\ at(from(l)) = l BY SMT
  <2>4. \A i, j \in 1 .. n : at(i) = at(j) => i = j BY SMT
  <2> HIDE DEF at, from
  <2>5. \A i \in 1 .. n : SliceOrder(m, n)[i] = at(i) BY <2>1
  <2>6. SliceOrder(m, n) \in [1 .. n -> 1 .. n] BY <2>1, <2>2
  <2>7. \A l \in 1 .. n : \E i \in 1 .. n : SliceOrder(m, n)[i] = l
    <3> TAKE l \in 1 .. n
    <3>1. from(l) \in 1 .. n /\ at(from(l)) = l BY <2>3
    <3>2. SliceOrder(m, n)[from(l)] = l BY <2>5, <3>1
    <3> QED BY <3>1, <3>2
  <2>8. \A i, j \in 1 .. n : SliceOrder(m, n)[i] = SliceOrder(m, n)[j] => i = j
    <3> TAKE i \in 1 .. n, j \in 1 .. n
    <3>1. SliceOrder(m, n)[i] = at(i) /\ SliceOrder(m, n)[j] = at(j) BY <2>5
    <3> QED BY <2>4, <3>1
  <2> QED BY <2>6, <2>7, <2>8
<1>3. CASE m = "HBM3-Custom"
  <2>1. SliceOrder(m, n) = <<1, 2, 4, 7, 3, 5, 6>> /\ n = 7 BY <1>3 DEF SliceOrder
  <2>2. 1 .. n = 1 .. 7 BY <2>1
  <2> QED BY <2>1, <2>2
<1>4. CASE m = "HBM3-PIM-Custom"
  <2> DEFINE at(i) == IF i = 1 THEN 1 ELSE n + 2 - i
  <2>1. SliceOrder(m, n) = [i \in 1 .. n |-> at(i)] BY <1>4 DEF SliceOrder
  <2>2. \A i \in 1 .. n : at(i) \in 1 .. n /\ at(at(i)) = i BY SMT
  <2>3. \A i, j \in 1 .. n : at(i) = at(j) => i = j BY SMT
  <2> HIDE DEF at
  <2> QED BY <2>1, <2>2, <2>3
<1> QED BY <1>1, <1>2, <1>3, <1>4

\* The mappers that give each level one piece.
LEMMA SlicedFacts ==
  ASSUME NEW bits0 \in Seq(Nat), NEW m \in PieceMappers, Len(bits0) \in {5, 6, 7},
         m \in HBM3Mappers => Len(bits0) = 7
  PROVE  /\ \A line \in 0 .. Capacity(Slices(m, bits0)) - 1 :
              \A l \in 1 .. Len(bits0) : Mapped(m, bits0, line)[l] \in 0 .. Pow2[bits0[l]] - 1
         /\ \A line1, line2 \in 0 .. Capacity(Slices(m, bits0)) - 1 :
              Mapped(m, bits0, line1) = Mapped(m, bits0, line2) => line1 = line2
<1> DEFINE n == Len(bits0)
           order == SliceOrder(m, n)
           slices == Slices(m, bits0)
           at(l) == CHOOSE i \in 1 .. n : order[i] = l
<1>1. n \in {5, 6, 7} /\ 1 .. n = DOMAIN bits0 /\ \A l \in 1 .. n : bits0[l] \in Nat OBVIOUS
<1> HIDE DEF n
<1>2. /\ order \in [1 .. n -> 1 .. n]
      /\ \A l \in 1 .. n : \E i \in 1 .. n : order[i] = l
      /\ \A i, j \in 1 .. n : order[i] = order[j] => i = j
  <2>1. m \in HBM3Mappers => n = 7 BY DEF n
  <2>2. n \in {5, 6, 7} BY <1>1
  <2>3. Permutes(order, n) BY <2>1, <2>2, SliceOrderPermutes, Zenon DEF order
  <2> HIDE DEF order
  <2> QED BY <2>3 DEF Permutes
<1> HIDE DEF order
<1>3. \A l \in 1 .. n : at(l) \in 1 .. n /\ order[at(l)] = l BY <1>2
<1>4. \A k \in 1 .. n : at(order[k]) = k
  <2> TAKE k \in 1 .. n
  <2>1. order[k] \in 1 .. n BY <1>2
  <2>2. at(order[k]) \in 1 .. n /\ order[at(order[k])] = order[k] BY <1>3, <2>1
  <2> HIDE DEF at
  <2> QED BY <1>2, <2>2
<1>5. m # "MOP4CLXOR" BY DEF PieceMappers, HBM3Mappers
<1>6. slices = [k \in 1 .. n |-> bits0[order[k]]] BY <1>5 DEF Slices, order, n
<1>7. slices \in Seq(Nat) /\ Len(slices) = n
  <2>1. \A k \in 1 .. n : bits0[order[k]] \in Nat BY <1>1, <1>2
  <2>2. n \in Nat BY <1>1
  <2> QED BY <1>6, <2>1, <2>2
<1>8. \A k \in 1 .. n : slices[k] = bits0[order[k]] BY <1>6
<1>9. \A line : Mapped(m, bits0, line) = [l \in 1 .. n |-> Piece(slices, line, at(l))]
  BY <1>5 DEF Mapped, Sliced, order, n
<1> HIDE DEF slices, at
<1>10. ASSUME NEW line \in 0 .. Capacity(slices) - 1, NEW l \in 1 .. n
       PROVE  Mapped(m, bits0, line)[l] \in 0 .. Pow2[bits0[l]] - 1
  <2>1. line \in Nat BY <1>7, NothingOver
  <2>2. at(l) \in 1 .. Len(slices) BY <1>3, <1>7
  <2>3. Piece(slices, line, at(l)) \in 0 .. Pow2[slices[at(l)]] - 1
    BY <1>7, <2>1, <2>2, PieceFacts
  <2>4. slices[at(l)] = bits0[l] BY <1>3, <1>8
  <2>5. Mapped(m, bits0, line)[l] = Piece(slices, line, at(l)) BY <1>9
  <2> QED BY <2>3, <2>4, <2>5
<1>11. ASSUME NEW line1 \in 0 .. Capacity(slices) - 1, NEW line2 \in 0 .. Capacity(slices) - 1,
              Mapped(m, bits0, line1) = Mapped(m, bits0, line2)
       PROVE  line1 = line2
  <2>1. ASSUME NEW k \in 1 .. n PROVE Piece(slices, line1, k) = Piece(slices, line2, k)
    <3>1. order[k] \in 1 .. n BY <1>2
    <3>2. Mapped(m, bits0, line1)[order[k]] = Piece(slices, line1, at(order[k])) BY <1>9, <3>1
    <3>3. Mapped(m, bits0, line2)[order[k]] = Piece(slices, line2, at(order[k])) BY <1>9, <3>1
    <3> QED BY <1>4, <1>11, <3>2, <3>3
  <2>2. \A k \in 1 .. Len(slices) : Piece(slices, line1, k) = Piece(slices, line2, k)
    BY <1>7, <2>1
  <2> QED BY <1>7, <2>2, PiecesTell
<1> QED BY <1>10, <1>11 DEF slices, n
\* MOP4CLXOR, with a column of at least the two low bits and integers that hold
\* every other field.
LEMMA MOPFacts ==
  ASSUME NEW bits0 \in Seq(Nat), Len(bits0) \in {5, 6, 7}, bits0[Len(bits0)] >= 2,
         \A l \in 1 .. Len(bits0) - 1 : bits0[l] <= IntBits
  PROVE  /\ \A line \in 0 .. Capacity(MOPSlices(bits0)) - 1 :
              \A l \in 1 .. Len(bits0) : MOP4CLXOR(bits0, line)[l] \in 0 .. Pow2[bits0[l]] - 1
         /\ \A line1, line2 \in 0 .. Capacity(MOPSlices(bits0)) - 1 :
              MOP4CLXOR(bits0, line1) = MOP4CLXOR(bits0, line2) => line1 = line2
<1> DEFINE n == Len(bits0)
           slices == MOPSlices(bits0)
           low(line) == Piece(slices, line, 1)
           high(line) == Piece(slices, line, n)
           column(line) == low(line) + 4 * high(line)
           cut(line, l) == IF l = n - 1 THEN Rest(slices, line)[n] ELSE Piece(slices, line, l + 1)
           mask(line, l) == Piece(bits0, column(line), l)
           lines == 0 .. Capacity(slices) - 1
<1>1. n \in {5, 6, 7} /\ 1 .. n = DOMAIN bits0 /\ \A l \in 1 .. n : bits0[l] \in Nat OBVIOUS
<1>2. bits0[n] >= 2 /\ \A l \in 1 .. n - 1 : bits0[l] <= IntBits OBVIOUS
<1> DEFINE size(k) == CASE k = 1 -> 2 [] k = n -> bits0[n] - 2
                       [] k = n + 1 -> bits0[n - 1] [] OTHER -> bits0[k - 1]
<1>3. slices = [k \in 1 .. n + 1 |-> size(k)] BY DEF MOPSlices
<1>4. \A line : MOP4CLXOR(bits0, line)
                  = [l \in 1 .. n |-> IF l = n THEN column(line)
                                      ELSE BitXor[IntBits][<<cut(line, l), mask(line, l)>>]]
  BY DEF MOP4CLXOR
<1> HIDE DEF n, slices
<1>5. \A k \in 1 .. n + 1 : size(k) \in Nat
  <2> TAKE k \in 1 .. n + 1
  <2>1. CASE k = 1
    <3>1. k # n /\ k # n + 1 BY <1>1, <2>1
    <3> QED BY <2>1, <3>1
  <2>2. CASE k = n
    <3>1. k # 1 /\ k # n + 1 /\ bits0[n] \in Nat BY <1>1, <2>2
    <3>2. size(k) = bits0[n] - 2 BY <2>2, <3>1
    <3> QED BY <1>2, <3>1, <3>2, SMTT(30)
  <2>3. CASE k = n + 1
    <3>1. k # 1 /\ k # n /\ n - 1 \in 1 .. n BY <1>1, <2>3
    <3>2. size(k) = bits0[n - 1] BY <2>3, <3>1
    <3> QED BY <1>1, <3>1, <3>2
  <2>4. CASE k # 1 /\ k # n /\ k # n + 1
    <3>1. k - 1 \in 1 .. n BY <1>1, <2>4
    <3>2. size(k) = bits0[k - 1] BY <2>4
    <3> QED BY <1>1, <3>1, <3>2
  <2> QED BY <2>1, <2>2, <2>3, <2>4
<1>6. /\ size(n) = bits0[n] - 2 /\ size(n + 1) = bits0[n - 1]
      /\ size(1) = 2 /\ \A l \in 1 .. n - 2 : size(l + 1) = bits0[l]
  <2>1. size(1) = 2
    <3>1. 1 # n /\ 1 # n + 1 BY <1>1
    <3> QED BY <3>1
  <2>2. size(n) = bits0[n] - 2
    <3>1. n # 1 /\ n # n + 1 BY <1>1
    <3> QED BY <3>1
  <2>3. ASSUME NEW l \in 1 .. n - 2 PROVE size(l + 1) = bits0[l]
    <3>1. l + 1 # 1 /\ l + 1 # n /\ l + 1 # n + 1 /\ (l + 1) - 1 = l BY <1>1
    <3> QED BY <3>1
  <2>4. size(n + 1) = bits0[n - 1]
    <3>1. n + 1 # 1 /\ n + 1 # n BY <1>1
    <3> QED BY <3>1
  <2> QED BY <2>1, <2>2, <2>3, <2>4
<1> HIDE DEF size
<1>7. /\ slices \in Seq(Nat) /\ Len(slices) = n + 1
      /\ \A k \in 1 .. n + 1 : slices[k] = size(k)
  <2>1. n + 1 \in Nat BY <1>1
  <2> QED BY <1>3, <1>5, <2>1
<1>8. \A line \in lines : line \in Nat /\ Rest(slices, line)[n + 1] = 0
  BY <1>7, NothingOver
<1>9. ASSUME NEW line \in lines
      PROVE  /\ low(line) \in 0 .. 3 /\ high(line) \in 0 .. Pow2[bits0[n] - 2] - 1
             /\ Rest(slices, line)[n] = Piece(slices, line, n + 1)
             /\ cut(line, n - 1) = Piece(slices, line, n + 1)
             /\ \A l \in 1 .. n - 2 : cut(line, l) = Piece(slices, line, l + 1)
             /\ \A l \in 1 .. n - 1 : cut(line, l) \in 0 .. Pow2[bits0[l]] - 1
  <2>1. line \in Nat /\ Rest(slices, line)[n + 1] = 0 BY <1>8
  <2>2. 1 \in 1 .. n + 1 /\ n \in 1 .. n + 1 /\ n + 1 \in 1 .. n + 1 /\ (n + 1) - 1 = n BY <1>1
  <2>3. \A k \in 1 .. n + 1 : Piece(slices, line, k) \in 0 .. Pow2[size(k)] - 1
    BY <1>7, <2>1, PieceFacts
  <2>4. low(line) \in 0 .. Pow2[2] - 1 /\ high(line) \in 0 .. Pow2[bits0[n] - 2] - 1
    BY <1>6, <2>2, <2>3
  <2>5. low(line) \in 0 .. 3 BY <2>4, SmallPowers
  <2>6. Rest(slices, line)[n]
          = Pow2[size(n + 1)] * Rest(slices, line)[n + 1] + Piece(slices, line, n + 1)
    BY <1>7, <2>1, <2>2, PieceFacts
  <2>7. Pow2[size(n + 1)] \in Nat BY <1>5, <2>2, Pow2Facts
  <2>8. Piece(slices, line, n + 1) \in 0 .. Pow2[size(n + 1)] - 1 BY <2>2, <2>3
  <2>9. Rest(slices, line)[n] = Piece(slices, line, n + 1) BY <2>1, <2>6, <2>7, <2>8
  <2>10. cut(line, n - 1) = Piece(slices, line, n + 1) BY <2>9
  <2>11. \A l \in 1 .. n - 2 : cut(line, l) = Piece(slices, line, l + 1)
    <3> TAKE l \in 1 .. n - 2
    <3>1. l # n - 1 BY <1>1
    <3> QED BY <3>1
  <2>12. ASSUME NEW l \in 1 .. n - 1 PROVE cut(line, l) \in 0 .. Pow2[bits0[l]] - 1
    <3>1. CASE l = n - 1 BY <1>6, <2>8, <2>10, <3>1
    <3>2. CASE l # n - 1
      <4>1. l \in 1 .. n - 2 /\ l + 1 \in 1 .. n + 1 BY <1>1, <3>2
      <4>2. Piece(slices, line, l + 1) \in 0 .. Pow2[bits0[l]] - 1 BY <1>6, <2>3, <4>1
      <4> QED BY <2>11, <4>1, <4>2
    <3> QED BY <3>1, <3>2
  <2> QED BY <2>4, <2>5, <2>9, <2>10, <2>11, <2>12
<1> HIDE DEF low, high, cut
<1>10. ASSUME NEW line \in lines
       PROVE  column(line) \in 0 .. Pow2[bits0[n]] - 1
  <2>1. low(line) \in 0 .. 3 /\ high(line) \in 0 .. Pow2[bits0[n] - 2] - 1 BY <1>9
  <2>2. bits0[n] - 2 \in Nat BY <1>1, <1>2
  <2>3. Pow2[bits0[n]] = 4 * Pow2[bits0[n] - 2] /\ Pow2[bits0[n] - 2] \in Nat
    <3> DEFINE b == bits0[n] - 2
    <3>1. b \in Nat /\ b + 1 \in Nat /\ (b + 1) + 1 = bits0[n] BY <1>1, <2>2, SMTT(30)
    <3> HIDE DEF b
    <3>2. Pow2[b + 1] = 2 * Pow2[b] /\ Pow2[(b + 1) + 1] = 2 * Pow2[b + 1] /\ Pow2[b] \in Nat
      BY <3>1, Pow2Facts
    <3>3. Pow2[bits0[n]] = 4 * Pow2[b] BY <3>1, <3>2
    <3> QED BY <3>2, <3>3 DEF b
  <2> QED BY <2>1, <2>3, SMTT(30)
<1>11. ASSUME NEW line \in lines, NEW l \in 1 .. n - 1
       PROVE  mask(line, l) \in 0 .. Pow2[bits0[l]] - 1
  <2>1. column(line) \in Nat
    <3>1. n \in 1 .. n BY <1>1
    <3>2. Pow2[bits0[n]] \in Nat BY <1>1, <3>1, Pow2Facts
    <3> HIDE DEF column
    <3> QED BY <1>10, <3>2
  <2>2. l \in 1 .. Len(bits0) BY <1>1 DEF n
  <2> HIDE DEF column
  <2> QED BY <2>1, <2>2, PieceFacts
<1> HIDE DEF column, mask
<1>12. ASSUME NEW line \in lines, NEW l \in 1 .. n
       PROVE  MOP4CLXOR(bits0, line)[l] \in 0 .. Pow2[bits0[l]] - 1
  <2>1. CASE l = n
    <3>1. MOP4CLXOR(bits0, line)[l] = column(line) BY <1>4, <2>1
    <3> QED BY <1>10, <2>1, <3>1
  <2>2. CASE l # n
    <3>1. l \in 1 .. n - 1 BY <1>1, <2>2
    <3>2. MOP4CLXOR(bits0, line)[l] = BitXor[IntBits][<<cut(line, l), mask(line, l)>>]
      BY <1>4, <2>2, ZenonT(30)
    <3>3. cut(line, l) \in 0 .. Pow2[bits0[l]] - 1 /\ mask(line, l) \in 0 .. Pow2[bits0[l]] - 1
      BY <1>9, <1>11, <3>1
    <3>4. bits0[l] \in Nat /\ Pow2[bits0[l]] \in Nat BY <1>1, Pow2Facts
    <3>5. /\ cut(line, l) \in Nat /\ mask(line, l) \in Nat
          /\ cut(line, l) < Pow2[bits0[l]] /\ mask(line, l) < Pow2[bits0[l]]
      BY <3>3, <3>4
    <3>6. IntBits \in Nat BY DEF IntBits
    <3>7. BitXor[IntBits][<<cut(line, l), mask(line, l)>>] \in 0 .. Pow2[bits0[l]] - 1
      BY <3>4, <3>5, <3>6, XorRange
    <3> QED BY <3>2, <3>7
  <2> QED BY <2>1, <2>2
<1>13. ASSUME NEW line1 \in lines, NEW line2 \in lines,
              MOP4CLXOR(bits0, line1) = MOP4CLXOR(bits0, line2)
       PROVE  line1 = line2
  <2>1. column(line1) = column(line2)
    <3>1. n \in 1 .. n BY <1>1
    <3>2. MOP4CLXOR(bits0, line1)[n] = column(line1) BY <1>4, <3>1
    <3>3. MOP4CLXOR(bits0, line2)[n] = column(line2) BY <1>4, <3>1
    <3> QED BY <1>13, <3>2, <3>3
  <2>2. low(line1) = low(line2) /\ high(line1) = high(line2)
    <3>1. /\ low(line1) \in 0 .. 3 /\ low(line2) \in 0 .. 3
          /\ high(line1) \in Nat /\ high(line2) \in Nat
      <4>1. bits0[n] - 2 \in Nat BY <1>1, <1>2
      <4>2. Pow2[bits0[n] - 2] \in Nat BY <4>1, Pow2Facts
      <4> QED BY <1>9, <4>2
    <3>2. low(line1) + 4 * high(line1) = low(line2) + 4 * high(line2) BY <2>1 DEF column
    <3> QED BY <3>1, <3>2, SMTT(30)
  <2>3. ASSUME NEW l \in 1 .. n - 1 PROVE cut(line1, l) = cut(line2, l)
    <3>1. l \in 1 .. n /\ l # n BY <1>1
    <3>2. MOP4CLXOR(bits0, line1)[l] = BitXor[IntBits][<<cut(line1, l), mask(line1, l)>>]
      BY <1>4, <3>1, ZenonT(30)
    <3>3. MOP4CLXOR(bits0, line2)[l] = BitXor[IntBits][<<cut(line2, l), mask(line2, l)>>]
      BY <1>4, <3>1, ZenonT(30)
    <3>4. mask(line1, l) = mask(line2, l) BY <2>1 DEF mask
    <3>5. bits0[l] \in Nat /\ bits0[l] <= IntBits /\ IntBits \in Nat
      BY <1>1, <1>2, <3>1 DEF IntBits
    <3>6. Pow2[bits0[l]] \in Nat /\ Pow2[IntBits] \in Nat /\ Pow2[bits0[l]] <= Pow2[IntBits]
      <4>1. Pow2[bits0[l]] \in Nat /\ Pow2[IntBits] \in Nat BY <3>5, Pow2Facts
      <4>2. CASE bits0[l] = IntBits BY <4>1, <4>2
      <4>3. CASE bits0[l] < IntBits BY <3>5, <4>1, <4>3, Pow2Increases
      <4> QED BY <3>5, <4>1, <4>2, <4>3
    <3>7. /\ cut(line1, l) \in Nat /\ cut(line1, l) < Pow2[IntBits]
          /\ cut(line2, l) \in Nat /\ cut(line2, l) < Pow2[IntBits]
      <4>1. cut(line1, l) \in 0 .. Pow2[bits0[l]] - 1 /\ cut(line2, l) \in 0 .. Pow2[bits0[l]] - 1
        BY <1>9
      <4> QED BY <3>6, <4>1
    <3>8. mask(line1, l) \in Nat
      <4>1. mask(line1, l) \in 0 .. Pow2[bits0[l]] - 1 BY <1>11
      <4> QED BY <3>6, <4>1
    <3>9. BitXor[IntBits][<<cut(line1, l), mask(line1, l)>>]
            = BitXor[IntBits][<<cut(line2, l), mask(line1, l)>>]
      BY <1>13, <3>2, <3>3, <3>4
    <3> QED BY <3>5, <3>7, <3>8, <3>9, XorTells
  <2>4. ASSUME NEW k \in 1 .. n + 1 PROVE Piece(slices, line1, k) = Piece(slices, line2, k)
    <3>1. CASE k = 1 BY <2>2, <3>1 DEF low
    <3>2. CASE k = n BY <2>2, <3>2 DEF high
    <3>3. CASE k = n + 1
      <4>1. n - 1 \in 1 .. n - 1 BY <1>1
      <4>2. cut(line1, n - 1) = cut(line2, n - 1) BY <2>3, <4>1
      <4> QED BY <1>9, <3>3, <4>2
    <3>4. CASE k # 1 /\ k # n /\ k # n + 1
      <4>1. k - 1 \in 1 .. n - 2 /\ k - 1 \in 1 .. n - 1 /\ (k - 1) + 1 = k BY <1>1, <3>4
      <4>2. cut(line1, k - 1) = cut(line2, k - 1) BY <2>3, <4>1
      <4>3. cut(line1, k - 1) = Piece(slices, line1, (k - 1) + 1) BY <1>9, <4>1
      <4>4. cut(line2, k - 1) = Piece(slices, line2, (k - 1) + 1) BY <1>9, <4>1
      <4> QED BY <4>1, <4>2, <4>3, <4>4
    <3> QED BY <3>1, <3>2, <3>3, <3>4
  <2>5. \A k \in 1 .. Len(slices) : Piece(slices, line1, k) = Piece(slices, line2, k)
    BY <1>7, <2>4
  <2> QED BY <1>7, <2>5, PiecesTell
<1> QED BY <1>12, <1>13 DEF slices, n
----------------------------------------------------------------------------
(* The organizations of the presets, resized or not.                       *)

\* Channel to bank.
LevelsAbove(s) == IF s \in {"DDR3", "GDDR6", "HBM"} THEN 3
                  ELSE IF s \in {"HBM3", "HBM3_PIM"} THEN 5 ELSE 4

LevelNames == {"channel", "pseudochannel", "rank", "bankgroup", "bank", "row", "column"}

LEMMA LevelsFacts ==
  ASSUME NEW s \in AllStandards
  PROVE  /\ Levels(s) \in Seq(LevelNames) /\ Len(Levels(s)) = 2 + LevelsAbove(s)
         /\ Levels(s)[Len(Levels(s))] = "column"
         /\ LevelsAbove(s) \in {3, 4, 5}
<1> DEFINE table == IF s = "HBM3_PIM" THEN "HBM3" ELSE s
           above == Commands[table].levels
<1>1. above \in Seq(LevelNames) /\ Len(above) = LevelsAbove(s)
  <2> USE DEF Commands, CommandTable
  <2>1. CASE s = "DDR3"
    <3>1. above = <<"channel", "rank", "bank">>
      BY <2>1 DEF DDR3Commands
    <3> HIDE DEF above
    <3> QED BY <2>1, <3>1 DEF LevelNames, LevelsAbove
  <2>2. CASE s = "DDR4"
    <3>1. above = <<"channel", "rank", "bankgroup", "bank">>
      BY <2>2 DEF DDR4Commands
    <3> HIDE DEF above
    <3> QED BY <2>2, <3>1 DEF LevelNames, LevelsAbove
  <2>3. CASE s = "DDR4_VRR"
    <3>1. above = <<"channel", "rank", "bankgroup", "bank">>
      BY <2>3 DEF DDR4VRRCommands
    <3> HIDE DEF above
    <3> QED BY <2>3, <3>1 DEF LevelNames, LevelsAbove
  <2>4. CASE s = "DDR5"
    <3>1. above = <<"channel", "rank", "bankgroup", "bank">>
      BY <2>4 DEF DDR5Commands
    <3> HIDE DEF above
    <3> QED BY <2>4, <3>1 DEF LevelNames, LevelsAbove
  <2>5. CASE s = "LPDDR5"
    <3>1. above = <<"channel", "rank", "bankgroup", "bank">>
      BY <2>5 DEF LPDDR5Commands
    <3> HIDE DEF above
    <3> QED BY <2>5, <3>1 DEF LevelNames, LevelsAbove
  <2>6. CASE s = "GDDR6"
    <3>1. above = <<"channel", "bankgroup", "bank">>
      BY <2>6 DEF GDDR6Commands
    <3> HIDE DEF above
    <3> QED BY <2>6, <3>1 DEF LevelNames, LevelsAbove
  <2>7. CASE s = "HBM"
    <3>1. above = <<"channel", "bankgroup", "bank">>
      BY <2>7 DEF HBMCommands
    <3> HIDE DEF above
    <3> QED BY <2>7, <3>1 DEF LevelNames, LevelsAbove
  <2>8. CASE s = "HBM2"
    <3>1. above = <<"channel", "pseudochannel", "bankgroup", "bank">>
      BY <2>8 DEF HBM2Commands
    <3> HIDE DEF above
    <3> QED BY <2>8, <3>1 DEF LevelNames, LevelsAbove
  <2>9. CASE s \in {"HBM3", "HBM3_PIM"}
    <3>1. above = <<"channel", "pseudochannel", "rank", "bankgroup", "bank">>
      BY <2>9 DEF HBM3Commands
    <3> HIDE DEF above
    <3> QED BY <2>9, <3>1 DEF LevelNames, LevelsAbove
  <2> QED BY <2>1, <2>2, <2>3, <2>4, <2>5, <2>6, <2>7, <2>8, <2>9 DEF AllStandards
<1>2. LevelsAbove(s) \in {3, 4, 5} BY DEF LevelsAbove
<1> DEFINE tail == <<"row", "column">>
<1>3. Levels(s) = above \o tail BY DEF Levels
<1>4. tail \in Seq(LevelNames) /\ Len(tail) = 2 /\ tail[2] = "column" BY DEF LevelNames
<1> HIDE DEF above, tail
<1>5. /\ above \o tail \in Seq(LevelNames) /\ Len(above \o tail) = LevelsAbove(s) + 2
      /\ (above \o tail)[LevelsAbove(s) + 2] = "column"
  <2> DEFINE n == LevelsAbove(s)
  <2>1. n \in Nat /\ Len(above) = n /\ n + 2 > n /\ n + 2 <= n + 2 /\ (n + 2) - n = 2
    BY <1>1, <1>2
  <2>2. /\ above \o tail \in Seq(LevelNames) /\ Len(above \o tail) = Len(above) + Len(tail)
        /\ \A i \in 1 .. Len(above) + Len(tail) :
             (above \o tail)[i] = IF i <= Len(above) THEN above[i] ELSE tail[i - Len(above)]
    BY <1>1, <1>4, ConcatProperties
  <2>3. n + 2 \in 1 .. Len(above) + Len(tail) BY <1>4, <2>1
  <2>4. (above \o tail)[n + 2] = tail[(n + 2) - Len(above)]
    BY <2>1, <2>2, <2>3
  <2> QED BY <1>4, <2>1, <2>2, <2>4
<1> QED BY <1>2, <1>3, <1>5

LEMMA PrefetchFacts ==
  ASSUME NEW s \in AllStandards
  PROVE  \E j \in Nat : PrefetchSize(s) = Pow2[j] /\ Pow2[j + 2] = 4 * PrefetchSize(s)
<1>1. PrefetchSize(s) \in {2, 8, 16} BY DEF PrefetchSize, AllStandards
<1>2. CASE PrefetchSize(s) = 2
  <2>1. 1 + 2 = 3 OBVIOUS
  <2> QED BY <1>2, <2>1, SmallPowers
<1>3. CASE PrefetchSize(s) = 8
  <2>1. 3 + 2 = 5 OBVIOUS
  <2> QED BY <1>3, <2>1, SmallPowers
<1>4. CASE PrefetchSize(s) = 16
  <2>1. 4 + 2 = 6 OBVIOUS
  <2> QED BY <1>4, <2>1, SmallPowers
<1> QED BY <1>1, <1>2, <1>3, <1>4

\* Nodes of each level, as many columns as four bursts, and one level after
\* another as the standard names them.
Shaped(s, count) ==
  /\ count \in Seq(1 .. MaxInt) /\ Len(count) = Len(Levels(s))
  /\ count[Len(count)] >= 4 * PrefetchSize(s)

LEMMA MaxIntFacts == MaxInt \in Nat /\ MaxInt > 2^20 /\ MaxInt < 2147483648
BY SMT DEF MaxInt

LEMMA PresetsShaped ==
  ASSUME NEW s \in AllStandards, NEW o \in Orgs(s)
  PROVE  Shaped(s, o.count)
<1>1. Len(Levels(s)) = 2 + LevelsAbove(s) BY LevelsFacts
<1>0. MaxInt \in Nat /\ MaxInt > 2^20 BY MaxIntFacts
<1> DEFINE Fits(n, p) == /\ o.count \in Seq(1 .. MaxInt) /\ Len(o.count) = n
                         /\ o.count[n] >= 4 * p
<1>2. CASE s = "DDR3"
  <2>1. o \in DDR3Orgs BY <1>2 DEF Orgs
  <2>2. PICK d \in {1, 2, 4, 8}, w \in {4, 8, 16} :
          o.count = <<1, 1, 8, d * (IF w = 16 THEN 2^13 ELSE 2^14), IF w = 4 THEN 2^11 ELSE 2^10>>
    BY <2>1 DEF DDR3Orgs, Org
  <2> DEFINE rows == d * (IF w = 16 THEN 2^13 ELSE 2^14)
             cols == IF w = 4 THEN 2^11 ELSE 2^10
  <2>3. rows \in 1 .. 2^20 /\ cols \in 1 .. 2^20 /\ cols >= 4 * 8 OBVIOUS
  <2>4. o.count = <<1, 1, 8, rows, cols>> BY <2>2
  <2> HIDE DEF rows, cols
  <2>5. Fits(5, 8) BY <1>0, <2>3, <2>4
  <2> QED BY <1>1, <1>2, <2>5 DEF Shaped, LevelsAbove, PrefetchSize
<1>3. CASE s \in {"DDR4", "DDR4_VRR"}
  <2>1. o \in DDR4Orgs BY <1>3 DEF Orgs
  <2>2. PICK d \in {2, 4, 8, 16}, w \in {4, 8, 16} :
          o.count = <<1, 1, IF w = 16 THEN 2 ELSE 4, 4, d * (IF w = 4 THEN 2^14 ELSE 2^13), 2^10>>
    BY <2>1 DEF DDR4Orgs, Org
  <2> DEFINE groups == IF w = 16 THEN 2 ELSE 4
             rows == d * (IF w = 4 THEN 2^14 ELSE 2^13)
  <2>3. groups \in 1 .. 2^20 /\ rows \in 1 .. 2^20 /\ 2^10 \in 1 .. 2^20 /\ 2^10 >= 4 * 8
    OBVIOUS
  <2>4. o.count = <<1, 1, groups, 4, rows, 2^10>> BY <2>2
  <2> HIDE DEF groups, rows
  <2>5. Fits(6, 8) BY <1>0, <2>3, <2>4
  <2> QED BY <1>1, <1>3, <2>5 DEF Shaped, LevelsAbove, PrefetchSize
<1>4. CASE s = "DDR5"
  <2>1. o \in DDR5Orgs BY <1>4 DEF Orgs
  <2>2. PICK d \in {8, 16, 32}, w \in {4, 8, 16} :
          o.count = <<1, 1, IF w = 16 THEN 4 ELSE 8, IF d = 8 THEN 2 ELSE 4,
                      IF d = 32 THEN 2^17 ELSE 2^16, IF w = 4 THEN 2^11 ELSE 2^10>>
    BY <2>1 DEF DDR5Orgs, Org
  <2> DEFINE groups == IF w = 16 THEN 4 ELSE 8
             banks == IF d = 8 THEN 2 ELSE 4
             rows == IF d = 32 THEN 2^17 ELSE 2^16
             cols == IF w = 4 THEN 2^11 ELSE 2^10
  <2>3. /\ groups \in 1 .. 2^20 /\ banks \in 1 .. 2^20 /\ rows \in 1 .. 2^20
        /\ cols \in 1 .. 2^20 /\ cols >= 4 * 16
    OBVIOUS
  <2>4. o.count = <<1, 1, groups, banks, rows, cols>> BY <2>2
  <2> HIDE DEF groups, banks, rows, cols
  <2>5. Fits(6, 16) BY <1>0, <2>3, <2>4
  <2> QED BY <1>1, <1>4, <2>5 DEF Shaped, LevelsAbove, PrefetchSize
<1>5. CASE s = "LPDDR5"
  <2>1. o \in LPDDR5Orgs BY <1>5 DEF Orgs
  <2>2. PICK d \in {2, 4, 8, 16, 32} : o.count = <<1, 1, 4, 4, d * 2^12, 2^10>>
    BY <2>1 DEF LPDDR5Orgs, Org
  <2> DEFINE rows == d * 2^12
  <2>3. rows \in 1 .. 2^20 /\ 2^10 \in 1 .. 2^20 /\ 2^10 >= 4 * 8
    OBVIOUS
  <2>4. o.count = <<1, 1, 4, 4, rows, 2^10>> BY <2>2
  <2> HIDE DEF rows
  <2>5. Fits(6, 8) BY <1>0, <2>3, <2>4
  <2> QED BY <1>1, <1>5, <2>5 DEF Shaped, LevelsAbove, PrefetchSize
<1>6. CASE s = "GDDR6"
  <2>1. o \in GDDR6Orgs BY <1>6 DEF Orgs
  <2>2. PICK rows \in {2^14, 2^15, 2^16}, cols \in {2^10, 2^11} : o.count = <<2, 4, 4, rows, cols>>
    BY <2>1 DEF GDDR6Orgs, Org
  <2>3. rows \in 1 .. 2^20 /\ cols \in 1 .. 2^20 /\ cols >= 4 * 8
    OBVIOUS
  <2>4. o.count = <<2, 4, 4, rows, cols>> BY <2>2
  <2>5. Fits(5, 8) BY <1>0, <2>3, <2>4
  <2> QED BY <1>1, <1>6, <2>5 DEF Shaped, LevelsAbove, PrefetchSize
<1>7. CASE s = "HBM"
  <2>1. o \in HBMOrgs BY <1>7 DEF Orgs
  <2>2. PICK banks \in {2, 4}, rows \in {2^13, 2^14} : o.count = <<1, 4, banks, rows, 2^7>>
    BY <2>1 DEF HBMOrgs, Org
  <2>3. /\ banks \in 1 .. 2^20 /\ rows \in 1 .. 2^20
        /\ 2^7 \in 1 .. 2^20 /\ 2^7 >= 4 * 2
    OBVIOUS
  <2>4. o.count = <<1, 4, banks, rows, 2^7>> BY <2>2
  <2>5. Fits(5, 2) BY <1>0, <2>3, <2>4
  <2> QED BY <1>1, <1>7, <2>5 DEF Shaped, LevelsAbove, PrefetchSize
<1>8. CASE s = "HBM2"
  <2>1. o \in HBM2Orgs BY <1>8 DEF Orgs
  <2>2. PICK banks \in {2, 4}, rows \in {2^14, 2^15} : o.count = <<1, 2, 4, banks, rows, 2^6>>
    BY <2>1 DEF HBM2Orgs, Org
  <2>3. /\ banks \in 1 .. 2^20 /\ rows \in 1 .. 2^20
        /\ 2^6 \in 1 .. 2^20 /\ 2^6 >= 4 * 2
    OBVIOUS
  <2>4. o.count = <<1, 2, 4, banks, rows, 2^6>> BY <2>2
  <2>5. Fits(6, 2) BY <1>0, <2>3, <2>4
  <2> QED BY <1>1, <1>8, <2>5 DEF Shaped, LevelsAbove, PrefetchSize
<1>9. CASE s \in {"HBM3", "HBM3_PIM"}
  <2>1. o \in HBM3Orgs BY <1>9 DEF Orgs, PIMOrgs
  <2>2. PICK r \in 1 .. 4, d \in {2, 4, 8} : o.count = <<1, 2, r, 4, 4, d * 2^12, 2^5>>
    BY <2>1 DEF HBM3Orgs, Org
  <2> DEFINE rows == d * 2^12
  <2>3. /\ r \in 1 .. 2^20 /\ rows \in 1 .. 2^20
        /\ 2^5 \in 1 .. 2^20 /\ 2^5 >= 4 * 8
    OBVIOUS
  <2>4. o.count = <<1, 2, r, 4, 4, rows, 2^5>> BY <2>2
  <2> HIDE DEF rows
  <2>5. Fits(7, 8) BY <1>0, <2>3, <2>4
  <2> QED BY <1>1, <1>9, <2>5 DEF Shaped, LevelsAbove, PrefetchSize
<1> QED BY <1>2, <1>3, <1>4, <1>5, <1>6, <1>7, <1>8, <1>9 DEF AllStandards
MappersOf(s) == LinearMappers \cup (IF s \in {"HBM3", "HBM3_PIM"} THEN HBM3Mappers ELSE {})

LEMMA IntBitsEnough == ASSUME NEW n \in 1 .. MaxInt PROVE Log2(n) <= 30
<1>1. n \in Nat \ {0} /\ n < 2147483648
  BY MaxIntFacts, SMT
<1>2. Pow2[31] = 2147483648
  <2>1. \A k \in Nat : Pow2[k + 1] = 2 * Pow2[k] BY Pow2Facts
  <2>2. Pow2[6] = 64 BY SmallPowers
  <2>3. /\ Pow2[6 + 1] = 2 * Pow2[6] /\ Pow2[7 + 1] = 2 * Pow2[7] /\ Pow2[8 + 1] = 2 * Pow2[8]
        /\ Pow2[9 + 1] = 2 * Pow2[9] /\ Pow2[10 + 1] = 2 * Pow2[10]
        /\ Pow2[11 + 1] = 2 * Pow2[11] /\ Pow2[12 + 1] = 2 * Pow2[12]
        /\ Pow2[13 + 1] = 2 * Pow2[13] /\ Pow2[14 + 1] = 2 * Pow2[14]
        /\ Pow2[15 + 1] = 2 * Pow2[15] /\ Pow2[16 + 1] = 2 * Pow2[16]
        /\ Pow2[17 + 1] = 2 * Pow2[17] /\ Pow2[18 + 1] = 2 * Pow2[18]
    BY <2>1, SMT
  <2>4. Pow2[19] = 524288 BY <2>2, <2>3, SMT
  <2>5. /\ Pow2[19 + 1] = 2 * Pow2[19]
        /\ Pow2[20 + 1] = 2 * Pow2[20] /\ Pow2[21 + 1] = 2 * Pow2[21]
        /\ Pow2[22 + 1] = 2 * Pow2[22] /\ Pow2[23 + 1] = 2 * Pow2[23]
        /\ Pow2[24 + 1] = 2 * Pow2[24] /\ Pow2[25 + 1] = 2 * Pow2[25]
        /\ Pow2[26 + 1] = 2 * Pow2[26] /\ Pow2[27 + 1] = 2 * Pow2[27]
        /\ Pow2[28 + 1] = 2 * Pow2[28] /\ Pow2[29 + 1] = 2 * Pow2[29]
        /\ Pow2[30 + 1] = 2 * Pow2[30]
    BY <2>1, SMT
  <2> QED BY <2>4, <2>5, SMT
<1>3. Log2(n) \in Nat /\ Pow2[Log2(n)] <= n BY <1>1, Log2Facts
<1>4. ~(31 <= Log2(n))
  <2> SUFFICES ASSUME 31 <= Log2(n) PROVE FALSE OBVIOUS
  <2>1. Pow2[31] <= Pow2[Log2(n)]
    <3>1. Log2(n) = 31 \/ 31 < Log2(n) BY <1>3
    <3>2. Pow2[31] \in Nat /\ Pow2[Log2(n)] \in Nat BY <1>3, Pow2Facts
    <3>3. 31 < Log2(n) => Pow2[31] < Pow2[Log2(n)] BY <1>3, Pow2Increases
    <3>4. Log2(n) = 31 => Pow2[31] = Pow2[Log2(n)] OBVIOUS
    <3> QED BY <3>1, <3>2, <3>3, <3>4, SMT
  <2>2. Pow2[Log2(n)] \in Nat BY <1>3, Pow2Facts
  <2> QED BY <1>1, <1>2, <1>3, <2>1, <2>2, SMT
<1> QED BY <1>3, <1>4

\* The fields of an address fit the levels.
LEMMA AddrBitsFacts ==
  ASSUME NEW s \in AllStandards, NEW count, Shaped(s, count), NEW m \in MappersOf(s)
  PROVE  LET b == AddrBits(m, count, PrefetchSize(s))
         IN  /\ b \in Seq(Nat) /\ Len(b) = Len(count) /\ Len(count) \in {5, 6, 7}
             /\ DOMAIN count = 1 .. Len(count)
             /\ \A l \in 1 .. Len(count) : count[l] \in Nat /\ Pow2[b[l]] <= count[l]
             /\ \A l \in 1 .. Len(count) - 1 : b[l] <= IntBits
             /\ m \in LinearMappers => b[Len(count)] >= 2
             /\ m \in HBM3Mappers => Len(count) = 7
<1> DEFINE n == Len(count)
           b == AddrBits(m, count, PrefetchSize(s))
<1>1. /\ n \in {5, 6, 7} /\ (s \in {"HBM3", "HBM3_PIM"} => n = 7)
  <2>1. n = 2 + LevelsAbove(s) /\ LevelsAbove(s) \in {3, 4, 5} BY LevelsFacts DEF Shaped
  <2> QED BY <2>1 DEF LevelsAbove
<1>2. DOMAIN count = 1 .. n /\ \A l \in 1 .. n : count[l] \in 1 .. MaxInt
  <2>1. count \in Seq(1 .. MaxInt) BY DEF Shaped
  <2> DEFINE S == 1 .. MaxInt
  <2>2. count \in Seq(S) BY <2>1
  <2> HIDE DEF S
  <2>3. DOMAIN count = 1 .. n /\ \A l \in 1 .. n : count[l] \in S BY <2>2
  <2> QED BY <2>3 DEF S
<1>3. count[n] >= 4 * PrefetchSize(s) BY DEF Shaped
<1>4. m \in HBM3Mappers => n = 7
  <2>1. LinearMappers \cap HBM3Mappers = {} BY DEF LinearMappers, HBM3Mappers
  <2> QED BY <1>1, <2>1 DEF MappersOf
<1>5. \A l \in 1 .. n : count[l] \in Nat \ {0} BY <1>2, MaxIntFacts
<1>6. PICK j \in Nat : PrefetchSize(s) = Pow2[j] /\ Pow2[j + 2] = 4 * PrefetchSize(s)
  BY PrefetchFacts
<1>7. Log2(PrefetchSize(s)) = j BY <1>6, Log2Power
<1>8. j + 2 <= Log2(count[n])
  <2>1. n \in 1 .. n /\ j + 2 \in Nat
    <3> HIDE DEF n
    <3> QED BY <1>1, SMTT(30)
  <2>2. Pow2[j + 2] <= count[n]
    <3>1. Pow2[j + 2] \in Nat /\ count[n] \in Nat BY <1>5, <2>1, Pow2Facts
    <3> QED BY <1>3, <1>6, <3>1
  <2> QED BY <1>5, <2>1, <2>2, Log2AtLeast
<1>9. b = [l \in 1 .. n |-> IF l = n /\ m \in LinearMappers THEN Log2(count[l]) - j
                             ELSE Log2(count[l])]
  BY <1>2, <1>7 DEF AddrBits
<1> HIDE DEF b
<1>10. ASSUME NEW l \in 1 .. n
       PROVE  b[l] \in Nat /\ Pow2[b[l]] <= count[l]
  <2>1. Log2(count[l]) \in Nat /\ Pow2[Log2(count[l])] <= count[l] BY <1>5, Log2Facts
  <2>2. CASE l = n /\ m \in LinearMappers
    <3>1. b[l] = Log2(count[l]) - j BY <1>9, <2>2
    <3>2. b[l] \in Nat /\ b[l] <= Log2(count[l]) BY <1>8, <2>1, <2>2, <3>1
    <3>3. /\ Pow2[b[l]] \in Nat /\ Pow2[Log2(count[l])] \in Nat /\ count[l] \in Nat
      BY <1>5, <2>1, <3>2, Pow2Facts
    <3>4. CASE b[l] = Log2(count[l]) BY <2>1, <3>2, <3>4
    <3>5. CASE b[l] < Log2(count[l])
      <4>1. Pow2[b[l]] < Pow2[Log2(count[l])] BY <2>1, <3>2, <3>5, Pow2Increases
      <4> QED BY <2>1, <3>2, <3>3, <4>1
    <3> QED BY <2>1, <3>2, <3>4, <3>5
  <2>3. CASE ~(l = n /\ m \in LinearMappers)
    <3>1. b[l] = Log2(count[l]) BY <1>9, <2>3
    <3> QED BY <2>1, <3>1
  <2> QED BY <2>2, <2>3
<1>11. b \in Seq(Nat) /\ Len(b) = n
  <2>1. n \in Nat /\ DOMAIN b = 1 .. n BY <1>1, <1>9
  <2>2. b \in [1 .. n -> Nat] BY <1>9, <1>10
  <2> QED BY <2>1, <2>2
<1>12. ASSUME NEW l \in 1 .. n - 1 PROVE b[l] <= IntBits
  <2>1. l \in 1 .. n /\ l # n BY <1>1
  <2>2. b[l] = Log2(count[l]) BY <1>9, <2>1
  <2>3. Log2(count[l]) <= 30 BY <1>2, <2>1, IntBitsEnough
  <2>4. b[l] \in Nat BY <1>10, <2>1
  <2> QED BY <2>2, <2>3, <2>4 DEF IntBits
<1>13. m \in LinearMappers => b[n] >= 2
  <2>1. n \in 1 .. n
    <3> HIDE DEF n
    <3> QED BY <1>1, SMTT(30)
  <2>2. Log2(count[n]) \in Nat BY <1>5, <2>1, Log2Facts
  <2> HAVE m \in LinearMappers
  <2>3. b[n] = Log2(count[n]) - j BY <1>9, <2>1
  <2> QED BY <1>8, <2>2, <2>3
<1>14. \A l \in 1 .. n : count[l] \in Nat BY <1>5
<1> QED BY <1>1, <1>2, <1>4, <1>10, <1>11, <1>12, <1>13, <1>14 DEF b
\* The mapper of a standard over an organization of its shape.
LEMMA MappedApart ==
  ASSUME NEW s \in AllStandards, NEW count, Shaped(s, count), NEW m \in MappersOf(s),
         NEW b, b = AddrBits(m, count, PrefetchSize(s))
  PROVE  /\ \A line \in 0 .. Capacity(Slices(m, b)) - 1 :
              \A l \in DOMAIN count : Mapped(m, b, line)[l] \in 0 .. count[l] - 1
         /\ \A line1, line2 \in 0 .. Capacity(Slices(m, b)) - 1 :
              Mapped(m, b, line1) = Mapped(m, b, line2) => line1 = line2
<1> DEFINE n == Len(count)
           lines == 0 .. Capacity(Slices(m, b)) - 1
<1>1. /\ b \in Seq(Nat) /\ Len(b) = n /\ n \in {5, 6, 7} /\ DOMAIN count = 1 .. n
      /\ \A l \in 1 .. n : count[l] \in Nat /\ Pow2[b[l]] <= count[l]
      /\ \A l \in 1 .. n - 1 : b[l] <= IntBits
      /\ m \in LinearMappers => b[n] >= 2
      /\ m \in HBM3Mappers => n = 7
  BY AddrBitsFacts
<1> HIDE DEF n
<1>2. m \in PieceMappers \/ m = "MOP4CLXOR" BY DEF MappersOf, PieceMappers, LinearMappers
<1>3. /\ \A line \in lines : \A l \in 1 .. n : Mapped(m, b, line)[l] \in 0 .. Pow2[b[l]] - 1
      /\ \A line1, line2 \in lines : Mapped(m, b, line1) = Mapped(m, b, line2) => line1 = line2
  <2>1. CASE m \in PieceMappers
    <3>1. Len(b) \in {5, 6, 7} /\ (m \in HBM3Mappers => Len(b) = 7) BY <1>1
    <3> QED BY <1>1, <2>1, <3>1, SlicedFacts, Zenon
  <2>2. CASE m = "MOP4CLXOR"
    <3>1. Slices(m, b) = MOPSlices(b) /\ \A line : Mapped(m, b, line) = MOP4CLXOR(b, line)
      BY <2>2 DEF Slices, Mapped
    <3>2. b[Len(b)] >= 2 /\ \A l \in 1 .. Len(b) - 1 : b[l] <= IntBits
      BY <1>1, <2>2 DEF LinearMappers
    <3>3. b \in Seq(Nat) /\ Len(b) \in {5, 6, 7} BY <1>1
    <3>4. /\ \A line \in 0 .. Capacity(MOPSlices(b)) - 1 :
               \A l \in 1 .. Len(b) : MOP4CLXOR(b, line)[l] \in 0 .. Pow2[b[l]] - 1
          /\ \A line1, line2 \in 0 .. Capacity(MOPSlices(b)) - 1 :
               MOP4CLXOR(b, line1) = MOP4CLXOR(b, line2) => line1 = line2
      BY <3>2, <3>3, MOPFacts
    <3>5. Len(b) = n BY <1>1
    <3>6. lines = 0 .. Capacity(MOPSlices(b)) - 1 BY <3>1, Zenon
    <3> HIDE DEF lines
    <3> QED BY <3>1, <3>4, <3>5, <3>6
  <2> QED BY <1>2, <2>1, <2>2
<1>4. ASSUME NEW line \in lines, NEW l \in DOMAIN count
      PROVE  Mapped(m, b, line)[l] \in 0 .. count[l] - 1
  <2>1. l \in 1 .. n /\ l \in 1 .. Len(b) BY <1>1
  <2>2. Mapped(m, b, line)[l] \in 0 .. Pow2[b[l]] - 1 BY <1>3, <2>1
  <2>3. b[l] \in Nat /\ count[l] \in Nat /\ Pow2[b[l]] <= count[l] BY <1>1, <2>1
  <2>4. Pow2[b[l]] \in Nat BY <2>3, Pow2Facts
  <2> QED BY <2>2, <2>3, <2>4
<1> QED BY <1>3, <1>4

LEMMA SlicesTyped ==
  ASSUME NEW s \in AllStandards, NEW count, Shaped(s, count), NEW m \in MappersOf(s),
         NEW b, b = AddrBits(m, count, PrefetchSize(s))
  PROVE  Slices(m, b) \in Seq(Nat)
<1> DEFINE n == Len(b)
<1>1. /\ b \in Seq(Nat) /\ n \in {5, 6, 7} /\ (m \in LinearMappers => b[n] >= 2)
      /\ (m \in HBM3Mappers => n = 7)
  BY AddrBitsFacts
<1> HIDE DEF n
<1>2. n \in Nat /\ \A l \in 1 .. n : b[l] \in Nat BY <1>1 DEF n
<1>3. CASE m \in PieceMappers
  <2> DEFINE order == SliceOrder(m, n)
  <2>1. Permutes(order, n) BY <1>1, <1>3, SliceOrderPermutes, Zenon
  <2>2. order \in [1 .. n -> 1 .. n] BY <2>1 DEF Permutes
  <2>3. m # "MOP4CLXOR" BY <1>3 DEF PieceMappers, HBM3Mappers
  <2>4. Slices(m, b) = [k \in 1 .. n |-> b[order[k]]] BY <2>3 DEF Slices, n
  <2> HIDE DEF order
  <2>5. \A k \in 1 .. n : b[order[k]] \in Nat BY <1>2, <2>2
  <2> QED BY <1>2, <2>4, <2>5
<1>4. CASE m = "MOP4CLXOR"
  <2> DEFINE size(k) == CASE k = 1 -> 2 [] k = n -> b[n] - 2
                          [] k = n + 1 -> b[n - 1] [] OTHER -> b[k - 1]
  <2>1. Slices(m, b) = [k \in 1 .. n + 1 |-> size(k)] BY <1>4 DEF Slices, MOPSlices, n
  <2>2. b[n] >= 2 BY <1>1, <1>4 DEF LinearMappers
  <2>3. ASSUME NEW k \in 1 .. n + 1 PROVE size(k) \in Nat
    <3>1. CASE k = 1
      <4>1. k # n /\ k # n + 1 BY <1>1, <3>1
      <4> QED BY <3>1, <4>1
    <3>2. CASE k = n
      <4>1. k # 1 /\ k # n + 1 /\ b[n] \in Nat BY <1>1, <1>2, <3>2
      <4>2. size(k) = b[n] - 2 BY <3>2, <4>1
      <4> QED BY <2>2, <4>1, <4>2
    <3>3. CASE k = n + 1
      <4>1. k # 1 /\ k # n /\ n - 1 \in 1 .. n BY <1>1, <3>3
      <4>2. size(k) = b[n - 1] BY <3>3, <4>1
      <4> QED BY <1>2, <4>1, <4>2
    <3>4. CASE k # 1 /\ k # n /\ k # n + 1
      <4>1. k - 1 \in 1 .. n BY <1>1, <3>4
      <4>2. size(k) = b[k - 1] BY <3>4
      <4> QED BY <1>2, <4>1, <4>2
    <3> QED BY <3>1, <3>2, <3>3, <3>4
  <2> HIDE DEF size
  <2>4. n + 1 \in Nat BY <1>2
  <2> QED BY <2>1, <2>3, <2>4
<1> QED BY <1>3, <1>4 DEF MappersOf, PieceMappers, LinearMappers

----------------------------------------------------------------------------
(* The state of the set-up.                                                *)

Sized(s, preset, ranks) ==
  IF ranks # 0 /\ HasRank(s)
  THEN [preset EXCEPT !.count[LevelIndex(s, "rank")] = ranks] ELSE preset

LEMMA PresetsAreOrgs ==
  ASSUME NEW s \in AllStandards, NEW o \in Orgs(s)
  PROVE  \E dq, density : o = Org(dq, density, o.count)
<1>1. \E dq, density, count : o = Org(dq, density, count)
  <2>1. CASE s = "DDR3" BY <2>1 DEF Orgs, DDR3Orgs
  <2>2. CASE s \in {"DDR4", "DDR4_VRR"} BY <2>2 DEF Orgs, DDR4Orgs
  <2>3. CASE s = "DDR5" BY <2>3 DEF Orgs, DDR5Orgs
  <2>4. CASE s = "LPDDR5" BY <2>4 DEF Orgs, LPDDR5Orgs
  <2>5. CASE s = "GDDR6" BY <2>5 DEF Orgs, GDDR6Orgs
  <2>6. CASE s = "HBM" BY <2>6 DEF Orgs, HBMOrgs
  <2>7. CASE s = "HBM2" BY <2>7 DEF Orgs, HBM2Orgs
  <2>8. CASE s \in {"HBM3", "HBM3_PIM"} BY <2>8 DEF Orgs, HBM3Orgs, PIMOrgs
  <2> QED BY <2>1, <2>2, <2>3, <2>4, <2>5, <2>6, <2>7, <2>8 DEF AllStandards
<1> QED BY <1>1 DEF Org

\* Another number of ranks leaves the shape.
LEMMA SizedShaped ==
  ASSUME NEW s \in AllStandards, NEW preset \in Orgs(s), NEW ranks \in 0 .. MaxInt
  PROVE  Shaped(s, Sized(s, preset, ranks).count)
<1>1. Shaped(s, preset.count) BY PresetsShaped
<1>2. CASE ~(ranks # 0 /\ HasRank(s)) BY <1>1, <1>2 DEF Sized
<1>3. CASE ranks # 0 /\ HasRank(s)
  <2> DEFINE i == LevelIndex(s, "rank")
             c == preset.count
             S == 1 .. MaxInt
             n == Len(c)
  <2>1. i \in DOMAIN Levels(s) /\ Levels(s)[i] = "rank" BY <1>3 DEF HasRank, LevelIndex
  <2>2. /\ Levels(s) \in Seq(LevelNames) /\ Levels(s)[Len(Levels(s))] = "column"
        /\ c \in Seq(S) /\ n = Len(Levels(s)) /\ c[n] >= 4 * PrefetchSize(s)
    BY <1>1, LevelsFacts DEF Shaped
  <2>3. i # n BY <2>1, <2>2
  <2>4. i \in 1 .. n BY <2>1, <2>2
  <2>5. ranks \in S BY <1>3, MaxIntFacts
  <2>6. Sized(s, preset, ranks).count = [c EXCEPT ![i] = ranks]
    <3>1. Sized(s, preset, ranks) = [preset EXCEPT !.count[i] = ranks] BY <1>3 DEF Sized
    <3>2. PICK dq, density : preset = Org(dq, density, c) BY PresetsAreOrgs
    <3>3. preset = [dq |-> dq, density |-> density, count |-> c] BY <3>2 DEF Org
    <3> HIDE DEF c, i
    <3> QED BY <3>1, <3>3
  <2> HIDE DEF i, c, S
  <2> DEFINE r == [c EXCEPT ![i] = ranks]
  <2>7. r \in Seq(S) /\ Len(r) = n /\ r[n] = c[n]
    <3>1. n \in Nat /\ DOMAIN c = 1 .. n /\ \A k \in 1 .. n : c[k] \in S BY <2>2
    <3>2. r \in [1 .. n -> S] BY <2>5, <3>1
    <3>3. n \in 1 .. n BY <2>4, <3>1
    <3>4. r[n] = c[n] BY <2>3, <3>1, <3>3
    <3> QED BY <3>1, <3>2, <3>4
  <2> HIDE DEF r
  <2>8. Sized(s, preset, ranks).count = r BY <2>6 DEF r
  <2> QED BY <2>2, <2>7, <2>8 DEF Shaped, S
<1> QED BY <1>2, <1>3

TimesOf(s, o, speed, junk, rfc) ==
  IF rfc = Unset THEN Completed(s, o, speed, junk)
  ELSE [Completed(s, o, speed, junk) EXCEPT !.nRFC = rfc]

SetupInv ==
  /\ std \in AllStandards
  /\ phase \in {"timing", "mapper", "apply"} => Shaped(std, org.count)
  /\ SetUp => \E speed \in Speeds(std), junk \in Nat, rfc \in GivenRFC :
                vals = TimesOf(std, org, speed, junk, rfc)
  /\ phase = "apply" => /\ mapper \in MappersOf(std)
                        /\ bits = AddrBits(mapper, org.count, PrefetchSize(std))

LEMMA SetupInvInductive == Spec => []SetupInv
<1>1. Init => SetupInv BY DRAMSetupAssumption DEF Init, SetupInv, SetUp
<1>2. ASSUME SetupInv, [Next]_setupvars PROVE SetupInv'
  <2>1. ASSUME NEW preset \in Orgs(std), NEW ranks \in Resized, SetOrganization(preset, ranks)
        PROVE  SetupInv'
    <3>1. std \in AllStandards /\ ranks \in 0 .. MaxInt
      BY <1>2, DRAMSetupAssumption DEF SetupInv
    <3>2. Shaped(std, Sized(std, preset, ranks).count) BY <3>1, SizedShaped
    <3>3. org' = Sized(std, preset, ranks) /\ std' = std /\ phase' \in {"timing", "error"}
      BY <2>1 DEF SetOrganization, Sized
    <3>4. Shaped(std, org.count)' BY <3>2, <3>3 DEF Shaped
    <3> QED BY <3>1, <3>3, <3>4 DEF SetupInv, SetUp
  <2>2. ASSUME NEW speed \in Speeds(std), NEW rateGiven \in BOOLEAN, NEW rfc \in GivenRFC,
               NEW junk \in StackJunk, SetTimingVals(speed, rateGiven, rfc, junk)
        PROVE  SetupInv'
    <3>1. /\ std' = std /\ org' = org /\ phase = "timing" /\ phase' \in {"mapper", "error"}
          /\ phase' = "mapper" => vals' = TimesOf(std, org, speed, junk, rfc)
      BY <2>2 DEF SetTimingVals, TimesOf
    <3>2. Shaped(std, org.count) /\ std \in AllStandards BY <1>2, <3>1 DEF SetupInv
    <3>3. Shaped(std, org.count)' BY <3>1, <3>2 DEF Shaped
    <3>4. junk \in Nat BY DRAMSetupAssumption
    <3>5. SetUp' => \E v \in Speeds(std), j \in Nat, r \in GivenRFC :
                      vals' = TimesOf(std, org, v, j, r)
      BY <3>1, <3>4 DEF SetUp
    <3>6. (SetUp => \E v \in Speeds(std), j \in Nat, r \in GivenRFC :
                      vals = TimesOf(std, org, v, j, r))'
      BY <3>1, <3>5
    <3> QED BY <3>1, <3>2, <3>3, <3>6 DEF SetupInv
  <2>3. ASSUME NEW m \in MappersOf(std), SetupMapper(m) PROVE SetupInv'
    <3>1. /\ std' = std /\ org' = org /\ vals' = vals /\ phase = "mapper" /\ phase' = "apply"
          /\ mapper' = m /\ bits' = AddrBits(m, org.count, PrefetchSize(std))
      BY <2>3 DEF SetupMapper
    <3>2. Shaped(std, org.count) /\ std \in AllStandards BY <1>2, <3>1 DEF SetupInv
    <3>3. Shaped(std, org.count)' BY <3>1, <3>2 DEF Shaped
    <3>4. \E v \in Speeds(std), j \in Nat, r \in GivenRFC : vals = TimesOf(std, org, v, j, r)
      BY <1>2, <3>1 DEF SetupInv, SetUp
    <3>5. (SetUp => \E v \in Speeds(std), j \in Nat, r \in GivenRFC :
                      vals = TimesOf(std, org, v, j, r))'
      BY <3>1, <3>4
    <3>6. (phase = "apply" => /\ mapper \in MappersOf(std)
                             /\ bits = AddrBits(mapper, org.count, PrefetchSize(std)))'
      BY <3>1
    <3> QED BY <3>1, <3>2, <3>3, <3>5, <3>6 DEF SetupInv
  <2>4. CASE UNCHANGED setupvars
    BY <1>2, <2>4 DEF SetupInv, SetUp, setupvars
  <2> QED BY <1>2, <2>1, <2>2, <2>3, <2>4 DEF Next, MappersOf
<1> QED BY <1>1, <1>2, PTL DEF Spec

(* Mapped addresses stay within the organization and no two of them reach  *)
(* the same place, in all of the memory: the lines of PlacesDistinct are   *)
(* some of these.                                                          *)
EveryPlaceDistinct ==
  phase = "apply" =>
    /\ \A line \in Lines : Within(Apply(line))
    /\ \A line1, line2 \in Lines : Apply(line1) = Apply(line2) => line1 = line2

\* Whatever preset, number of ranks and mapper a configuration names, addresses
\* reach every place of the memory at most once.
THEOREM NoPlaceShared == Spec => []EveryPlaceDistinct
<1>1. SetupInv => EveryPlaceDistinct
  BY MappedApart DEF SetupInv, EveryPlaceDistinct, Lines, Within, Apply
<1> QED BY <1>1, SetupInvInductive, PTL

\* In particular the lines that differ in few bits.
THEOREM SampledPlacesDistinct == Spec => []PlacesDistinct
<1>1. ASSUME SetupInv, EveryPlaceDistinct PROVE PlacesDistinct
  <2> SUFFICES ASSUME phase = "apply"
               PROVE  /\ Cardinality({ Apply(line) : line \in SampleLines }) = Cardinality(SampleLines)
                      /\ \A place \in { Apply(line) : line \in SampleLines } : Within(place)
    BY DEF PlacesDistinct
  <2> DEFINE places == { Apply(line) : line \in SampleLines }
             f == [line \in SampleLines |-> Apply(line)]
  <2>1. SampleLines \subseteq Lines BY DEF SampleLines
  <2>2. IsFiniteSet(SampleLines)
    <3>1. IsFiniteSet(Lines)
      <4>1. Shaped(std, org.count) /\ mapper \in MappersOf(std) /\ std \in AllStandards
            /\ bits = AddrBits(mapper, org.count, PrefetchSize(std))
        BY <1>1 DEF SetupInv
      <4>2. Slices(mapper, bits) \in Seq(Nat) BY <4>1, SlicesTyped
      <4>3. Capacity(Slices(mapper, bits)) \in Nat
        <5>1. PICK room \in [0 .. Len(Slices(mapper, bits)) -> Nat \ {0}] :
                 room[Len(Slices(mapper, bits))] = Capacity(Slices(mapper, bits))
          BY <4>2, CapacityFacts
        <5>2. Len(Slices(mapper, bits)) \in 0 .. Len(Slices(mapper, bits)) BY <4>2
        <5> QED BY <5>1, <5>2
      <4>4. 0 \in Int /\ Capacity(Slices(mapper, bits)) - 1 \in Int BY <4>3
      <4> QED BY <4>4, FS_Interval DEF Lines
    <3> QED BY <2>1, <3>1, FS_Subset
  <2>3. \A line1, line2 \in SampleLines : f[line1] = f[line2] => line1 = line2
    BY <1>1, <2>1 DEF EveryPlaceDistinct
  <2>4. f \in Bijection(SampleLines, places)
    <3>1. f \in [SampleLines -> places] OBVIOUS
    <3>2. \A place \in places : \E line \in SampleLines : f[line] = place OBVIOUS
    <3> HIDE DEF f, places
    <3> QED BY <2>3, <3>1, <3>2, Fun_IsBij
  <2>5. Cardinality(places) = Cardinality(SampleLines)
    <3>1. ExistsBijection(SampleLines, places) BY <2>4 DEF ExistsBijection
    <3> HIDE DEF places
    <3> QED BY <2>2, <3>1, FS_Bijection
  <2>6. \A place \in places : Within(place) BY <1>1, <2>1 DEF EveryPlaceDistinct
  <2> QED BY <2>5, <2>6
<1> QED BY <1>1, SetupInvInductive, NoPlaceShared, PTL
----------------------------------------------------------------------------
(* The timing values: what set_timing_vals leaves of a preset speed.       *)

\* Timings that no table of secondary or refresh timings holds.
Kept == {"rate", "nCL", "nBL", "nCWL", "nWTRS", "nCCDSWTR", "nRC", "nRP", "nRAS"}

LEMMA NotSecondary ==
  ASSUME NEW s \in AllStandards, NEW n \in Kept \cup {"nREFI", "nRFC"}
  PROVE  n \notin DOMAIN Secondary(s).tables
<1>1. CASE s = "DDR3"
  <2>1. Secondary(s) = DDR3Secondary BY <1>1 DEF Secondary
  <2> QED BY <2>1 DEF DDR3Secondary, Kept
<1>2. CASE s \in {"DDR4", "DDR4_VRR"}
  <2>1. Secondary(s) = DDR4Secondary BY <1>2 DEF Secondary
  <2> QED BY <2>1 DEF DDR4Secondary, Kept
<1>3. CASE s = "DDR5"
  <2>1. Secondary(s) = DDR5Secondary BY <1>3 DEF Secondary
  <2> QED BY <2>1 DEF DDR5Secondary, Kept
<1>4. CASE s = "GDDR6"
  <2>1. Secondary(s) = GDDR6Secondary BY <1>4 DEF Secondary
  <2> QED BY <2>1 DEF GDDR6Secondary, Kept
<1>5. CASE s \notin {"DDR3", "DDR4", "DDR4_VRR", "DDR5", "GDDR6"}
  <2>1. Secondary(s) = NoSecondary BY <1>5 DEF Secondary
  <2>2. Secondary(s).tables = <<>> BY <2>1 DEF NoSecondary
  <2> QED BY <2>2
<1> QED BY <1>1, <1>2, <1>3, <1>4, <1>5

LEMMA KeptValues ==
  ASSUME NEW s \in AllStandards, NEW o, NEW speed, NEW junk, NEW rfc,
         NEW n \in Kept, n \in DOMAIN speed
  PROVE  TimesOf(s, o, speed, junk, rfc)[n] = speed[n]
<1>1. n \notin DOMAIN Secondary(s).tables BY NotSecondary
<1>2. n \notin DOMAIN RefreshTimes(s, o).tables /\ n \notin DOMAIN RefreshTimes(s, o).fixed
  <2> USE DEF Kept
  <2>1. CASE s = "DDR3" BY <2>1 DEF RefreshTimes, DDR3Refresh
  <2>2. CASE s = "DDR4" BY <2>2 DEF RefreshTimes, DDR4Refresh
  <2>3. CASE s = "DDR4_VRR" BY <2>3 DEF RefreshTimes, DDR4VRRRefresh, DDR4Refresh
  <2>4. CASE s = "DDR5" BY <2>4 DEF RefreshTimes, DDR5Refresh
  <2>5. CASE s = "LPDDR5" BY <2>5 DEF RefreshTimes, LPDDR5Refresh
  <2>6. CASE s = "GDDR6" BY <2>6 DEF RefreshTimes, GDDR6Refresh
  <2>7. CASE s \in {"HBM", "HBM2"} BY <2>7 DEF RefreshTimes, HBMRefresh
  <2>8. CASE s \in {"HBM3", "HBM3_PIM"} BY <2>8 DEF RefreshTimes, HBM3Refresh
  <2> QED BY <2>1, <2>2, <2>3, <2>4, <2>5, <2>6, <2>7, <2>8 DEF AllStandards
<1>3. Completed(s, o, speed, junk)[n] = speed[n] BY <1>1, <1>2 DEF Completed
<1>4. n # "nRFC" /\ n \in DOMAIN Completed(s, o, speed, junk) BY DEF Kept, Completed
<1> QED BY <1>3, <1>4 DEF TimesOf

\* What the speeds of every standard have in common.
Usual(s, v) ==
  /\ {"rate", "nCL", "nBL", "nCWL", "nRC", "nRP", "nREFI", "nRFC"} \subseteq DOMAIN v
  /\ v.nCL \in Nat /\ v.nBL \in Nat /\ v.nCWL \in Nat
  /\ v.nRC \in Nat /\ v.nRP \in Nat /\ v.nRC + v.nRP <= 200
  /\ s # "DDR5" => "nWTRS" \in DOMAIN v /\ v.nWTRS \in Nat

Clocked(s, v) == ClockPs(s, v.rate) \in 300 .. 2500

LEMMA DDR3Usual ==
  ASSUME NEW v \in DDR3Speeds PROVE Usual("DDR3", v) /\ Clocked("DDR3", v)
<1>1. PICK c, cl : /\ v = DDR3Class(c, cl)
                   /\ c.rate \in {800, 1066, 1333, 1600, 1866, 2133}
                   /\ c.ras \in 0 .. 60 /\ c.rtp \in 0 .. 20 /\ cl \in 0 .. 30
  BY SMT DEF DDR3Speeds
<1> QED BY <1>1, SMTT(60) DEF DDR3Class, Usual, Clocked, ClockPs

LEMMA DDR4Usual ==
  ASSUME NEW v \in DDR4Speeds PROVE Usual("DDR4", v) /\ Clocked("DDR4", v)
<1>1. PICK c, cl : /\ v = DDR4Class(c, cl)
                   /\ c.rate \in {1600, 1866, 2133, 2400, 2666, 2933, 3200}
                   /\ c.ras \in 0 .. 60 /\ c.cwl \in 0 .. 20 /\ c.wtr \in 0 .. 20 /\ cl \in 0 .. 30
  BY SMT DEF DDR4Speeds
<1> QED BY <1>1, SMTT(30) DEF DDR4Class, Usual, Clocked, ClockPs
LEMMA DDR4VRRUsual ==
  ASSUME NEW v \in DDR4VRRSpeeds PROVE Usual("DDR4_VRR", v) /\ Clocked("DDR4_VRR", v)
<1>1. PICK w \in DDR4Speeds :
         v = [n \in DOMAIN w \cup {"nVRR"} |-> IF n = "nVRR" THEN Unset ELSE w[n]]
  BY DEF DDR4VRRSpeeds
<1>2. Usual("DDR4", w) /\ Clocked("DDR4", w) BY DDR4Usual
<1>3. \A n \in DOMAIN w : n # "nVRR" => n \in DOMAIN v /\ v[n] = w[n] BY <1>1
<1>4. \A n \in Kept \cup {"nREFI", "nRFC"} : n \in DOMAIN w => n \in DOMAIN v /\ v[n] = w[n]
  BY <1>3 DEF Kept
<1>5. /\ v.rate = w.rate /\ v.nCL = w.nCL /\ v.nBL = w.nBL /\ v.nCWL = w.nCWL
      /\ v.nRC = w.nRC /\ v.nRP = w.nRP /\ v.nWTRS = w.nWTRS
  BY <1>2, <1>4 DEF Usual, Kept
<1>6. Usual("DDR4_VRR", v)
  BY <1>2, <1>4, <1>5 DEF Usual, Kept
<1>7. ClockPs("DDR4_VRR", v.rate) = ClockPs("DDR4", w.rate) BY <1>5 DEF ClockPs
<1> QED BY <1>2, <1>6, <1>7 DEF Clocked

LEMMA DDR5Usual ==
  ASSUME NEW v \in DDR5Speeds
  PROVE  /\ Usual("DDR5", v) /\ Clocked("DDR5", v)
         /\ "nCCDSWTR" \in DOMAIN v /\ v.nCCDSWTR = v.nCWL + v.nBL + 4
<1>1. PICK cl \in {24, 26, 28} :
        /\ {"rate", "nCL", "nBL", "nCWL", "nRC", "nRP", "nREFI", "nRFC", "nCCDSWTR"} \subseteq DOMAIN v
        /\ v.rate = 3200 /\ v.nBL = 8 /\ v.nCL = cl /\ v.nRP = cl /\ v.nCWL = cl - 2
        /\ v.nRC = (IF cl = 24 THEN 75 ELSE 51 + cl) /\ v.nCCDSWTR = cl - 2 + 8 + 4
  BY DEF DDR5Speeds
<1> QED BY <1>1 DEF Usual, Clocked, ClockPs

LEMMA LPDDR5Usual ==
  ASSUME NEW v \in LPDDR5Speeds PROVE Usual("LPDDR5", v) /\ Clocked("LPDDR5", v)
BY DEF LPDDR5Speeds, Usual, Clocked, ClockPs

LEMMA GDDR6Usual ==
  ASSUME NEW v \in GDDR6Speeds
  PROVE  /\ Usual("GDDR6", v) /\ Clocked("GDDR6", v)
         /\ "nRAS" \in DOMAIN v /\ v.nRAS \in 0 .. v.nRC /\ v.nRC <= v.nRAS + v.nRP
<1>1. PICK bl \in {4, 8}, c \in GDDR6Voltages : v = GDDR6Class(bl, c, c.ras)
  BY DEF GDDR6Speeds
<1>2. /\ c.rcd \in 0 .. 30 /\ c.rc \in 0 .. 90 /\ c.ras \in 0 .. c.rc /\ c.rc <= c.ras + c.rcd
  BY DEF GDDR6Voltages
<1> QED BY <1>1, <1>2 DEF GDDR6Class, Usual, Clocked, ClockPs

\* The models of high-bandwidth memory take nREFI from the presets.
LongRefreshes(s, v) ==
  /\ v.nREFI \in Int /\ v.nREFI >= 3900 /\ v.nRC + v.nRP <= 120
  /\ ClockPs(s, v.rate) >= 625

LEMMA HBMUsual ==
  ASSUME NEW v \in HBMSpeeds
  PROVE  Usual("HBM", v) /\ Clocked("HBM", v) /\ LongRefreshes("HBM", v)
BY DEF HBMSpeeds, Usual, Clocked, LongRefreshes, ClockPs

LEMMA HBM2Usual ==
  ASSUME NEW v \in HBM2Speeds
  PROVE  Usual("HBM2", v) /\ Clocked("HBM2", v) /\ LongRefreshes("HBM2", v)
<1>1. PICK w \in HBMSpeeds : v = [w EXCEPT !.nBL = 4] BY DEF HBM2Speeds
<1>2. Usual("HBM", w) /\ Clocked("HBM", w) /\ LongRefreshes("HBM", w) BY HBMUsual
<1>3. DOMAIN v = DOMAIN w /\ \A n \in DOMAIN w : n # "nBL" => v[n] = w[n] BY <1>1
<1>4. v.nBL = 4 BY <1>1, <1>2 DEF Usual
<1>5. /\ v.rate = w.rate /\ v.nCL = w.nCL /\ v.nCWL = w.nCWL /\ v.nREFI = w.nREFI
      /\ v.nRC = w.nRC /\ v.nRP = w.nRP /\ v.nWTRS = w.nWTRS
  BY <1>2, <1>3 DEF Usual
<1>6. ClockPs("HBM2", v.rate) = ClockPs("HBM", w.rate) BY <1>5 DEF ClockPs
<1> QED BY <1>2, <1>3, <1>4, <1>5, <1>6 DEF Usual, Clocked, LongRefreshes

LEMMA HBM3Usual ==
  ASSUME NEW v \in HBM3Speeds
  PROVE  Usual("HBM3", v) /\ Clocked("HBM3", v) /\ LongRefreshes("HBM3", v)
<1>1. PICK c : /\ v = HBM3Class(c)
               /\ c.rate \in {4800, 5200, 5600, 6000, 6400} /\ c.cl \in 0 .. 23
               /\ c.rc \in 0 .. 77 /\ c.rtp \in 0 .. 10 /\ c.wtr \in 0 .. 10
               /\ c.refi \in Int /\ c.refi >= 4680
  BY SMT DEF HBM3Speeds
<1> QED BY <1>1, SMTT(30) DEF HBM3Class, Usual, Clocked, LongRefreshes, ClockPs

LEMMA PIMUsual ==
  ASSUME NEW v \in PIMSpeeds
  PROVE  Usual("HBM3_PIM", v) /\ Clocked("HBM3_PIM", v) /\ LongRefreshes("HBM3_PIM", v)
<1>0. PICK w \in HBM3Speeds : \E ab, sb : v = PIMClass(w, ab, sb) BY DEF PIMSpeeds
<1>1. PICK ab, sb : v = PIMClass(w, ab, sb) BY <1>0
<1>2. Usual("HBM3", w) /\ Clocked("HBM3", w) /\ LongRefreshes("HBM3", w) BY HBM3Usual
<1>3. \A n \in DOMAIN w : n \notin {"nCCDAB", "nCCDSB"} => n \in DOMAIN v /\ v[n] = w[n]
  BY <1>1 DEF PIMClass
<1>4. \A n \in Kept \cup {"nREFI", "nRFC"} : n \in DOMAIN w => n \in DOMAIN v /\ v[n] = w[n]
  BY <1>3 DEF Kept
<1>5. /\ v.rate = w.rate /\ v.nCL = w.nCL /\ v.nBL = w.nBL /\ v.nCWL = w.nCWL
      /\ v.nRC = w.nRC /\ v.nRP = w.nRP /\ v.nWTRS = w.nWTRS /\ v.nREFI = w.nREFI
  BY <1>2, <1>4 DEF Usual, Kept
<1>6. ClockPs("HBM3_PIM", v.rate) = ClockPs("HBM3", w.rate) BY <1>5 DEF ClockPs
<1> QED BY <1>2, <1>4, <1>5, <1>6 DEF Usual, Clocked, LongRefreshes, Kept

LEMMA SpeedsUsual ==
  ASSUME NEW s \in AllStandards, NEW v \in Speeds(s)
  PROVE  Usual(s, v) /\ Clocked(s, v)
<1>1. CASE s = "DDR3" BY <1>1, DDR3Usual DEF Speeds
<1>2. CASE s = "DDR4" BY <1>2, DDR4Usual DEF Speeds
<1>3. CASE s = "DDR4_VRR" BY <1>3, DDR4VRRUsual DEF Speeds
<1>4. CASE s = "DDR5" BY <1>4, DDR5Usual DEF Speeds
<1>5. CASE s = "LPDDR5" BY <1>5, LPDDR5Usual DEF Speeds
<1>6. CASE s = "GDDR6" BY <1>6, GDDR6Usual DEF Speeds
<1>7. CASE s = "HBM" BY <1>7, HBMUsual DEF Speeds
<1>8. CASE s = "HBM2" BY <1>8, HBM2Usual DEF Speeds
<1>9. CASE s = "HBM3" BY <1>9, HBM3Usual DEF Speeds
<1>10. CASE s = "HBM3_PIM" BY <1>10, PIMUsual DEF Speeds
<1> QED BY <1>1, <1>2, <1>3, <1>4, <1>5, <1>6, <1>7, <1>8, <1>9, <1>10 DEF AllStandards
----------------------------------------------------------------------------
(* The values and the constraint tables together.                          *)

\* A rule holds the entry of each of its pairs of commands.
LEMMA InRule ==
  ASSUME NEW level, NEW before, NEW after, NEW lat, NEW c1 \in before, NEW c2 \in after,
         NEW k, k = [level |-> level, prev |-> c1, next |-> c2, lat |-> lat,
                     window |-> 1, sibling |-> FALSE]
  PROVE  k \in Rule(level, before, after, lat)
<1> DEFINE e(a, b) == [level |-> level, prev |-> a, next |-> b, lat |-> lat,
                       window |-> 1, sibling |-> FALSE]
<1>1. Rule(level, before, after, lat) = { e(a, b) : a \in before, b \in after }
  BY DEF Rule, Entry
<1>2. k = e(c1, c2) OBVIOUS
<1> HIDE DEF e
<1>3. e(c1, c2) \in { e(a, b) : a \in before, b \in after } OBVIOUS
<1> QED BY <1>1, <1>2, <1>3

LEMMA RuleApart ==
  ASSUME NEW table, NEW level \in Int, NEW upTo \in Int, level <= upTo,
         NEW before, NEW after, NEW c1 \in before, NEW c2 \in after,
         NEW lat \in Int, NEW n \in Int, n <= lat,
         Rule(level, before, after, lat) \subseteq table
  PROVE  Apart(table, upTo, c1, c2, n)
<1> DEFINE k == [level |-> level, prev |-> c1, next |-> c2, lat |-> lat,
                 window |-> 1, sibling |-> FALSE]
<1>1. k \in Rule(level, before, after, lat)
  BY InRule
<1>2. /\ k.prev = c1 /\ k.next = c2 /\ k.lat = lat /\ k.level = level /\ k.window = 1
      /\ k.sibling = FALSE
  OBVIOUS
<1> HIDE DEF k
<1>3. k \in table BY <1>1
<1> QED BY <1>2, <1>3 DEF Apart

\* Within a level: bursts in one direction nBL apart, and from one direction to
\* the other the burst that comes first over before the next one starts.
BusRules(table, upTo, V) ==
  \E one, rank \in 0 .. upTo, there, back \in Int :
    /\ Rule(one, Reads, Reads, V.nBL) \subseteq table
    /\ Rule(one, Writes, Writes, V.nBL) \subseteq table
    /\ Rule(rank, Reads, Writes, there) \subseteq table
    /\ Rule(rank, Writes, Reads, back) \subseteq table
    /\ V.nCL + V.nBL - V.nCWL <= there /\ V.nCWL + V.nBL - V.nCL <= back

LEMMA TurnaroundIn ==
  ASSUME NEW table, NEW upTo \in Nat, NEW one \in 0 .. upTo, NEW rank \in 0 .. upTo, NEW V,
         V.nCL \in Nat, V.nBL \in Nat, V.nCWL \in Nat, NEW bubble \in Nat, NEW wtr \in Nat,
         Bus(one, V.nBL) \subseteq table, Turnaround(rank, V, bubble, wtr) \subseteq table
  PROVE  BusRules(table, upTo, V)
<1> DEFINE there == V.nCL + V.nBL + bubble - V.nCWL
           back == V.nCWL + V.nBL + wtr
<1>1. /\ Rule(one, Reads, Reads, V.nBL) \subseteq table
      /\ Rule(one, Writes, Writes, V.nBL) \subseteq table
  BY DEF Bus
<1>2. /\ Rule(rank, Reads, Writes, there) \subseteq table
      /\ Rule(rank, Writes, Reads, back) \subseteq table
  BY DEF Turnaround, WriteEnd
<1>3. /\ there \in Int /\ back \in Int
      /\ V.nCL + V.nBL - V.nCWL <= there /\ V.nCWL + V.nBL - V.nCL <= back
  OBVIOUS
<1> HIDE DEF there, back
<1> QED BY <1>1, <1>2, <1>3 DEF BusRules

TableOf(s) == IF s = "HBM3_PIM" THEN "HBM3" ELSE s

LEMMA BusRulesKept ==
  ASSUME NEW s \in AllStandards, NEW V, Usual(s, V),
         s = "DDR5" => "nCCDSWTR" \in DOMAIN V /\ V.nCCDSWTR = V.nCWL + V.nBL + 4
  PROVE  BusRules(Timings(TableOf(s), V), RankLevel(s), V)
<1> DEFINE table == Timings(TableOf(s), V)
           upTo == RankLevel(s)
<1>1. V.nCL \in Nat /\ V.nBL \in Nat /\ V.nCWL \in Nat /\ (s # "DDR5" => V.nWTRS \in Nat)
  BY DEF Usual
<1>2. CASE s \in {"DDR3", "DDR4", "DDR4_VRR", "LPDDR5"}
  <2>1. upTo = 1 BY <1>2 DEF RankLevel
  <2>2. Bus(0, V.nBL) \subseteq table /\ Turnaround(1, V, 2, V.nWTRS) \subseteq table
    <3>1. CASE s = "DDR3" BY <3>1, Zenon DEF TableOf, Timings, DDR3Timings
    <3>2. CASE s = "DDR4" BY <3>2, Zenon DEF TableOf, Timings, DDR4Timings
    <3>3. CASE s = "DDR4_VRR" BY <3>3, Zenon DEF TableOf, Timings, DDR4VRRTimings
    <3>4. CASE s = "LPDDR5" BY <3>4, Zenon DEF TableOf, Timings, LPDDR5Timings
    <3> QED BY <1>2, <3>1, <3>2, <3>3, <3>4
  <2> HIDE DEF table, upTo
  <2>3. upTo \in Nat /\ 0 \in 0 .. upTo /\ 1 \in 0 .. upTo /\ 2 \in Nat /\ s # "DDR5"
    BY <1>2, <2>1
  <2> QED BY <1>1, <2>2, <2>3, TurnaroundIn DEF table, upTo
<1>3. CASE s = "DDR5"
  <2>1. table = DDR5Timings(V) /\ upTo = 1 BY <1>3 DEF TableOf, Timings, RankLevel
  <2> DEFINE there == V.nCL + V.nBL + 2 - V.nCWL + 2
             back == V.nCCDSWTR
  <2>2. Bus(0, V.nBL) \subseteq table BY <2>1, Zenon DEF DDR5Timings
  <2>3. /\ Rule(0, Reads, Reads, V.nBL) \subseteq table
        /\ Rule(0, Writes, Writes, V.nBL) \subseteq table
    BY <2>2 DEF Bus
  <2>4. /\ Rule(1, Reads, Writes, there) \subseteq table
        /\ Rule(1, Writes, Reads, back) \subseteq table
    BY <2>1, Zenon DEF DDR5Timings
  <2>5. /\ there \in Int /\ back \in Int
        /\ V.nCL + V.nBL - V.nCWL <= there /\ V.nCWL + V.nBL - V.nCL <= back
    BY <1>1, <1>3
  <2>6. 0 \in 0 .. upTo /\ 1 \in 0 .. upTo BY <2>1
  <2> HIDE DEF there, back, table, upTo
  <2>7. BusRules(table, upTo, V) BY <2>3, <2>4, <2>5, <2>6 DEF BusRules
  <2> QED BY <2>7 DEF table, upTo
<1>4. CASE s = "GDDR6"
  <2>1. upTo = 0 BY <1>4 DEF RankLevel
  <2>2. Bus(0, V.nBL) \subseteq table /\ Turnaround(0, V, 4, V.nWTRS) \subseteq table
    BY <1>4, Zenon DEF TableOf, Timings, GDDR6Timings
  <2> HIDE DEF table, upTo
  <2>3. upTo \in Nat /\ 0 \in 0 .. upTo /\ 4 \in Nat /\ s # "DDR5" BY <1>4, <2>1
  <2> QED BY <1>1, <2>2, <2>3, TurnaroundIn DEF table, upTo
<1>5. CASE s = "HBM"
  <2>1. upTo = 0 BY <1>5 DEF RankLevel
  <2>2. Bus(0, V.nBL) \subseteq table /\ Turnaround(0, V, 2, V.nWTRS) \subseteq table
    BY <1>5, Zenon DEF TableOf, Timings, HBMTimings
  <2> HIDE DEF table, upTo
  <2>3. upTo \in Nat /\ 0 \in 0 .. upTo /\ 2 \in Nat /\ s # "DDR5" BY <1>5, <2>1
  <2> QED BY <1>1, <2>2, <2>3, TurnaroundIn DEF table, upTo
<1>6. CASE s = "HBM2"
  <2>1. upTo = 1 BY <1>6 DEF RankLevel
  <2>2. Bus(1, V.nBL) \subseteq table /\ Turnaround(1, V, 2, V.nWTRS) \subseteq table
    BY <1>6, Zenon DEF TableOf, Timings, HBM2Timings
  <2> HIDE DEF table, upTo
  <2>3. upTo \in Nat /\ 1 \in 0 .. upTo /\ 2 \in Nat /\ s # "DDR5" BY <1>6, <2>1
  <2> QED BY <1>1, <2>2, <2>3, TurnaroundIn DEF table, upTo
<1>7. CASE s \in {"HBM3", "HBM3_PIM"}
  <2>1. upTo = 2 /\ TableOf(s) = "HBM3" BY <1>7 DEF RankLevel, TableOf
  <2>2. Bus(1, V.nBL) \subseteq table /\ Turnaround(2, V, 2, V.nWTRS) \subseteq table
    BY <2>1, Zenon DEF Timings, HBM3Timings
  <2> HIDE DEF table, upTo
  <2>3. upTo \in Nat /\ 1 \in 0 .. upTo /\ 2 \in 0 .. upTo /\ 2 \in Nat /\ s # "DDR5"
    BY <1>7, <2>1
  <2> QED BY <1>1, <2>2, <2>3, TurnaroundIn DEF table, upTo
<1> QED BY <1>2, <1>3, <1>4, <1>5, <1>6, <1>7 DEF AllStandards

\* The row cycle within a bank, at the level above the rows.
LEMMA RowCycleIn ==
  ASSUME NEW s \in AllStandards, NEW V, Usual(s, V),
         s = "GDDR6" => /\ "nRAS" \in DOMAIN V /\ V.nRAS \in 0 .. V.nRC
                        /\ V.nRC <= V.nRAS + V.nRP
  PROVE  LET table == Timings(TableOf(s), V)
             bank  == LevelsAbove(s) - 1
         IN  \/ Apart(table, bank, "ACT", "ACT", V.nRC)
             \/ \E n \in 0 .. V.nRC : /\ Apart(table, bank, "ACT", "PRE", n)
                                      /\ Apart(table, bank, "PRE", "ACT", V.nRC - n)
<1> DEFINE table == Timings(TableOf(s), V)
           bank == LevelsAbove(s) - 1
<1>1. V.nRC \in Nat /\ V.nRP \in Nat BY DEF Usual
<1>2. bank \in Int BY LevelsFacts
<1>3. CASE s # "GDDR6"
  <2>1. \E after : "ACT" \in after /\ Rule(bank, {"ACT"}, after, V.nRC) \subseteq table
    <3>1. CASE s = "DDR3"
      <4>1. bank = 2 BY <3>1 DEF LevelsAbove
      <4>2. Rule(2, {"ACT"}, {"ACT"}, V.nRC) \subseteq table
        BY <3>1, Zenon DEF TableOf, Timings, DDR3Timings
      <4> QED BY <4>1, <4>2, Zenon
    <3>2. CASE s = "DDR4"
      <4>1. bank = 3 BY <3>2 DEF LevelsAbove
      <4>2. Rule(3, {"ACT"}, {"ACT"}, V.nRC) \subseteq table
        BY <3>2, Zenon DEF TableOf, Timings, DDR4Timings
      <4> QED BY <4>1, <4>2, Zenon
    <3>3. CASE s = "DDR4_VRR"
      <4>1. bank = 3 BY <3>3 DEF LevelsAbove
      <4>2. Rule(3, {"ACT"}, {"ACT", "VRR"}, V.nRC) \subseteq table
        BY <3>3, Zenon DEF TableOf, Timings, DDR4VRRTimings
      <4> QED BY <4>1, <4>2, Zenon
    <3>4. CASE s = "DDR5"
      <4>1. bank = 3 BY <3>4 DEF LevelsAbove
      <4>2. Rule(3, {"ACT"}, {"ACT"}, V.nRC) \subseteq table
        BY <3>4, Zenon DEF TableOf, Timings, DDR5Timings
      <4> QED BY <4>1, <4>2, Zenon
    <3>5. CASE s = "LPDDR5"
      <4>1. bank = 3 BY <3>5 DEF LevelsAbove
      <4>2. Rule(3, {"ACT"}, {"ACT"}, V.nRC) \subseteq table
        BY <3>5, Zenon DEF TableOf, Timings, LPDDR5Timings
      <4> QED BY <4>1, <4>2, Zenon
    <3>6. CASE s = "HBM"
      <4>1. bank = 1 + 1 BY <3>6 DEF LevelsAbove
      <4>2. Rule(1 + 1, {"ACT"}, {"ACT"}, V.nRC) \subseteq table
        BY <3>6, Zenon DEF TableOf, Timings, HBMTimings, HBMBank
      <4> QED BY <4>1, <4>2, Zenon
    <3>7. CASE s = "HBM2"
      <4>1. bank = 2 + 1 BY <3>7 DEF LevelsAbove
      <4>2. Rule(2 + 1, {"ACT"}, {"ACT"}, V.nRC) \subseteq table
        BY <3>7, Zenon DEF TableOf, Timings, HBM2Timings, HBMBank
      <4> QED BY <4>1, <4>2, Zenon
    <3>8. CASE s \in {"HBM3", "HBM3_PIM"}
      <4>1. bank = 3 + 1 /\ TableOf(s) = "HBM3" BY <3>8 DEF LevelsAbove, TableOf
      <4>2. Rule(3 + 1, {"ACT"}, {"ACT"}, V.nRC) \subseteq table
        BY <4>1, Zenon DEF Timings, HBM3Timings, HBMBank
      <4> QED BY <4>1, <4>2, Zenon
    <3> QED BY <1>3, <3>1, <3>2, <3>3, <3>4, <3>5, <3>6, <3>7, <3>8 DEF AllStandards
  <2> HIDE DEF table, bank
  <2>2. PICK after : "ACT" \in after /\ Rule(bank, {"ACT"}, after, V.nRC) \subseteq table
    BY <2>1
  <2>3. Apart(table, bank, "ACT", "ACT", V.nRC)
    <3>1. V.nRC \in Int /\ V.nRC <= V.nRC /\ bank <= bank BY <1>1, <1>2
    <3>2. "ACT" \in {"ACT"} OBVIOUS
    <3> QED BY <1>2, <2>2, <3>1, <3>2, RuleApart
  <2> QED BY <2>3 DEF table, bank
<1>4. CASE s = "GDDR6"
  <2>1. V.nRAS \in 0 .. V.nRC /\ V.nRC <= V.nRAS + V.nRP BY <1>4
  <2>2. bank = 2 BY <1>4 DEF LevelsAbove
  <2>3. BankCycle(2, V, V.nRTP, {"ACT"}) \subseteq table
    BY <1>4, Zenon DEF TableOf, Timings, GDDR6Timings
  <2>4. /\ Rule(2, {"ACT"}, {"PRE"}, V.nRAS) \subseteq table
        /\ Rule(2, {"PRE"}, {"ACT"}, V.nRP) \subseteq table
    BY <2>3, Zenon DEF BankCycle
  <2> HIDE DEF table, bank
  <2>5. /\ 2 \in Int /\ 2 <= bank /\ V.nRAS \in Int /\ V.nRAS <= V.nRAS
        /\ V.nRP \in Int /\ V.nRC - V.nRAS \in Int /\ V.nRC - V.nRAS <= V.nRP
    BY <1>1, <2>1, <2>2
  <2>6. Apart(table, bank, "ACT", "PRE", V.nRAS)
    <3>1. "ACT" \in {"ACT"} /\ "PRE" \in {"PRE"} OBVIOUS
    <3> QED BY <1>2, <2>4, <2>5, <3>1, RuleApart
  <2>7. Apart(table, bank, "PRE", "ACT", V.nRC - V.nRAS)
    <3>1. "ACT" \in {"ACT"} /\ "PRE" \in {"PRE"} OBVIOUS
    <3> QED BY <1>2, <2>4, <2>5, <3>1, RuleApart
  <2>8. \E n \in 0 .. V.nRC : /\ Apart(table, bank, "ACT", "PRE", n)
                              /\ Apart(table, bank, "PRE", "ACT", V.nRC - n)
    BY <2>1, <2>6, <2>7
  <2> QED BY <2>8 DEF table, bank
<1> QED BY <1>3, <1>4
LEMMA DomainKept ==
  ASSUME NEW s, NEW o, NEW speed, NEW junk, NEW rfc
  PROVE  DOMAIN TimesOf(s, o, speed, junk, rfc) = DOMAIN speed
<1>1. DOMAIN Completed(s, o, speed, junk) = DOMAIN speed BY DEF Completed
<1> HIDE DEF Completed
<1> QED BY <1>1 DEF TimesOf

\* The values the tables above need reach m_timing_vals as the preset has them.
LEMMA ValuesUsual ==
  ASSUME NEW s \in AllStandards, NEW o, NEW speed \in Speeds(s), NEW junk, NEW rfc,
         NEW V, V = TimesOf(s, o, speed, junk, rfc)
  PROVE  /\ Usual(s, V)
         /\ s = "DDR5" => "nCCDSWTR" \in DOMAIN V /\ V.nCCDSWTR = V.nCWL + V.nBL + 4
         /\ s = "GDDR6" => /\ "nRAS" \in DOMAIN V /\ V.nRAS \in 0 .. V.nRC
                           /\ V.nRC <= V.nRAS + V.nRP
<1>1. Usual(s, speed) BY SpeedsUsual
<1>2. DOMAIN V = DOMAIN speed BY DomainKept
<1>3. \A n \in Kept : n \in DOMAIN speed => V[n] = speed[n] BY KeptValues
<1>4. /\ V.nCL = speed.nCL /\ V.nBL = speed.nBL /\ V.nCWL = speed.nCWL
      /\ V.nRC = speed.nRC /\ V.nRP = speed.nRP
  BY <1>1, <1>3 DEF Usual, Kept
<1>5. s # "DDR5" => V.nWTRS = speed.nWTRS BY <1>1, <1>3 DEF Usual, Kept
<1>6. Usual(s, V) BY <1>1, <1>2, <1>4, <1>5 DEF Usual
<1>7. ASSUME s = "DDR5" PROVE "nCCDSWTR" \in DOMAIN V /\ V.nCCDSWTR = V.nCWL + V.nBL + 4
  <2>1. speed \in DDR5Speeds BY <1>7 DEF Speeds
  <2>2. "nCCDSWTR" \in DOMAIN speed /\ speed.nCCDSWTR = speed.nCWL + speed.nBL + 4
    BY <2>1, DDR5Usual
  <2>3. "nCCDSWTR" \in Kept BY DEF Kept
  <2> QED BY <1>2, <1>3, <1>4, <2>2, <2>3
<1>8. ASSUME s = "GDDR6" PROVE /\ "nRAS" \in DOMAIN V /\ V.nRAS \in 0 .. V.nRC
                               /\ V.nRC <= V.nRAS + V.nRP
  <2>1. speed \in GDDR6Speeds BY <1>8 DEF Speeds
  <2>2. /\ "nRAS" \in DOMAIN speed /\ speed.nRAS \in 0 .. speed.nRC
        /\ speed.nRC <= speed.nRAS + speed.nRP
    BY <2>1, GDDR6Usual
  <2>3. "nRAS" \in Kept BY DEF Kept
  <2> QED BY <1>2, <1>3, <1>4, <2>2, <2>3
<1> QED BY <1>6, <1>7, <1>8

LEMMA ValuesSetUp ==
  ASSUME SetupInv, SetUp
  PROVE  /\ Usual(std, vals)
         /\ std = "DDR5" => "nCCDSWTR" \in DOMAIN vals
                            /\ vals.nCCDSWTR = vals.nCWL + vals.nBL + 4
         /\ std = "GDDR6" => /\ "nRAS" \in DOMAIN vals /\ vals.nRAS \in 0 .. vals.nRC
                             /\ vals.nRC <= vals.nRAS + vals.nRP
<1>1. PICK speed \in Speeds(std), junk \in Nat, rfc \in GivenRFC :
        vals = TimesOf(std, org, speed, junk, rfc)
  BY DEF SetupInv
<1>2. std \in AllStandards BY DEF SetupInv
<1> QED BY <1>1, <1>2, ValuesUsual

\* Whatever the preset and the overrides: bursts within a rank never overlap.
THEOREM BurstsNeverOverlap == Spec => []BurstsDisjoint
<1>1. ASSUME SetupInv PROVE BurstsDisjoint
  <2> SUFFICES ASSUME SetUp, NEW c1 \in Reads \cup Writes, NEW c2 \in Reads \cup Writes
               PROVE  Apart(Timings(TimingStandard, vals), RankLevel(std), c1, c2,
                            BurstStart(c1) + vals.nBL - BurstStart(c2))
    BY DEF BurstsDisjoint
  <2> DEFINE table == Timings(TimingStandard, vals)
             upTo == RankLevel(std)
             gap == BurstStart(c1) + vals.nBL - BurstStart(c2)
  <2>1. /\ std \in AllStandards /\ Usual(std, vals)
        /\ std = "DDR5" => "nCCDSWTR" \in DOMAIN vals
                           /\ vals.nCCDSWTR = vals.nCWL + vals.nBL + 4
    BY <1>1, ValuesSetUp DEF SetupInv
  <2>2. BusRules(table, upTo, vals)
    <3>1. TimingStandard = TableOf(std) BY DEF TimingStandard, TableOf
    <3> QED BY <2>1, <3>1, BusRulesKept
  <2>3. vals.nCL \in Nat /\ vals.nBL \in Nat /\ vals.nCWL \in Nat BY <2>1 DEF Usual
  <2>4. upTo \in Nat BY DEF RankLevel
  <2>5. Reads \cap Writes = {} BY DEF Reads, Writes
  <2> HIDE DEF table, upTo
  <2>6. PICK one, rank \in 0 .. upTo, there, back \in Int :
          /\ Rule(one, Reads, Reads, vals.nBL) \subseteq table
          /\ Rule(one, Writes, Writes, vals.nBL) \subseteq table
          /\ Rule(rank, Reads, Writes, there) \subseteq table
          /\ Rule(rank, Writes, Reads, back) \subseteq table
          /\ vals.nCL + vals.nBL - vals.nCWL <= there
          /\ vals.nCWL + vals.nBL - vals.nCL <= back
    BY <2>2 DEF BusRules
  <2>7. /\ one \in Int /\ one <= upTo /\ rank \in Int /\ rank <= upTo /\ upTo \in Int
        /\ there \in Int /\ back \in Int
    BY <2>4, <2>6
  <2>8. CASE c1 \in Reads /\ c2 \in Reads
    <3>1. gap \in Int /\ gap <= vals.nBL /\ vals.nBL \in Int BY <2>3, <2>8 DEF BurstStart
    <3> HIDE DEF gap
    <3>2. Apart(table, upTo, c1, c2, gap) BY <2>6, <2>7, <2>8, <3>1, RuleApart
    <3> QED BY <3>2 DEF table, upTo, gap
  <2>9. CASE c1 \in Writes /\ c2 \in Writes
    <3>1. gap \in Int /\ gap <= vals.nBL /\ vals.nBL \in Int
      BY <2>3, <2>5, <2>9 DEF BurstStart
    <3> HIDE DEF gap
    <3>2. Apart(table, upTo, c1, c2, gap) BY <2>6, <2>7, <2>9, <3>1, RuleApart
    <3> QED BY <3>2 DEF table, upTo, gap
  <2>10. CASE c1 \in Reads /\ c2 \in Writes
    <3>1. gap \in Int /\ gap <= there BY <2>3, <2>5, <2>6, <2>7, <2>10 DEF BurstStart
    <3> HIDE DEF gap
    <3>2. Apart(table, upTo, c1, c2, gap) BY <2>6, <2>7, <2>10, <3>1, RuleApart
    <3> QED BY <3>2 DEF table, upTo, gap
  <2>11. CASE c1 \in Writes /\ c2 \in Reads
    <3>1. gap \in Int /\ gap <= back BY <2>3, <2>5, <2>6, <2>7, <2>11 DEF BurstStart
    <3> HIDE DEF gap
    <3>2. Apart(table, upTo, c1, c2, gap) BY <2>6, <2>7, <2>11, <3>1, RuleApart
    <3> QED BY <3>2 DEF table, upTo, gap
  <2> QED BY <2>8, <2>9, <2>10, <2>11
<1> QED BY <1>1, SetupInvInductive, PTL

\* And no bank is activated twice within a row cycle.
THEOREM RowCycleAlwaysKept == Spec => []RowCycleKept
<1>1. ASSUME SetupInv, SetUp
      PROVE  LET table == Timings(TimingStandard, vals)
             IN  \/ Apart(table, BankLevel, "ACT", "ACT", vals.nRC)
                 \/ \E n \in 0 .. vals.nRC :
                      /\ Apart(table, BankLevel, "ACT", "PRE", n)
                      /\ Apart(table, BankLevel, "PRE", "ACT", vals.nRC - n)
  <2>1. /\ std \in AllStandards /\ Usual(std, vals)
        /\ std = "GDDR6" => /\ "nRAS" \in DOMAIN vals /\ vals.nRAS \in 0 .. vals.nRC
                            /\ vals.nRC <= vals.nRAS + vals.nRP
    BY <1>1, ValuesSetUp DEF SetupInv
  <2>2. BankLevel = LevelsAbove(std) - 1
    <3>1. Shaped(std, org.count) BY <1>1 DEF SetupInv, SetUp
    <3>2. LevelsAbove(std) \in Nat BY <2>1, LevelsFacts
    <3>3. Len(org.count) = LevelsAbove(std) + 2
      <4>1. Len(org.count) = Len(Levels(std)) BY <3>1, Zenon DEF Shaped
      <4>2. Len(Levels(std)) = 2 + LevelsAbove(std) BY <2>1, LevelsFacts
      <4> QED BY <3>2, <4>1, <4>2
    <3> QED BY <3>2, <3>3 DEF BankLevel
  <2>3. TimingStandard = TableOf(std) BY DEF TimingStandard, TableOf
  <2> QED BY <2>1, <2>2, <2>3, RowCycleIn
<1>2. SetupInv => RowCycleKept BY <1>1 DEF RowCycleKept
<1> QED BY <1>2, SetupInvInductive, PTL----------------------------------------------------------------------------
(* Rounding a time to cycles, for every time and every clock.              *)

\* PerClock in one step: the quotient of num * p by tCK, rounded down.
LEMMA PerClockFacts ==
  ASSUME NEW num \in Nat, NEW p \in Nat, NEW tCK \in Nat \ {0}
  PROVE  /\ PerClock(num, p, tCK) \in Nat
         /\ tCK * PerClock(num, p, tCK) <= num * p
         /\ num * p < tCK * PerClock(num, p, tCK) + tCK
<1> DEFINE q == num \div tCK
           r == num % tCK
           x == (r * p) \div tCK
           y == (r * p) % tCK
<1>1. q \in Nat /\ r \in Nat /\ num = tCK * q + r BY DivFacts
<1>2. r * p \in Nat
  <2> HIDE DEF r
  <2> QED BY <1>1
<1>3. x \in Nat /\ y \in 0 .. tCK - 1 /\ r * p = tCK * x + y
  <2> DEFINE rp == r * p
  <2> HIDE DEF rp
  <2>1. rp \in Nat BY <1>2 DEF rp
  <2>2. rp \div tCK \in Nat /\ rp % tCK \in 0 .. tCK - 1 /\ rp = tCK * (rp \div tCK) + (rp % tCK)
    BY <2>1, DivFacts
  <2> QED BY <2>2 DEF rp
<1>4. PerClock(num, p, tCK) = q * p + x BY DEF PerClock
<1> HIDE DEF q, r, x, y
<1>5. num * p = tCK * (q * p) + r * p
  <2>1. num * p = (tCK * q + r) * p BY <1>1
  <2>2. (tCK * q + r) * p = tCK * (q * p) + r * p BY <1>1
  <2> QED BY <2>1, <2>2
<1>6. q * p \in Nat BY <1>1
<1>7. tCK * (q * p + x) = tCK * (q * p) + tCK * x BY <1>3, <1>6
<1>8. tCK * (q * p) \in Nat /\ tCK * x \in Nat BY <1>3, <1>6
<1>9. num * p = tCK * PerClock(num, p, tCK) + y BY <1>3, <1>4, <1>5, <1>7, <1>8
<1>10. PerClock(num, p, tCK) \in Nat /\ tCK * PerClock(num, p, tCK) \in Nat
  BY <1>3, <1>4, <1>6, <1>7, <1>8
<1> QED BY <1>3, <1>9, <1>10

\* Rounding x thousandths of a cycle to cycles, with a margin of m thousandths.
LEMMA RoundFacts ==
  ASSUME NEW time \in Nat, NEW tCK \in Nat \ {0}, NEW x \in Nat, NEW m \in 974 .. 1000,
         tCK * x <= time, time < tCK * x + tCK
  PROVE  LET cycles == (x + m) \div 1000
         IN  /\ cycles \in Nat
             /\ 1000 * (tCK * cycles) <= time + m * tCK
             /\ time + m * tCK < 1000 * (tCK * cycles) + 1000 * tCK
<1> DEFINE cycles == (x + m) \div 1000
           rest == (x + m) % 1000
<1>1. cycles \in Nat /\ rest \in 0 .. 999 /\ x + m = 1000 * cycles + rest
  BY SMT
<1> HIDE DEF cycles, rest
<1>2. tCK * (x + m) = tCK * x + m * tCK BY SMT
<1>3. tCK * (x + m) = 1000 * (tCK * cycles) + tCK * rest
  <2>1. tCK * (1000 * cycles + rest) = 1000 * (tCK * cycles) + tCK * rest BY <1>1
  <2> QED BY <1>1, <2>1
<1>4. tCK * rest \in Nat /\ tCK * rest <= 999 * tCK
  <2>1. PICK d \in Nat : 999 = rest + d
    <3>1. 999 - rest \in Nat /\ 999 = rest + (999 - rest) BY <1>1
    <3> QED BY <3>1
  <2>2. rest \in Nat BY <1>1
  <2>3. tCK * (rest + d) = tCK * rest + tCK * d BY <2>2
  <2>4. tCK * d \in Nat /\ tCK * rest \in Nat BY <2>2
  <2>5. tCK * (rest + d) = 999 * tCK BY <2>1
  <2> QED BY <2>3, <2>4, <2>5
<1>5. tCK * x \in Nat /\ tCK * cycles \in Nat /\ m * tCK \in Nat BY <1>1
<1>6. 1000 * (tCK * cycles) + tCK * rest = tCK * x + m * tCK BY <1>2, <1>3
<1>7. 1000 * (tCK * cycles) <= time + m * tCK BY <1>4, <1>5, <1>6
<1>8. time + m * tCK < 1000 * (tCK * cycles) + 1000 * tCK
  BY <1>4, <1>5, <1>6
<1> QED BY <1>1, <1>7, <1>8 DEF cycles

(* Rounded cycles last as long as the time, but for 26 thousandths of a    *)
(* cycle, and at most 974 thousandths of a cycle longer.                   *)
RoundedUp(t, tCK) ==
  LET cycles == JEDEC_rounding(t, tCK)
  IN  /\ cycles \in Nat
      /\ 1000000 * t < 1000 * (tCK * cycles) + 26 * tCK
      /\ 1000 * (tCK * cycles) <= 1000000 * t + 974 * tCK

(* DDR5 takes three thousandths off the time before it rounds up.          *)
RoundedUpDDR5(t, tCK) ==
  LET cycles == JEDEC_rounding_DDR5(t, tCK)
  IN  /\ cycles \in Nat
      /\ 997000 * t < 1000 * (tCK * cycles)
      /\ 1000 * (tCK * cycles) <= 997000 * t + 1000 * tCK

LEMMA JEDECRounds ==
  ASSUME NEW t \in Nat, NEW tCK \in Nat \ {0} PROVE RoundedUp(t, tCK)
<1> DEFINE x == PerClock(t * 1000, 1000, tCK)
<1>1. t * 1000 \in Nat /\ (t * 1000) * 1000 = 1000000 * t OBVIOUS
<1>2. x \in Nat /\ tCK * x <= 1000000 * t /\ 1000000 * t < tCK * x + tCK
  BY <1>1, PerClockFacts
<1>3. JEDEC_rounding(t, tCK) = (x + 974) \div 1000 BY DEF JEDEC_rounding
<1> HIDE DEF x
<1>4. 1000000 * t \in Nat /\ 974 \in 974 .. 1000 OBVIOUS
<1>5. /\ JEDEC_rounding(t, tCK) \in Nat
      /\ 1000 * (tCK * JEDEC_rounding(t, tCK)) <= 1000000 * t + 974 * tCK
      /\ 1000000 * t + 974 * tCK < 1000 * (tCK * JEDEC_rounding(t, tCK)) + 1000 * tCK
  BY <1>2, <1>3, <1>4, RoundFacts
<1> DEFINE c == JEDEC_rounding(t, tCK)
<1>6. c \in Nat BY <1>5
<1> HIDE DEF c
<1>7. tCK * c \in Nat BY <1>6
<1>8. RoundedUp(t, tCK) <=> /\ c \in Nat
                            /\ 1000000 * t < 1000 * (tCK * c) + 26 * tCK
                            /\ 1000 * (tCK * c) <= 1000000 * t + 974 * tCK
  BY DEF c, RoundedUp
<1>9. /\ 1000 * (tCK * c) <= 1000000 * t + 974 * tCK
      /\ 1000000 * t + 974 * tCK < 1000 * (tCK * c) + 1000 * tCK
  BY <1>5 DEF c
<1> QED BY <1>6, <1>7, <1>8, <1>9

LEMMA DDR5Rounds ==
  ASSUME NEW t \in Nat, NEW tCK \in Nat \ {0} PROVE RoundedUpDDR5(t, tCK)
<1> DEFINE x == PerClock(t * 1000, 997, tCK)
<1>1. t * 1000 \in Nat /\ (t * 1000) * 997 = 997000 * t OBVIOUS
<1>2. x \in Nat /\ tCK * x <= 997000 * t /\ 997000 * t < tCK * x + tCK
  BY <1>1, PerClockFacts
<1>3. JEDEC_rounding_DDR5(t, tCK) = (x + 1000) \div 1000 BY DEF JEDEC_rounding_DDR5
<1> HIDE DEF x
<1>4. 997000 * t \in Nat /\ 1000 \in 974 .. 1000 OBVIOUS
<1>5. /\ JEDEC_rounding_DDR5(t, tCK) \in Nat
      /\ 1000 * (tCK * JEDEC_rounding_DDR5(t, tCK)) <= 997000 * t + 1000 * tCK
      /\ 997000 * t + 1000 * tCK < 1000 * (tCK * JEDEC_rounding_DDR5(t, tCK)) + 1000 * tCK
  BY <1>2, <1>3, <1>4, RoundFacts
<1> DEFINE c == JEDEC_rounding_DDR5(t, tCK)
<1>6. c \in Nat BY <1>5
<1> HIDE DEF c
<1>7. tCK * c \in Nat BY <1>6
<1>8. RoundedUpDDR5(t, tCK) <=> /\ c \in Nat
                                /\ 997000 * t < 1000 * (tCK * c)
                                /\ 1000 * (tCK * c) <= 997000 * t + 1000 * tCK
  BY DEF c, RoundedUpDDR5
<1>9. /\ 1000 * (tCK * c) <= 997000 * t + 1000 * tCK
      /\ 997000 * t + 1000 * tCK < 1000 * (tCK * c) + 1000 * tCK
  BY <1>5 DEF c
<1> QED BY <1>6, <1>7, <1>8, <1>9

\* The conversion of every time to the cycles of every clock.
THEOREM RoundingFaithful ==
  \A t \in Nat, tCK \in Nat \ {0} : RoundedUp(t, tCK) /\ RoundedUpDDR5(t, tCK)
BY JEDECRounds, DDR5Rounds
----------------------------------------------------------------------------
(* From one refresh to the next.                                           *)

LEMMA LeftOfProducts ==
  ASSUME NEW c \in Nat \ {0}, NEW a \in Int, NEW b \in Int, c * a <= c * b PROVE a <= b
<1> SUFFICES ASSUME a > b PROVE FALSE OBVIOUS
<1>1. PICK d \in Nat : a = b + 1 + d
  <2>1. a - b - 1 \in Nat /\ a = b + 1 + (a - b - 1) OBVIOUS
  <2> QED BY <2>1
<1>2. c * (b + 1 + d) = c * b + c + c * d OBVIOUS
<1>3. c * d \in Nat /\ c * b \in Int OBVIOUS
<1> QED BY <1>1, <1>2, <1>3

LEMMA RoundedNat ==
  ASSUME NEW s, NEW t \in Nat, NEW tCK \in Nat \ {0} PROVE Rounded(s, t, tCK) \in Nat
<1>1. JEDEC_rounding(t, tCK) \in Nat BY JEDECRounds DEF RoundedUp
<1>2. JEDEC_rounding_DDR5(t, tCK) \in Nat BY DDR5Rounds DEF RoundedUpDDR5
<1> QED BY <1>1, <1>2, Zenon DEF Rounded

\* The clocks (ps) of all speeds and of those with a preset refresh interval, the
\* refreshes of the latter in ns and in cycles, and two numbers n or more apart.
UsualClocks  == 300 .. 2500
SlowClocks   == { c \in Nat : c >= 625 }
LongTimes    == 0 .. 650
LongCycles   == 0 .. 1100
FarApart(n, short, long) == short \in Nat /\ long \in Nat /\ short + n <= long

\* Two times at least 600 ns apart are more than 200 cycles apart.
LEMMA RoundedApart ==
  ASSUME NEW s \in AllStandards, NEW tCK, tCK \in UsualClocks,
         NEW short, NEW long, FarApart(600, short, long)
  PROVE  FarApart(201, Rounded(s, short, tCK), Rounded(s, long, tCK))
<1> DEFINE c == Rounded(s, short, tCK)
           d == Rounded(s, long, tCK)
<1>0. /\ tCK \in Nat \ {0} /\ tCK <= 2500
      /\ short \in Nat /\ long \in Nat /\ short + 600 <= long
  BY DEF UsualClocks, FarApart
<1>1. /\ c \in Nat /\ d \in Nat
      /\ 1000 * (tCK * c) + 997000 * (long - short) < 1000 * (tCK * d) + 1000 * tCK
  <2>1. CASE s = "DDR5"
    <3>1. RoundedUpDDR5(short, tCK) /\ RoundedUpDDR5(long, tCK) BY <1>0, DDR5Rounds
    <3>2. c = JEDEC_rounding_DDR5(short, tCK) /\ d = JEDEC_rounding_DDR5(long, tCK)
      BY <2>1 DEF Rounded
    <3> HIDE DEF c, d
    <3>3. /\ c \in Nat /\ d \in Nat /\ 997000 * long < 1000 * (tCK * d)
          /\ 1000 * (tCK * c) <= 997000 * short + 1000 * tCK
      BY <1>0, <3>1, <3>2 DEF RoundedUpDDR5
    <3>4. tCK * c \in Nat /\ tCK * d \in Nat BY <1>0, <3>3
    <3> QED BY <1>0, <3>3, <3>4
  <2>2. CASE s # "DDR5"
    <3>1. RoundedUp(short, tCK) /\ RoundedUp(long, tCK) BY <1>0, JEDECRounds
    <3>2. c = JEDEC_rounding(short, tCK) /\ d = JEDEC_rounding(long, tCK)
      BY <2>2 DEF Rounded
    <3> HIDE DEF c, d
    <3>3. /\ c \in Nat /\ d \in Nat /\ 1000000 * long < 1000 * (tCK * d) + 26 * tCK
          /\ 1000 * (tCK * c) <= 1000000 * short + 974 * tCK
      BY <1>0, <3>1, <3>2 DEF RoundedUp
    <3>4. tCK * c \in Nat /\ tCK * d \in Nat BY <1>0, <3>3
    <3> QED BY <1>0, <3>3, <3>4
  <2> QED BY <2>1, <2>2
<1> HIDE DEF c, d
<1>2. tCK * c \in Nat /\ tCK * d \in Nat BY <1>0, <1>1
<1>3. 597 * 1000 <= 997 * (long - short) BY <1>0, SMT
<1>4. 1000 * (tCK * c) + 597000000 < 1000 * (tCK * d) + 1000 * tCK
  BY <1>0, <1>1, <1>2, <1>3
<1>5. tCK * c + 201 * tCK <= tCK * d BY <1>0, <1>2, <1>4
<1>6. tCK * (c + 201) = tCK * c + 201 * tCK BY <1>0, <1>1
<1>7. c + 201 <= d BY <1>0, <1>1, <1>5, <1>6, LeftOfProducts
<1>8. FarApart(201, c, d) BY <1>1, <1>7 DEF FarApart
<1> QED BY <1>8 DEF c, d

\* The refresh of a high-bandwidth memory.
LEMMA RoundedShort ==
  ASSUME NEW s \in AllStandards, s # "DDR5", NEW tCK, tCK \in SlowClocks,
         NEW t, t \in LongTimes
  PROVE  Rounded(s, t, tCK) \in LongCycles
<1> DEFINE c == Rounded(s, t, tCK)
<1>0. tCK \in Nat \ {0} /\ tCK >= 625 /\ t \in Nat /\ t <= 650
  BY DEF SlowClocks, LongTimes
<1>1. RoundedUp(t, tCK) /\ c = JEDEC_rounding(t, tCK) BY <1>0, JEDECRounds DEF Rounded
<1> HIDE DEF c
<1>2. c \in Nat /\ 1000 * (tCK * c) <= 1000000 * t + 974 * tCK BY <1>1 DEF RoundedUp
<1>3. tCK * c \in Nat BY <1>0, <1>2
<1>4. 1000000 * t <= 1040000 * tCK BY <1>0
<1>5. tCK * c <= 1041 * tCK BY <1>0, <1>2, <1>3, <1>4
<1>6. tCK * c <= tCK * 1041 BY <1>0, <1>5
<1>7. c <= 1041 BY <1>0, <1>2, <1>6, LeftOfProducts
<1>8. c \in LongCycles BY <1>2, <1>7 DEF LongCycles
<1> QED BY <1>8 DEF c
\* The models that take nREFI from their presets, and all others from a table.
PresetREFI == {"HBM", "HBM2", "HBM3", "HBM3_PIM"}

RefreshGap(s, ref) ==
  /\ "nRFC" \in DOMAIN ref.tables /\ "nREFI" \notin DOMAIN ref.tables
  /\ \A d \in DOMAIN ref.densities : ref.tables.nRFC[d] \in 0 .. 650
  /\ s \in PresetREFI => "nREFI" \notin DOMAIN ref.fixed
  /\ s \notin PresetREFI =>
       /\ "nREFI" \in DOMAIN ref.fixed /\ ref.fixed.nREFI \in Nat
       /\ \A d \in DOMAIN ref.densities : ref.tables.nRFC[d] + 600 <= ref.fixed.nREFI

LEMMA RefreshGaps ==
  ASSUME NEW s \in AllStandards, NEW o PROVE RefreshGap(s, RefreshTimes(s, o))
<1>1. CASE s = "DDR3"
  <2>1. RefreshTimes(s, o) = DDR3Refresh BY <1>1 DEF RefreshTimes
  <2>2. RefreshGap(s, DDR3Refresh) BY <1>1 DEF RefreshGap, PresetREFI, DDR3Refresh
  <2> QED BY <2>1, <2>2, Zenon
<1>2. CASE s = "DDR4"
  <2>1. RefreshTimes(s, o) = DDR4Refresh BY <1>2 DEF RefreshTimes
  <2>2. RefreshGap(s, DDR4Refresh) BY <1>2 DEF RefreshGap, PresetREFI, DDR4Refresh
  <2> QED BY <2>1, <2>2, Zenon
<1>3. CASE s = "DDR4_VRR"
  <2>1. RefreshTimes(s, o) = DDR4VRRRefresh BY <1>3 DEF RefreshTimes
  <2>2. RefreshGap(s, DDR4VRRRefresh) BY <1>3 DEF RefreshGap, PresetREFI, DDR4VRRRefresh, DDR4Refresh
  <2> QED BY <2>1, <2>2, Zenon
<1>4. CASE s = "DDR5"
  <2>1. RefreshTimes(s, o) = DDR5Refresh BY <1>4 DEF RefreshTimes
  <2>2. RefreshGap(s, DDR5Refresh) BY <1>4 DEF RefreshGap, PresetREFI, DDR5Refresh
  <2> QED BY <2>1, <2>2, Zenon
<1>5. CASE s = "LPDDR5"
  <2>1. RefreshTimes(s, o) = LPDDR5Refresh BY <1>5 DEF RefreshTimes
  <2>2. RefreshGap(s, LPDDR5Refresh) BY <1>5 DEF RefreshGap, PresetREFI, LPDDR5Refresh
  <2> QED BY <2>1, <2>2, Zenon
<1>6. CASE s = "GDDR6"
  <2>1. RefreshTimes(s, o) = GDDR6Refresh BY <1>6 DEF RefreshTimes
  <2>2. RefreshGap(s, GDDR6Refresh) BY <1>6 DEF RefreshGap, PresetREFI, GDDR6Refresh
  <2> QED BY <2>1, <2>2, Zenon
<1>7. CASE s \in {"HBM", "HBM2"}
  <2>1. RefreshTimes(s, o) = HBMRefresh BY <1>7 DEF RefreshTimes
  <2>2. s \in PresetREFI BY <1>7 DEF PresetREFI
  <2>3. /\ HBMRefresh.densities = <<2, 4, 8, 16>> /\ HBMRefresh.fixed = <<>>
        /\ HBMRefresh.tables = [nRFC |-> <<160, 260, 350, 450>>, nREFISB |-> <<160, 260, 350, 450>>]
    BY DEF HBMRefresh
  <2>4. "nREFI" \notin DOMAIN HBMRefresh.fixed
    <3>1. DOMAIN HBMRefresh.fixed = {} BY <2>3
    <3> QED BY <3>1
  <2>5. /\ "nRFC" \in DOMAIN HBMRefresh.tables /\ "nREFI" \notin DOMAIN HBMRefresh.tables
        /\ \A d \in DOMAIN HBMRefresh.densities : HBMRefresh.tables.nRFC[d] \in 0 .. 650
    <3>1. DOMAIN HBMRefresh.tables = {"nRFC", "nREFISB"} BY <2>3
    <3>2. HBMRefresh.tables.nRFC = <<160, 260, 350, 450>> BY <2>3
    <3>3. DOMAIN HBMRefresh.densities = 1 .. 4 BY <2>3
    <3> QED BY <2>4, <3>1, <3>2, <3>3
  <2>6. RefreshGap(s, HBMRefresh) BY <2>2, <2>4, <2>5, Zenon DEF RefreshGap
  <2> QED BY <2>1, <2>6, Zenon
<1>8. CASE s \in {"HBM3", "HBM3_PIM"}
  <2> DEFINE ranks == o.count[LevelIndex(s, "rank")]
  <2>1. RefreshTimes(s, o) = HBM3Refresh(ranks) BY <1>8, Zenon DEF RefreshTimes
  <2> HIDE DEF ranks
  <2>2. RefreshGap(s, HBM3Refresh(ranks)) BY <1>8 DEF RefreshGap, PresetREFI, HBM3Refresh
  <2> QED BY <2>1, <2>2, Zenon
<1> QED BY <1>1, <1>2, <1>3, <1>4, <1>5, <1>6, <1>7, <1>8 DEF AllStandards

\* A density of the tables has its place in them.
LEMMA DensityFound ==
  ASSUME NEW s, NEW o, DensityId(s, o) # 0
  PROVE  DensityId(s, o) \in DOMAIN RefreshTimes(s, o).densities
<1> DEFINE D == RefreshTimes(s, o).densities
           f == [i \in DOMAIN D |-> Gigabits(D[i])]
<1>1. DensityId(s, o) = IndexOf(f, o.density) BY DEF DensityId
<1>2. DOMAIN f = DOMAIN D OBVIOUS
<1> HIDE DEF f, D
<1>3. IndexOf(f, o.density) # 0 => IndexOf(f, o.density) \in DOMAIN f BY DEF IndexOf
<1> QED BY <1>1, <1>2, <1>3 DEF D

\* What a preset speed gets for nREFI and nRFC.
LEMMA RefreshValues ==
  ASSUME NEW s \in AllStandards, NEW o, NEW speed, NEW junk, DensityId(s, o) # 0,
         {"nREFI", "nRFC"} \subseteq DOMAIN speed, ClockPs(s, speed.rate) \in Nat \ {0}
  PROVE  LET ref == RefreshTimes(s, o)
             tCK == ClockPs(s, speed.rate)
             V   == Completed(s, o, speed, junk)
         IN  /\ V.nRFC = Rounded(s, ref.tables.nRFC[DensityId(s, o)], tCK)
             /\ V.nREFI = IF s \in PresetREFI THEN speed.nREFI
                          ELSE Rounded(s, ref.fixed.nREFI, tCK)
<1> DEFINE ref == RefreshTimes(s, o)
           tCK == ClockPs(s, speed.rate)
           V   == Completed(s, o, speed, junk)
           sec == Secondary(s)
<1>1. RefreshGap(s, ref) BY RefreshGaps
<1>2. "nRFC" \notin DOMAIN sec.tables /\ "nREFI" \notin DOMAIN sec.tables
  BY NotSecondary
<1>3. DensityId(s, o) \in DOMAIN ref.densities BY DensityFound
<1>4. V.nRFC = Repeats(s, "nRFC") * Rounded(s, ref.tables.nRFC[DensityId(s, o)], tCK)
  BY <1>1, <1>2 DEF RefreshGap, Completed
<1>5. Repeats(s, "nRFC") = 1 BY DEF Repeats
<1>6. Rounded(s, ref.tables.nRFC[DensityId(s, o)], tCK) \in Nat
  <2> DEFINE t == ref.tables.nRFC[DensityId(s, o)]
  <2>1. t \in Nat
    <3> HIDE DEF ref, V, sec, tCK
    <3>1. t \in 0 .. 650 BY <1>1, <1>3, Zenon DEF RefreshGap
    <3> HIDE DEF t
    <3> QED BY <3>1
  <2> HIDE DEF t, tCK
  <2>2. tCK \in Nat \ {0} BY DEF tCK
  <2>3. Rounded(s, t, tCK) \in Nat BY <2>1, <2>2, RoundedNat
  <2> QED BY <2>3 DEF t
<1>7. V.nREFI = IF s \in PresetREFI THEN speed.nREFI ELSE Rounded(s, ref.fixed.nREFI, tCK)
  BY <1>1, <1>2 DEF RefreshGap, Completed
<1> HIDE DEF ref, tCK, V
<1>8. V.nRFC = Rounded(s, ref.tables.nRFC[DensityId(s, o)], tCK)
  BY <1>4, <1>5, <1>6
<1> QED BY <1>7, <1>8 DEF ref, tCK, V
LEMMA LongRefreshValues ==
  ASSUME NEW s \in PresetREFI, NEW v \in Speeds(s) PROVE LongRefreshes(s, v)
<1>1. CASE s = "HBM" BY <1>1, HBMUsual DEF Speeds
<1>2. CASE s = "HBM2" BY <1>2, HBM2Usual DEF Speeds
<1>3. CASE s = "HBM3" BY <1>3, HBM3Usual DEF Speeds
<1>4. CASE s = "HBM3_PIM" BY <1>4, PIMUsual DEF Speeds
<1> QED BY <1>1, <1>2, <1>3, <1>4 DEF PresetREFI

LEMMA RefreshFits ==
  ASSUME NEW s \in AllStandards, NEW o, NEW speed \in Speeds(s), NEW junk,
         DensityId(s, o) # 0, NEW V, V = Completed(s, o, speed, junk)
  PROVE  V.nRC + V.nRP + V.nRFC < V.nREFI
<1> DEFINE ref == RefreshTimes(s, o)
           tCK == ClockPs(s, speed.rate)
           time == ref.tables.nRFC[DensityId(s, o)]
<1>1. Usual(s, speed) /\ tCK \in 300 .. 2500 BY SpeedsUsual DEF Clocked
<1>2. RefreshGap(s, ref) BY RefreshGaps
<1>3. DensityId(s, o) \in DOMAIN ref.densities BY DensityFound
<1>4. /\ V.nRFC = Rounded(s, time, tCK)
      /\ V.nREFI = IF s \in PresetREFI THEN speed.nREFI ELSE Rounded(s, ref.fixed.nREFI, tCK)
  <2>1. {"nREFI", "nRFC"} \subseteq DOMAIN speed BY <1>1 DEF Usual
  <2>2. tCK \in Nat \ {0}
    <3> HIDE DEF tCK, ref, time
    <3> QED BY <1>1
  <2> QED BY <2>1, <2>2, RefreshValues
<1>5. V.nRC = speed.nRC /\ V.nRP = speed.nRP
  <2>1. V = TimesOf(s, o, speed, junk, Unset) BY DEF TimesOf
  <2>2. \A n \in Kept : n \in DOMAIN speed => V[n] = speed[n] BY <2>1, KeptValues
  <2> QED BY <1>1, <2>2 DEF Usual, Kept
<1>6. V.nRC \in Nat /\ V.nRP \in Nat /\ V.nRC + V.nRP <= 200 BY <1>1, <1>5 DEF Usual
<1>7. time \in 0 .. 650 BY <1>2, <1>3 DEF RefreshGap
<1> HIDE DEF ref, tCK, time
<1>8. CASE s \in PresetREFI
  <2>1. LongRefreshes(s, speed) BY <1>8, LongRefreshValues
  <2>2. speed.nREFI \in Int /\ speed.nREFI >= 3900 /\ tCK >= 625
    BY <2>1 DEF LongRefreshes, tCK
  <2>3. s # "DDR5" /\ tCK \in Nat BY <1>1, <1>8 DEF PresetREFI
  <2>4. Rounded(s, time, tCK) \in 0 .. 1100
    <3>1. s # "DDR5" BY <2>3
    <3>2. tCK \in SlowClocks BY <2>2, <2>3 DEF SlowClocks
    <3>3. time \in LongTimes BY <1>7 DEF LongTimes
    <3>4. Rounded(s, time, tCK) \in LongCycles BY <3>1, <3>2, <3>3, RoundedShort, Zenon
    <3> QED BY <3>4 DEF LongCycles
  <2> QED BY <1>4, <1>6, <1>8, <2>2, <2>4
<1>9. CASE s \notin PresetREFI
  <2>1. ref.fixed.nREFI \in Nat /\ time + 600 <= ref.fixed.nREFI
    BY <1>2, <1>3, <1>9 DEF RefreshGap, time
  <2> DEFINE long == ref.fixed.nREFI
  <2> HIDE DEF long
  <2>2. time \in Nat /\ long \in Nat /\ time + 600 <= long BY <1>7, <2>1 DEF long
  <2>3. /\ Rounded(s, time, tCK) \in Nat /\ Rounded(s, long, tCK) \in Nat
        /\ Rounded(s, time, tCK) + 200 < Rounded(s, long, tCK)
    <3>1. tCK \in UsualClocks BY <1>1 DEF UsualClocks
    <3>2. FarApart(600, time, long) BY <2>2 DEF FarApart
    <3>3. FarApart(201, Rounded(s, time, tCK), Rounded(s, long, tCK))
      BY <3>1, <3>2, RoundedApart, Zenon
    <3> QED BY <3>3 DEF FarApart
  <2>4. V.nRFC = Rounded(s, time, tCK) /\ V.nREFI = Rounded(s, long, tCK)
    BY <1>4, <1>9 DEF long
  <2> QED BY <1>6, <2>3, <2>4
<1> QED BY <1>8, <1>9

\* Refreshes of a known density leave time to close the rows and open one again.
THEOREM RefreshAlwaysKeepsUp == Spec => []RefreshKeepsUp
<1>1. ASSUME SetupInv, SetUp, DensityId(std, org) # 0, vals.nRFC \notin GivenRFC
      PROVE  vals.nRC + vals.nRP + vals.nRFC < vals.nREFI
  <2>1. PICK speed \in Speeds(std), junk \in Nat, rfc \in GivenRFC :
          vals = TimesOf(std, org, speed, junk, rfc)
    BY <1>1 DEF SetupInv
  <2>2. std \in AllStandards BY <1>1 DEF SetupInv
  <2>3. rfc = Unset
    <3> DEFINE C == Completed(std, org, speed, junk)
    <3>1. SUFFICES ASSUME rfc # Unset PROVE FALSE OBVIOUS
    <3>2. vals = [C EXCEPT !.nRFC = rfc] BY <2>1, <3>1 DEF TimesOf
    <3>3. "nRFC" \in DOMAIN C
      <4>1. "nRFC" \in DOMAIN speed BY <2>2, SpeedsUsual DEF Usual
      <4> QED BY <4>1 DEF Completed
    <3> HIDE DEF C
    <3>4. vals.nRFC = rfc BY <3>2, <3>3
    <3> QED BY <1>1, <3>4
  <2>4. vals = Completed(std, org, speed, junk) BY <2>1, <2>3 DEF TimesOf
  <2> QED BY <1>1, <2>2, <2>4, RefreshFits
<1>2. SetupInv => RefreshKeepsUp BY <1>1 DEF RefreshKeepsUp
<1> QED BY <1>2, SetupInvInductive, PTL
=============================================================================

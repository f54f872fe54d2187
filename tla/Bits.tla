-------------------------------- MODULE Bits --------------------------------
(***************************************************************************)
(* Shifts, masks and logarithms of natural numbers.                        *)
(*                                                                         *)
(* Functions along the numbers are recursive functions, not RECURSIVE      *)
(* operators, and BitXor and BitAnd take the place of Bitwise's: the       *)
(* modules that use them are proved about.                                 *)
(***************************************************************************)
EXTENDS Integers

\* x shifted right by n bits is x \div Pow2[n].
Pow2[n \in Nat] == IF n = 0 THEN 1 ELSE 2 * Pow2[n - 1]

\* calc_log2: how often n can be halved.
Log2(n) == CHOOSE k \in 0 .. n : Pow2[k] <= n /\ n < Pow2[k + 1]

\* The bits of an int that is not negative.
IntBits == 31

\* Exclusive or of the lower w bits.
BitXor[w \in Nat] ==
  IF w = 0 THEN [p \in Nat \X Nat |-> 0]
  ELSE [p \in Nat \X Nat |-> ((p[1] + p[2]) % 2)
                              + 2 * BitXor[w - 1][<<p[1] \div 2, p[2] \div 2>>]]

\* The lower w bits that both numbers have.
BitAnd[w \in Nat] ==
  IF w = 0 THEN [p \in Nat \X Nat |-> 0]
  ELSE [p \in Nat \X Nat |-> ((p[1] % 2) * (p[2] % 2))
                              + 2 * BitAnd[w - 1][<<p[1] \div 2, p[2] \div 2>>]]
=============================================================================

--------------------------- MODULE AddressMappers ---------------------------
(***************************************************************************)
(* The address mappers: which bits of an address select the node of each   *)
(* level.  An address is given without the bits within a transfer.         *)
(***************************************************************************)
EXTENDS Bits, Sequences

LinearMappers == {"ChRaBaRoCo", "RoBaRaCoCh", "MOP4CLXOR"}
HBM3Mappers   == {"HBM3-Base", "HBM3-Custom", "HBM3-PIM", "HBM3-PIM-Custom"}

\* m_addr_bits, from the sizes of the levels, columns last.  The linear mappers
\* count columns in bursts of the prefetch size; those for HBM3 take the columns
\* of the organization for bursts.
AddrBits(m, count, prefetch) ==
  [l \in DOMAIN count |->
     IF l = Len(count) /\ m \in LinearMappers
     THEN Log2(count[l]) - Log2(prefetch) ELSE Log2(count[l])]

----------------------------------------------------------------------------
(* slice_lower_bits: bits are cut off the lower end of the address, piece  *)
(* after piece.                                                            *)

\* Mutant of Rest: the first piece is looked at and not cut off.
RestUncut(slices, line) ==
  LET rest[k \in 0 .. Len(slices)] ==
        IF k <= 1 THEN line ELSE rest[k - 1] \div Pow2[slices[k]]
  IN  rest

\* What is left of line after each piece.
Rest(slices, line) ==
  LET rest[k \in 0 .. Len(slices)] ==
        IF k = 0 THEN line ELSE rest[k - 1] \div Pow2[slices[k]]
  IN  rest

Piece(slices, line, k) == Rest(slices, line)[k - 1] % Pow2[slices[k]]

\* The lines that leave nothing over.
Capacity(slices) ==
  LET room[k \in 0 .. Len(slices)] ==
        IF k = 0 THEN 1 ELSE room[k - 1] * Pow2[slices[k]]
  IN  room[Len(slices)]

----------------------------------------------------------------------------
(* Most mappers give each level one piece.                                 *)

\* The levels, from the one that takes the lowest bits to the one that takes
\* the highest.
SliceOrder(m, levels) ==
  CASE m \in {"ChRaBaRoCo", "HBM3-Base", "HBM3-PIM"} ->
         [i \in 1 .. levels |-> levels + 1 - i]
    [] m = "RoBaRaCoCh" ->
         [i \in 1 .. levels |-> CASE i = 1 -> 1 [] i = 2 -> levels [] OTHER -> i - 1]
    [] m = "HBM3-Custom" -> <<1, 2, 4, 7, 3, 5, 6>>
    [] m = "HBM3-PIM-Custom" ->
         [i \in 1 .. levels |-> IF i = 1 THEN 1 ELSE levels + 2 - i]

\* MOP4CLXOR: two column bits, the levels above the row, the other column bits,
\* and the rest as the row.
MOPSlices(bits) ==
  LET col == Len(bits)
  IN  [k \in 1 .. col + 1 |-> CASE k = 1       -> 2
                                [] k = col     -> bits[col] - 2
                                [] k = col + 1 -> bits[col - 1]
                                [] OTHER       -> bits[k - 1]]

Slices(m, bits) ==
  IF m = "MOP4CLXOR" THEN MOPSlices(bits)
  ELSE [k \in 1 .. Len(bits) |-> bits[SliceOrder(m, Len(bits))[k]]]

Sliced(m, bits, line) ==
  [l \in 1 .. Len(bits) |->
     LET k == CHOOSE i \in 1 .. Len(bits) : SliceOrder(m, Len(bits))[i] = l
     IN  Piece(Slices(m, bits), line, k)]

----------------------------------------------------------------------------
(* MOP4CLXOR xors the row, which takes all that is left of the address,    *)
(* and every level above it with bits of the column.                       *)

MaxInt  == 2147483647

MOP4CLXOR(bits, line) ==
  LET slices == MOPSlices(bits)
      col    == Len(bits)
      column == Piece(slices, line, 1) + 4 * Piece(slices, line, col)
      Cut(l) == IF l = col - 1 THEN Rest(slices, line)[col]
                ELSE Piece(slices, line, l + 1)
  IN  [l \in 1 .. col |-> IF l = col THEN column
                          ELSE BitXor[IntBits][<<Cut(l), Piece(bits, column, l)>>]]

Mapped(m, bits, line) ==
  IF m = "MOP4CLXOR" THEN MOP4CLXOR(bits, line) ELSE Sliced(m, bits, line)
=============================================================================

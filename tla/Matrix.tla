------------------------------- MODULE Matrix -------------------------------
(***************************************************************************)
(* The row operations of matrix.c, on the rows the coding layer keeps.  A  *)
(* row pairs the coefficients of a packet (one per packet of the block)    *)
(* with its data; the code keeps the two in parallel matrices and applies  *)
(* every operation to both.  PACKETSIZE bytes of data are one symbol here: *)
(* all bytes of a packet go through the same operations independently.     *)
(***************************************************************************)
EXTENDS GaloisField, Sequences

CONSTANT BLKSIZE  \* packets in a block, 127 in the program

ASSUME BlksizeAssumption == BLKSIZE \in Nat \ {0}

\* Rows are solved for in a field; the program's tables are those of one
\* (TablesArePowers of GaloisTables).
ASSUME TablesAssumption == TablesOfField

Column == 0 .. BLKSIZE - 1

Vector == [Column -> Field]

\* mCreate of one row: calloc leaves it zero.
EmptyRow == [coeffs |-> [x \in Column |-> 0], data |-> 0]

EmptyMatrix == [x \in Column |-> EmptyRow]

\* row / factor, for the coefficients and for the data.
rowReduce(row, factor) ==
  [coeffs |-> [x \in Column |-> gdiv(row.coeffs[x], factor)],
   data   |-> gdiv(row.data, factor)]

\* Mutated: the data is not followed.
rowMulSubCoeffsOnly(a, b, c) ==
  [coeffs |-> [x \in Column |-> gsub(a.coeffs[x], gmul(c, b.coeffs[x]))],
   data   |-> a.data]

\* a - c * b, for the coefficients and for the data.
rowMulSub(a, b, c) ==
  [coeffs |-> [x \in Column |-> gsub(a.coeffs[x], gmul(c, b.coeffs[x]))],
   data   |-> gsub(a.data, gmul(c, b.data))]

\* mMul of one row of coefficients with the packets of a block: the
\* coefficients beyond the block's packets are not drawn.
mMul(coeffs, packets) ==
  LET sum[n \in 0 .. Len(packets)] ==
        IF n = 0 THEN 0
        ELSE gadd(sum[n - 1], gmul(coeffs[n - 1], packets[n]))
  IN  sum[Len(packets)]

\* Mutated: only the diagonal is looked at.
isOneAt(row, i) == row.coeffs[i] = 1

isZeroAndOneAt(row, i) ==
  \A x \in Column : row.coeffs[x] = IF x = i THEN 1 ELSE 0

isEmptyRow(row) == \A x \in Column : row.coeffs[x] = 0

=============================================================================

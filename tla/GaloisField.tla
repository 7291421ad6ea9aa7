---------------------------- MODULE GaloisField ----------------------------
(***************************************************************************)
(* The arithmetic of galois_field.c: a field of 2^BITS elements whose      *)
(* addition and subtraction are both the bitwise exclusive or, and whose   *)
(* product and quotient go through a table of logarithms and one of        *)
(* antilogarithms.  The program has BITS = 8 (its tables are in            *)
(* GaloisTables); the coding modules are checked with the same operators   *)
(* over the four-element field.                                            *)
(***************************************************************************)
EXTENDS Integers

CONSTANTS
  BITS,    \* width of an element, 8 in the program
  ltable,  \* ltable[a]: the logarithm of a # 0, in 1..2^BITS-1
  atable   \* atable[n]: the generator to the n, for n up to twice that

ASSUME BitsAssumption == BITS \in Nat \ {0}

Field == 0 .. 2^BITS - 1

NonZero == Field \ {0}

\* a ^ b of two elements, one bit at a time.
xor[a \in Field] ==
  [b \in Field |->
    IF a = 0 THEN b
    ELSE IF b = 0 THEN a
    ELSE ((a + b) % 2) + 2 * xor[a \div 2][b \div 2]]

gadd(a, b) == xor[a][b]

gsub(a, b) == xor[a][b]

\* Mutated: zero has a logarithm.
gmulUnguarded(a, b) ==
  IF a = 0 /\ b = 0 THEN 0 ELSE atable[ltable[a] + ltable[b]]

gmul(a, b) == IF a = 0 \/ b = 0 THEN 0 ELSE atable[ltable[a] + ltable[b]]

\* Mutated: the divisor over the dividend.
gdivSwapped(a, b) == IF a = 0 THEN 0 ELSE atable[2^BITS - 1 + ltable[b] - ltable[a]]

\* The divisor is never zero: rowReduce divides by a leading coefficient.
gdiv(a, b) == IF a = 0 THEN 0 ELSE atable[2^BITS - 1 + ltable[a] - ltable[b]]

-----------------------------------------------------------------------------
(* What the tables must be for the operations to be those of a field *)

\* The nonzero elements, the powers of the generator.
Order == 2^BITS - 1

\* The generator times a.
raised(a) == IF a = 0 THEN 0 ELSE atable[ltable[a] + 1]

\* Elements are words of BITS bits; the tables take every nonzero element to its
\* logarithm and back, over two turns; to multiply with the generator is linear.
TablesOfField ==
  /\ 1 \in Field
  /\ \A a, b \in Field : xor[a][b] \in Field
  /\ \A n \in 0 .. 2 * Order : atable[n] \in NonZero
  /\ \A n \in 0 .. Order : atable[n + Order] = atable[n]
  /\ \A a \in NonZero : ltable[a] \in 1 .. Order /\ atable[ltable[a]] = a
  /\ \A n \in 1 .. Order : ltable[atable[n]] = n
  /\ ltable[1] = Order
  /\ \A a, b \in Field : raised(xor[a][b]) = xor[raised(a)][raised(b)]

=============================================================================

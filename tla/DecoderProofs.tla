--------------------------- MODULE DecoderProofs ---------------------------
(***************************************************************************)
(* The field and the decoder.                                              *)
(*                                                                         *)
(* The operations of GaloisField are those of a field, for every width and *)
(* any tables of logarithms in which multiplying with the generator is     *)
(* linear (TablesAssumption, which TablesArePowers of GaloisTables shows   *)
(* of the program's tables).                                               *)
(*                                                                         *)
(* From that: what appendCodedPayload and extractData do to the matrix of  *)
(* a block, for any set of rows the operations do not leave (a space).     *)
(* The spaces that matter are the true equations of a block: the rows that *)
(* hold the combination of the block's packets their coefficients name.    *)
(***************************************************************************)
EXTENDS Decoder, WellFoundedInduction, SequenceTheorems, FiniteSetTheorems, TLAPS

-----------------------------------------------------------------------------
(* Induction and iteration *)

\* Induction, over a set: a set with 0 and the successors of its numbers has them
\* all, or the least number that is not in it would not be the least.
LEMMA NatSetInduction ==
  ASSUME NEW S, 0 \in S, \A n \in Nat : n \in S => n + 1 \in S
  PROVE  Nat \subseteq S
<1> DEFINE R == { ss \in Nat \X Nat : ss[1] < ss[2] }
           T == { n \in Nat : n \notin S }
<1>1. R = OpToRel(<, Nat)
  BY Zenon DEF OpToRel
<1>2. IsWellFoundedOn(R, Nat)
  BY <1>1, NatLessThanWellFounded, Zenon
<1>3. ASSUME T # {} PROVE FALSE
  <2>1. T \subseteq Nat
    OBVIOUS
  <2> HIDE DEF R, T
  <2>2. PICK n \in T : \A m \in T : ~ (<<m, n>> \in R)
    BY <1>2, <1>3, <2>1, WFMin, Zenon
  <2>3. n \in Nat /\ n \notin S
    BY DEF T
  <2>4. n # 0
    BY <2>3
  <2>5. n - 1 \in Nat /\ n - 1 < n /\ n - 1 + 1 = n
    BY <2>3, <2>4
  <2>6. n - 1 \notin S
    BY <2>3, <2>5
  <2>7. <<n - 1, n>> \in R
    BY <2>3, <2>5 DEF R
  <2> QED BY <2>2, <2>5, <2>6, <2>7 DEF T
<1> QED BY <1>3

\* Induction up to a bound.
LEMMA InductionUpTo ==
  ASSUME NEW b \in Nat, NEW S, 0 \in S, \A n \in 1 .. b : n - 1 \in S => n \in S
  PROVE  \A n \in 0 .. b : n \in S
<1> DEFINE T == { n \in Nat : n <= b => n \in S }
<1>1. 0 \in T
  OBVIOUS
<1>2. ASSUME NEW n \in Nat, n \in T PROVE n + 1 \in T
  <2> SUFFICES ASSUME n + 1 <= b PROVE n + 1 \in S
    OBVIOUS
  <2>1. n + 1 \in 1 .. b /\ (n + 1) - 1 = n /\ n \in S
    BY <1>2
  <2> QED BY <2>1
<1> HIDE DEF T
<1>3. Nat \subseteq T
  BY <1>1, <1>2, NatSetInduction
<1> QED BY <1>3 DEF T

\* f[n] is what is left of base after the first n of b steps, each a function.
IsIteration(f, base, F, b) ==
  /\ f[0] = base
  /\ \A n \in 1 .. b : f[n] = F[n][f[n - 1]]

StaysIn(D, F, b) == \A n \in 1 .. b : \A x \in D : F[n][x] \in D

\* Iterating functions on D, the n-th at the n-th step, gives values of D: what a
\* recursive definition by n = 0 and n - 1 asks for exists.
LEMMA IndexedIterationExists ==
  ASSUME NEW D, NEW base \in D, NEW b \in Nat,
         NEW F, StaysIn(D, F, b)
  PROVE  \E f \in [0 .. b -> D] : IsIteration(f, base, F, b)
<1> DEFINE Iterates(f, c) == f[0] = base /\ \A n \in 1 .. c : f[n] = F[n][f[n - 1]]
           S == { c \in Nat : c <= b => \E f \in [0 .. c -> D] : Iterates(f, c) }
<1>1. 0 \in S
  <2>1. [n \in 0 .. 0 |-> base] \in [0 .. 0 -> D] /\ Iterates([n \in 0 .. 0 |-> base], 0)
    OBVIOUS
  <2> QED BY <2>1
<1>2. ASSUME NEW c \in Nat, c \in S PROVE c + 1 \in S
  <2> SUFFICES ASSUME c + 1 <= b PROVE \E f \in [0 .. c + 1 -> D] : Iterates(f, c + 1)
    OBVIOUS
  <2>1. PICK f \in [0 .. c -> D] : Iterates(f, c)
    BY <1>2
  <2> DEFINE g == [n \in 0 .. c + 1 |-> IF n = c + 1 THEN F[c + 1][f[c]] ELSE f[n]]
  <2>2. F[c + 1][f[c]] \in D
    <3>1. c + 1 \in 1 .. b /\ c \in 0 .. c
      OBVIOUS
    <3>2. f[c] \in D
      BY <3>1
    <3> QED BY <3>1, <3>2 DEF StaysIn
  <2>3. g \in [0 .. c + 1 -> D]
    BY <2>2
  <2>4. g[0] = base
    BY <2>1
  <2>5. ASSUME NEW n \in 1 .. c + 1 PROVE g[n] = F[n][g[n - 1]]
    <3>1. CASE n = c + 1
      BY <3>1
    <3>2. CASE n # c + 1
      <4>1. n \in 1 .. c /\ n - 1 \in 0 .. c /\ n - 1 # c + 1
        BY <3>2
      <4>2. g[n] = f[n] /\ g[n - 1] = f[n - 1]
        BY <3>2, <4>1
      <4> QED BY <2>1, <4>1, <4>2
    <3> QED BY <3>1, <3>2
  <2> QED BY <2>3, <2>4, <2>5
<1> HIDE DEF S
<1>3. b \in S
  BY <1>1, <1>2, NatSetInduction
<1> QED BY <1>3 DEF S, IsIteration

\* The same of one function, iterated.
LEMMA IterationExists ==
  ASSUME NEW D, NEW base \in D, NEW F \in [D -> D], NEW b \in Nat
  PROVE  \E f \in [0 .. b -> D] : /\ f[0] = base
                                  /\ \A n \in 1 .. b : f[n] = F[f[n - 1]]
<1> DEFINE G == [n \in 1 .. b |-> F]
<1>1. StaysIn(D, G, b)
  BY DEF StaysIn
<1>2. \A n \in 1 .. b : G[n] = F
  OBVIOUS
<1> HIDE DEF G
<1>3. \E f \in [0 .. b -> D] : IsIteration(f, base, G, b)
  BY <1>1, IndexedIterationExists
<1> QED BY <1>2, <1>3 DEF IsIteration

-----------------------------------------------------------------------------
(* The exclusive or *)

\* Elements are numbers that can be halved.
LEMMA Halves ==
  /\ 0 \in Field /\ 1 \in NonZero
  /\ \A a \in Field : /\ a \in Nat
                      /\ a \div 2 \in Field
                      /\ a = 2 * (a \div 2) + (a % 2)
                      /\ a % 2 \in {0, 1}
                      /\ a > 0 => a \div 2 < a
<1>1. 2^BITS \in Int
  BY BitsAssumption
<1>2. 1 \in 0 .. 2^BITS - 1
  BY TablesAssumption DEF Field, TablesOfField
<1> DEFINE Q == 2^BITS
<1> HIDE DEF Q
<1>3. Field = 0 .. Q - 1 /\ Q \in Int /\ 1 \in 0 .. Q - 1
  BY <1>1, <1>2 DEF Q, Field
<1> QED BY <1>3 DEF NonZero

\* The recursive function that defines it exists.
LEMMA XorDef ==
  \A a, b \in Field :
    xor[a][b] = IF a = 0 THEN b ELSE IF b = 0 THEN a
                ELSE ((a + b) % 2) + 2 * xor[a \div 2][b \div 2]
<1> DEFINE D(n) == { a \in Field : a <= n }
           Rule(f, a) ==
             [b \in Field |-> IF a = 0 THEN b ELSE IF b = 0 THEN a
                              ELSE ((a + b) % 2) + 2 * f[a \div 2][b \div 2]]
           S == { n \in Nat : \E f \in [D(n) -> [Field -> Int]] :
                                \A a \in D(n) : f[a] = Rule(f, a) }
<1>1. 0 \in S
  <2>1. D(0) = {0}
    BY Halves
  <2>2. [b \in Field |-> b] \in [Field -> Int]
    BY Halves
  <2> DEFINE f == [a \in D(0) |-> [b \in Field |-> b]]
  <2>3. f \in [D(0) -> [Field -> Int]]
    BY <2>2
  <2>4. \A a \in D(0) : f[a] = Rule(f, a)
    BY <2>1
  <2> QED BY <2>3, <2>4
<1>2. ASSUME NEW n \in Nat, n \in S PROVE n + 1 \in S
  <2>1. PICK f \in [D(n) -> [Field -> Int]] : \A a \in D(n) : f[a] = Rule(f, a)
    BY <1>2
  <2> DEFINE g == [a \in D(n + 1) |-> IF a <= n THEN f[a] ELSE Rule(f, a)]
  <2>2. \A a \in D(n + 1) : a > 0 => a \div 2 \in D(n)
    BY Halves
  <2>3. \A a \in D(n + 1) : a <= n => a \in D(n)
    OBVIOUS
  <2>4. ASSUME NEW a \in D(n + 1) PROVE Rule(f, a) \in [Field -> Int]
    <3>1. ASSUME NEW b \in Field, a # 0, b # 0 PROVE f[a \div 2][b \div 2] \in Int
      <4>1. a \div 2 \in D(n) /\ b \div 2 \in Field
        BY <2>2, <3>1, Halves
      <4> HIDE DEF D
      <4> QED BY <2>1, <4>1
    <3>2. a \in Nat /\ \A b \in Field : b \in Nat
      BY Halves
    <3> HIDE DEF D
    <3> QED BY <3>1, <3>2
  <2>5. g \in [D(n + 1) -> [Field -> Int]]
    <3> HIDE DEF D, Rule
    <3> QED BY <2>1, <2>3, <2>4
  <2>6. ASSUME NEW a \in D(n + 1) PROVE g[a] = Rule(g, a)
    <3>1. g[a] = Rule(f, a)
      <4> HIDE DEF D, Rule
      <4> QED BY <2>1, <2>3
    <3>2. ASSUME a # 0 PROVE g[a \div 2] = f[a \div 2]
      <4>1. a \div 2 \in D(n) /\ a \div 2 \in D(n + 1) /\ a \div 2 <= n
        BY <2>2, <3>2, Halves
      <4> HIDE DEF D, Rule
      <4> QED BY <4>1
    <3> HIDE DEF D, g
    <3> QED BY <3>1, <3>2
  <2> HIDE DEF D, Rule, g
  <2> QED BY <2>5, <2>6
<1>3. \E f : f = [a \in Field |-> Rule(f, a)]
  <2>1. PICK n \in Nat : \A a \in Field : a <= n
    <3>1. 2^BITS \in Int
      BY BitsAssumption
    <3>2. \A a \in Field : a <= 2^BITS
      BY <3>1 DEF Field
    <3>3. 2^BITS \in Nat
      BY <3>1, <3>2, Halves
    <3> QED BY <3>2, <3>3
  <2>2. Field = D(n)
    BY <2>1
  <2> HIDE DEF S, D, Rule
  <2>3. n \in S
    BY <1>1, <1>2, NatSetInduction
  <2>4. PICK f \in [Field -> [Field -> Int]] : \A a \in Field : f[a] = Rule(f, a)
    BY <2>2, <2>3 DEF S
  <2>5. f = [a \in Field |-> Rule(f, a)]
    BY <2>4
  <2> QED BY <2>5
<1>4. xor = [a \in Field |-> Rule(xor, a)]
  BY <1>3, Zenon DEF xor
<1>5. \A a \in Field : xor[a] = Rule(xor, a)
  BY <1>4
<1> QED BY <1>5

LEMMA XorType == \A a, b \in Field : xor[a][b] \in Field
BY TablesAssumption DEF TablesOfField

LEMMA XorZero == \A a \in Field : xor[0][a] = a /\ xor[a][0] = a
BY XorDef, Halves

\* It is computed bit by bit.
LEMMA XorBits ==
  ASSUME NEW a \in Field, NEW b \in Field
  PROVE  xor[a][b] = ((a + b) % 2) + 2 * xor[a \div 2][b \div 2]
<1>1. a \div 2 \in Field /\ b \div 2 \in Field
  BY Halves
<1>2. CASE a = 0
  <2>1. a \div 2 = 0
    BY <1>2
  <2>2. xor[a][b] = b /\ xor[a \div 2][b \div 2] = b \div 2
    BY <1>1, <1>2, <2>1, XorZero
  <2> QED BY <1>2, <2>2, Halves
<1>3. CASE b = 0
  <2>1. b \div 2 = 0
    BY <1>3
  <2>2. xor[a][b] = a /\ xor[a \div 2][b \div 2] = a \div 2
    BY <1>1, <1>3, <2>1, XorZero
  <2> QED BY <1>3, <2>2, Halves
<1>4. CASE a # 0 /\ b # 0
  BY <1>4, XorDef
<1> QED BY <1>2, <1>3, <1>4

\* What holds of no bits, and of some bits if of all but their last, holds.
LEMMA HalvingInduction ==
  ASSUME NEW T, <<0, 0, 0>> \in T,
         \A a, b, c \in Field : <<a \div 2, b \div 2, c \div 2>> \in T => <<a, b, c>> \in T
  PROVE  \A a, b, c \in Field : <<a, b, c>> \in T
<1> DEFINE S == { n \in Nat : \A a, b, c \in Field :
                                a <= n /\ b <= n /\ c <= n => <<a, b, c>> \in T }
<1>1. 0 \in S
  <2>1. \A a \in Nat : a <= 0 => a = 0
    OBVIOUS
  <2>2. \A a \in Field : a <= 0 => a = 0
    BY <2>1, Halves
  <2> QED BY <2>2
<1>2. ASSUME NEW n \in Nat, n \in S PROVE n + 1 \in S
  <2> SUFFICES ASSUME NEW a \in Field, NEW b \in Field, NEW c \in Field,
                      a <= n + 1, b <= n + 1, c <= n + 1
               PROVE  <<a, b, c>> \in T
    OBVIOUS
  <2>1. \A x \in Field : x <= n + 1 => x \div 2 \in Field /\ x \div 2 <= n
    BY Halves
  <2>2. <<a \div 2, b \div 2, c \div 2>> \in T
    BY <1>2, <2>1
  <2> QED BY <2>2
<1> HIDE DEF S
<1>3. Nat \subseteq S
  BY <1>1, <1>2, NatSetInduction
<1> SUFFICES ASSUME NEW a \in Field, NEW b \in Field, NEW c \in Field
             PROVE  <<a, b, c>> \in T
  OBVIOUS
<1>4. a + b + c \in S /\ a <= a + b + c /\ b <= a + b + c /\ c <= a + b + c
  <2>1. a \in Nat /\ b \in Nat /\ c \in Nat
    BY Halves
  <2>2. a + b + c \in Nat
    BY <2>1
  <2> QED BY <1>3, <2>1, <2>2
<1> QED BY <1>4 DEF S

LEMMA XorSelf == \A a \in Field : xor[a][a] = 0
<1> DEFINE T == { t \in Field \X Field \X Field : xor[t[1]][t[1]] = 0 }
<1>1. <<0, 0, 0>> \in T
  BY XorZero, Halves
<1>2. ASSUME NEW a \in Field, NEW b \in Field, NEW c \in Field,
             <<a \div 2, b \div 2, c \div 2>> \in T
      PROVE  <<a, b, c>> \in T
  <2>1. xor[a \div 2][a \div 2] = 0
    BY <1>2
  <2>2. xor[a][a] = ((a + a) % 2) + 2 * 0
    BY <2>1, XorBits
  <2>3. a \in Nat
    BY Halves
  <2>4. xor[a][a] = 0
    BY <2>2, <2>3
  <2> QED BY <2>4
<1>3. \A a, b, c \in Field : <<a, b, c>> \in T
  <2> HIDE DEF T
  <2> QED BY <1>1, <1>2, HalvingInduction
<1> QED BY <1>3, Halves

LEMMA XorCommutes == \A a, b \in Field : xor[a][b] = xor[b][a]
<1> DEFINE T == { t \in Field \X Field \X Field : xor[t[1]][t[2]] = xor[t[2]][t[1]] }
<1>1. <<0, 0, 0>> \in T
  BY Halves
<1>2. ASSUME NEW a \in Field, NEW b \in Field, NEW c \in Field,
             <<a \div 2, b \div 2, c \div 2>> \in T
      PROVE  <<a, b, c>> \in T
  <2>1. xor[a \div 2][b \div 2] = xor[b \div 2][a \div 2]
    BY <1>2
  <2>2. a \in Nat /\ b \in Nat
    BY Halves
  <2>3. a + b = b + a
    BY <2>2
  <2>4. xor[a][b] = xor[b][a]
    BY <2>1, <2>3, XorBits
  <2> QED BY <2>4
<1>3. \A a, b, c \in Field : <<a, b, c>> \in T
  <2> HIDE DEF T
  <2> QED BY <1>1, <1>2, HalvingInduction
<1> QED BY <1>3, Halves

\* The bits of a sum of three do not depend on their order.
LEMMA XorAssociates == \A a, b, c \in Field : xor[xor[a][b]][c] = xor[a][xor[b][c]]
<1> DEFINE T == { t \in Field \X Field \X Field :
                    xor[xor[t[1]][t[2]]][t[3]] = xor[t[1]][xor[t[2]][t[3]]] }
<1>1. <<0, 0, 0>> \in T
  BY XorZero, Halves
<1>2. ASSUME NEW a \in Field, NEW b \in Field, NEW c \in Field,
             <<a \div 2, b \div 2, c \div 2>> \in T
      PROVE  <<a, b, c>> \in T
  <2> DEFINE x == xor[a][b]
             y == xor[b][c]
             xh == xor[a \div 2][b \div 2]
             yh == xor[b \div 2][c \div 2]
  <2>1. /\ a \div 2 \in Field /\ b \div 2 \in Field /\ c \div 2 \in Field
        /\ a \in Nat /\ b \in Nat /\ c \in Nat
    BY Halves
  <2>2. /\ x \in Field /\ y \in Field /\ xh \in Field /\ yh \in Field
        /\ x \in Nat /\ y \in Nat /\ xh \in Nat /\ yh \in Nat
    BY <2>1, XorType, Halves
  <2>3. x = ((a + b) % 2) + 2 * xh /\ y = ((b + c) % 2) + 2 * yh
    BY <2>1, XorBits
  <2>4. xor[xh][c \div 2] = xor[a \div 2][yh]
    BY <1>2
  <2>5. xor[x][c] = ((x + c) % 2) + 2 * xor[x \div 2][c \div 2]
        /\ xor[a][y] = ((a + y) % 2) + 2 * xor[a \div 2][y \div 2]
    BY <2>1, <2>2, XorBits
  <2> HIDE DEF x, y, xh, yh
  <2>6. x \div 2 = xh /\ y \div 2 = yh /\ (x + c) % 2 = (a + y) % 2
    BY <2>1, <2>2, <2>3
  <2>7. xor[x][c] = xor[a][y]
    BY <2>4, <2>5, <2>6
  <2> QED BY <2>7 DEF x, y
<1>3. \A a, b, c \in Field : <<a, b, c>> \in T
  <2> HIDE DEF T
  <2> QED BY <1>1, <1>2, HalvingInduction
<1> QED BY <1>3

-----------------------------------------------------------------------------
(* The product *)

LEMMA OrderType == Order \in Nat \ {0} /\ Field = 0 .. Order /\ NonZero = 1 .. Order
<1> DEFINE Q == 2^BITS
<1>1. 2^BITS \in Int
  BY BitsAssumption
<1>2. 1 \in 0 .. 2^BITS - 1
  BY TablesAssumption DEF Field, TablesOfField
<1>3. Q \in Int /\ 1 \in 0 .. Q - 1 /\ Order = Q - 1 /\ Field = 0 .. Q - 1
  BY <1>1, <1>2 DEF Order, Field
<1> HIDE DEF Q
<1> QED BY <1>3 DEF NonZero

\* The powers of the generator, of which two turns are the same.
LEMMA Powers ==
  ASSUME NEW n \in 1 .. 2 * Order
  PROVE  /\ atable[n] \in NonZero
         /\ n <= Order => ltable[atable[n]] = n /\ atable[n + Order] = atable[n]
         /\ n > Order => ltable[atable[n]] = n - Order
<1>1. Order \in Nat
  BY OrderType
<1>2. CASE n <= Order
  <2>1. n \in 0 .. 2 * Order /\ n \in 1 .. Order /\ n \in 0 .. Order
    BY <1>1, <1>2
  <2> QED BY <1>1, <1>2, <2>1, TablesAssumption DEF TablesOfField
<1>3. CASE n > Order
  <2>1. n \in 0 .. 2 * Order /\ n - Order \in 1 .. Order /\ n - Order \in 0 .. Order
        /\ (n - Order) + Order = n
    BY <1>1, <1>3
  <2>2. atable[n] = atable[n - Order]
    BY <2>1, TablesAssumption DEF TablesOfField
  <2> QED BY <1>1, <1>3, <2>1, <2>2, TablesAssumption DEF TablesOfField
<1> QED BY <1>1, <1>2, <1>3

LEMMA Logs ==
  ASSUME NEW a \in NonZero
  PROVE  ltable[a] \in 1 .. Order /\ atable[ltable[a]] = a
BY TablesAssumption DEF TablesOfField

LEMMA MulZero == \A a \in Field : gmul(a, 0) = 0 /\ gmul(0, a) = 0
BY DEF gmul

\* A product adds logarithms.
LEMMA MulLogs ==
  ASSUME NEW a \in NonZero, NEW b \in NonZero
  PROVE  /\ gmul(a, b) = atable[ltable[a] + ltable[b]]
         /\ gmul(a, b) \in NonZero
         /\ ltable[gmul(a, b)] = IF ltable[a] + ltable[b] <= Order
                                 THEN ltable[a] + ltable[b]
                                 ELSE ltable[a] + ltable[b] - Order
<1>1. gmul(a, b) = atable[ltable[a] + ltable[b]]
  BY DEF gmul, NonZero
<1>2. ltable[a] \in 1 .. Order /\ ltable[b] \in 1 .. Order /\ Order \in Nat
  BY Logs, OrderType
<1>3. ltable[a] + ltable[b] \in 1 .. 2 * Order
  BY <1>2
<1> QED BY <1>1, <1>2, <1>3, Powers

LEMMA MulType == \A a, b \in Field : gmul(a, b) \in Field
<1> SUFFICES ASSUME NEW a \in Field, NEW b \in Field PROVE gmul(a, b) \in Field
  OBVIOUS
<1>1. CASE a = 0 \/ b = 0
  BY <1>1, MulZero, Halves
<1>2. CASE a # 0 /\ b # 0
  BY <1>2, MulLogs DEF NonZero
<1> QED BY <1>1, <1>2

LEMMA MulOne == \A a \in Field : gmul(1, a) = a
<1> SUFFICES ASSUME NEW a \in Field PROVE gmul(1, a) = a
  OBVIOUS
<1>1. CASE a = 0
  BY <1>1, MulZero, Halves DEF NonZero
<1>2. CASE a # 0
  <2>1. a \in NonZero /\ 1 \in NonZero
    BY <1>2, Halves DEF NonZero
  <2>2. ltable[1] = Order /\ ltable[a] \in 1 .. Order /\ Order \in Nat
    BY <2>1, Logs, OrderType, TablesAssumption DEF TablesOfField
  <2>3. gmul(1, a) = atable[Order + ltable[a]]
    BY <2>1, <2>2, MulLogs
  <2>4. ltable[a] \in 1 .. 2 * Order /\ Order + ltable[a] = ltable[a] + Order
        /\ ltable[a] <= Order
    BY <2>2
  <2> QED BY <2>1, <2>3, <2>4, Powers, Logs
<1> QED BY <1>1, <1>2

LEMMA MulCommutes == \A a, b \in Field : gmul(a, b) = gmul(b, a)
<1> SUFFICES ASSUME NEW a \in Field, NEW b \in Field PROVE gmul(a, b) = gmul(b, a)
  OBVIOUS
<1>1. CASE a = 0 \/ b = 0
  BY <1>1, MulZero
<1>2. CASE a # 0 /\ b # 0
  <2>1. a \in NonZero /\ b \in NonZero
    BY <1>2 DEF NonZero
  <2>2. ltable[a] \in Int /\ ltable[b] \in Int
    BY <2>1, Logs, OrderType
  <2>3. ltable[a] + ltable[b] = ltable[b] + ltable[a]
    BY <2>2
  <2> QED BY <2>1, <2>3, MulLogs
<1> QED BY <1>1, <1>2

\* Elements with the same logarithm are the same.
LEMMA MulAssociates ==
  \A a, b, c \in Field : gmul(gmul(a, b), c) = gmul(a, gmul(b, c))
<1> SUFFICES ASSUME NEW a \in Field, NEW b \in Field, NEW c \in Field
             PROVE  gmul(gmul(a, b), c) = gmul(a, gmul(b, c))
  OBVIOUS
<1>1. CASE a = 0 \/ b = 0 \/ c = 0
  BY <1>1, MulZero, MulType, Halves
<1>2. CASE a # 0 /\ b # 0 /\ c # 0
  <2> DEFINE x == gmul(a, b)
             y == gmul(b, c)
             l == gmul(x, c)
             r == gmul(a, y)
  <2>1. a \in NonZero /\ b \in NonZero /\ c \in NonZero
    BY <1>2 DEF NonZero
  <2>2. x \in NonZero /\ y \in NonZero
    BY <2>1, MulLogs
  <2>3. l \in NonZero /\ r \in NonZero
    BY <2>1, <2>2, MulLogs
  <2> DEFINE la == ltable[a]
             lb == ltable[b]
             lc == ltable[c]
             lx == ltable[x]
             ly == ltable[y]
  <2>4. /\ la \in 1 .. Order /\ lb \in 1 .. Order /\ lc \in 1 .. Order
        /\ Order \in Nat
    BY <2>1, Logs, OrderType
  <2>5. /\ lx = (IF la + lb <= Order THEN la + lb ELSE la + lb - Order)
        /\ ly = (IF lb + lc <= Order THEN lb + lc ELSE lb + lc - Order)
    BY <2>1, MulLogs
  <2>6. /\ ltable[l] = (IF lx + lc <= Order THEN lx + lc ELSE lx + lc - Order)
        /\ ltable[r] = (IF la + ly <= Order THEN la + ly ELSE la + ly - Order)
    BY <2>1, <2>2, MulLogs
  <2> HIDE DEF x, y, l, r, la, lb, lc, lx, ly
  <2>7. ltable[l] = ltable[r]
    BY <2>4, <2>5, <2>6
  <2>8. l = r
    BY <2>3, <2>7, Logs
  <2> QED BY <2>8 DEF l, r, x, y
<1> QED BY <1>1, <1>2

\* Multiplying with a power of the generator is linear, by induction on the power.
LEMMA MulDistributes ==
  \A a, b, c \in Field : gmul(a, xor[b][c]) = xor[gmul(a, b)][gmul(a, c)]
<1> DEFINE Linear(n) ==
             \A b, c \in Field :
               gmul(atable[n], xor[b][c]) = xor[gmul(atable[n], b)][gmul(atable[n], c)]
           S == { n \in Nat : n + 1 <= Order => Linear(n + 1) }
<1>1. Order \in Nat \ {0}
  BY OrderType
<1>2. ASSUME NEW n \in Nat, n + 1 <= Order
      PROVE  atable[n + 1] \in NonZero /\ ltable[atable[n + 1]] = n + 1
  <2>1. n + 1 \in 1 .. 2 * Order
    BY <1>1, <1>2
  <2> QED BY <1>2, <2>1, Powers
<1>3. \A b \in Field : gmul(atable[1], b) = raised(b)
  <2> SUFFICES ASSUME NEW b \in Field PROVE gmul(atable[1], b) = raised(b)
    OBVIOUS
  <2>1. atable[1] \in NonZero /\ ltable[atable[1]] = 1
    BY <1>1, <1>2
  <2>2. CASE b = 0
    BY <2>1, <2>2, MulZero DEF raised, NonZero
  <2>3. CASE b # 0
    <3>1. b \in NonZero
      BY <2>3 DEF NonZero
    <3>2. 1 + ltable[b] = ltable[b] + 1
      BY <3>1, Logs, <1>1
    <3> QED BY <2>1, <2>3, <3>1, <3>2, MulLogs DEF raised
  <2> QED BY <2>2, <2>3
<1>4. Linear(1)
  <2>1. \A b, c \in Field : xor[b][c] \in Field
    BY XorType
  <2> QED BY <1>3, <2>1, TablesAssumption DEF TablesOfField
<1>5. 0 \in S
  BY <1>4
<1>6. ASSUME NEW n \in Nat, n \in S PROVE n + 1 \in S
  <2> SUFFICES ASSUME n + 1 + 1 <= Order PROVE Linear(n + 1 + 1)
    OBVIOUS
  <2> DEFINE g == atable[1]
             p == atable[n + 1]
             q == atable[n + 1 + 1]
  <2>1. n + 1 <= Order /\ Linear(n + 1)
    BY <1>1, <1>6
  <2>2. /\ g \in NonZero /\ ltable[g] = 1
        /\ p \in NonZero /\ ltable[p] = n + 1
        /\ q \in NonZero /\ ltable[q] = n + 1 + 1
    BY <1>1, <1>2, <2>1
  <2>3. gmul(g, p) = q
    <3>1. 1 + (n + 1) = n + 1 + 1
      OBVIOUS
    <3> QED BY <2>2, <3>1, MulLogs
  <2>4. g \in Field /\ p \in Field /\ q \in Field
    BY <2>2 DEF NonZero
  <2>5. /\ \A b, c \in Field : gmul(g, xor[b][c]) = xor[gmul(g, b)][gmul(g, c)]
        /\ \A b, c \in Field : gmul(p, xor[b][c]) = xor[gmul(p, b)][gmul(p, c)]
    BY <1>4, <2>1
  <2> HIDE DEF g, p, q
  <2>6. ASSUME NEW b \in Field, NEW c \in Field
        PROVE  gmul(q, xor[b][c]) = xor[gmul(q, b)][gmul(q, c)]
    <3>1. xor[b][c] \in Field /\ gmul(p, b) \in Field /\ gmul(p, c) \in Field
      BY <2>4, XorType, MulType
    <3>2. \A x \in Field : gmul(q, x) = gmul(g, gmul(p, x))
      BY <2>3, <2>4, MulAssociates
    <3>3. gmul(q, xor[b][c]) = gmul(g, xor[gmul(p, b)][gmul(p, c)])
      BY <2>5, <3>1, <3>2
    <3>4. gmul(g, xor[gmul(p, b)][gmul(p, c)]) = xor[gmul(g, gmul(p, b))][gmul(g, gmul(p, c))]
      BY <2>5, <3>1
    <3> QED BY <3>2, <3>3, <3>4
  <2> QED BY <2>6 DEF q
<1>7. \A n \in 1 .. Order : Linear(n)
  <2> HIDE DEF S, Linear
  <2>1. Nat \subseteq S
    BY <1>5, <1>6, NatSetInduction
  <2>2. ASSUME NEW n \in 1 .. Order PROVE Linear(n)
    <3>1. n - 1 \in Nat /\ (n - 1) + 1 = n /\ n <= Order
      BY <1>1
    <3>2. n - 1 \in S
      BY <2>1, <3>1
    <3> QED BY <3>1, <3>2 DEF S
  <2> QED BY <2>2
<1> SUFFICES ASSUME NEW a \in Field, NEW b \in Field, NEW c \in Field
             PROVE  gmul(a, xor[b][c]) = xor[gmul(a, b)][gmul(a, c)]
  OBVIOUS
<1>8. CASE a = 0
  <2>1. xor[b][c] \in Field /\ 0 \in Field
    BY XorType, Halves
  <2> QED BY <1>8, <2>1, MulZero, XorZero
<1>9. CASE a # 0
  <2>1. a \in NonZero
    BY <1>9 DEF NonZero
  <2>2. ltable[a] \in 1 .. Order /\ atable[ltable[a]] = a
    BY <2>1, Logs
  <2> QED BY <1>7, <2>2
<1> QED BY <1>8, <1>9

-----------------------------------------------------------------------------
(* The quotient *)

inverse(b) == gdiv(1, b)

\* To divide is to multiply with the inverse.
LEMMA DivIsMul ==
  ASSUME NEW b \in NonZero
  PROVE  /\ inverse(b) \in NonZero
         /\ \A a \in Field : gdiv(a, b) = gmul(inverse(b), a)
<1>1. Order \in Nat \ {0} /\ 1 \in NonZero /\ ltable[1] = Order
  BY OrderType, Halves, TablesAssumption DEF TablesOfField
<1>2. ltable[b] \in 1 .. Order
  BY Logs
<1> DEFINE n == Order + Order - ltable[b]
<1>3. inverse(b) = atable[n] /\ n \in 1 .. 2 * Order
  BY <1>1, <1>2 DEF inverse, gdiv, NonZero, Order
<1>4. /\ inverse(b) \in NonZero
      /\ ltable[inverse(b)] = IF n <= Order THEN n ELSE n - Order
  BY <1>1, <1>3, Powers
<1>5. ASSUME NEW a \in Field PROVE gdiv(a, b) = gmul(inverse(b), a)
  <2>1. CASE a = 0
    BY <1>4, <2>1, MulZero DEF gdiv, NonZero
  <2>2. CASE a # 0
    <3>1. a \in NonZero
      BY <2>2 DEF NonZero
    <3>2. ltable[a] \in 1 .. Order
      BY <3>1, Logs
    <3>3. gdiv(a, b) = atable[Order + ltable[a] - ltable[b]]
      BY <2>2 DEF gdiv, Order
    <3>4. gmul(inverse(b), a) = atable[ltable[inverse(b)] + ltable[a]]
      BY <1>4, <3>1, MulLogs
    <3>5. CASE ltable[b] < Order
      <4>1. ltable[inverse(b)] + ltable[a] = Order + ltable[a] - ltable[b]
        BY <1>1, <1>2, <1>4, <3>2, <3>5
      <4> QED BY <3>3, <3>4, <4>1
    <3>6. CASE ltable[b] = Order
      <4>1. /\ ltable[inverse(b)] + ltable[a] = ltable[a] + Order
            /\ Order + ltable[a] - ltable[b] = ltable[a]
            /\ ltable[a] \in 1 .. 2 * Order /\ ltable[a] <= Order
        BY <1>1, <1>2, <1>4, <3>2, <3>6
      <4>2. atable[ltable[a] + Order] = atable[ltable[a]]
        BY <4>1, Powers
      <4> QED BY <3>3, <3>4, <4>1, <4>2
    <3> QED BY <1>1, <1>2, <3>5, <3>6
  <2> QED BY <2>1, <2>2
<1> QED BY <1>4, <1>5

\* An element divided by itself is one.
LEMMA DivSelf == \A b \in NonZero : gdiv(b, b) = 1
<1> SUFFICES ASSUME NEW b \in NonZero PROVE gdiv(b, b) = 1
  OBVIOUS
<1>1. Order \in Nat \ {0} /\ ltable[b] \in 1 .. Order /\ 1 \in NonZero /\ ltable[1] = Order
  BY OrderType, Logs, Halves, TablesAssumption DEF TablesOfField
<1>2. Order + ltable[b] - ltable[b] = Order
  BY <1>1
<1>3. gdiv(b, b) = atable[Order]
  BY <1>2 DEF gdiv, NonZero, Order
<1> QED BY <1>1, <1>3, Logs

-----------------------------------------------------------------------------
(* Rows *)

Row == [coeffs : Vector, data : Field]

\* Rows that stay among themselves, one of them without coefficients.
IsSpace(G) ==
  /\ G \subseteq Row
  /\ EmptyRow \in G
  /\ \A r \in G : isEmptyRow(r) => r = EmptyRow
  /\ \A a, b \in G, c \in Field : rowMulSub(a, b, c) \in G
  /\ \A a \in G, c \in NonZero : rowReduce(a, c) \in G

\* rowMulSub, of one coefficient.
LEMMA RowMulSubAt ==
  ASSUME NEW a \in Row, NEW b \in Row, NEW c \in Field, NEW x \in Column
  PROVE  rowMulSub(a, b, c).coeffs[x] = xor[a.coeffs[x]][gmul(c, b.coeffs[x])]
BY DEF rowMulSub, gsub

LEMMA RowAt ==
  ASSUME NEW a \in Row, NEW x \in Column
  PROVE  a.coeffs[x] \in Field
BY DEF Row, Vector

\* To subtract nothing, or an empty row, changes nothing.
LEMMA SubtractNothing ==
  ASSUME NEW a \in Row, NEW b \in Row, NEW c \in Field, c = 0 \/ b = EmptyRow
  PROVE  rowMulSub(a, b, c) = a
<1>1. a.coeffs \in [Column -> Field] /\ a.data \in Field
      /\ a = [coeffs |-> a.coeffs, data |-> a.data]
  BY DEF Row, Vector
<1>2. \A x \in Field : xor[x][0] = x
  BY XorZero
<1>3. ASSUME NEW x \in Column PROVE gmul(c, b.coeffs[x]) = 0
  <2>1. b.coeffs[x] \in Field /\ (b = EmptyRow => b.coeffs[x] = 0)
    BY RowAt DEF EmptyRow
  <2> QED BY <2>1, MulZero
<1>4. gmul(c, b.data) = 0
  <2>1. b.data \in Field /\ (b = EmptyRow => b.data = 0)
    BY DEF Row, EmptyRow
  <2> QED BY <2>1, MulZero
<1>5. [x \in Column |-> gsub(a.coeffs[x], gmul(c, b.coeffs[x]))] = a.coeffs
  BY <1>1, <1>2, <1>3 DEF gsub
<1>6. gsub(a.data, gmul(c, b.data)) = a.data
  BY <1>1, <1>2, <1>4 DEF gsub
<1> QED BY <1>1, <1>5, <1>6 DEF rowMulSub

-----------------------------------------------------------------------------
(* Elimination *)

\* The i-th step of it.
EliminationStep(matrix, i, r) ==
  IF r.coeffs[i - 1] = 0 \/ isEmptyRow(matrix[i - 1]) THEN r
  ELSE rowMulSub(r, matrix[i - 1], r.coeffs[i - 1])

\* The recursive function that defines it exists, and stays in the space.
LEMMA EliminatedDef ==
  ASSUME NEW G, IsSpace(G), NEW matrix \in [Column -> G], NEW row \in G
  PROVE  /\ Eliminated(matrix, row) \in [0 .. BLKSIZE -> G]
         /\ Eliminated(matrix, row)[0] = row
         /\ \A i \in 1 .. BLKSIZE :
              Eliminated(matrix, row)[i]
                = EliminationStep(matrix, i, Eliminated(matrix, row)[i - 1])
<1> DEFINE F == [i \in 1 .. BLKSIZE |-> [r \in G |-> EliminationStep(matrix, i, r)]]
           Rule(f) == [i \in 0 .. BLKSIZE |->
                        IF i = 0 THEN row
                        ELSE LET r == f[i - 1]
                             IN  IF r.coeffs[i - 1] = 0 \/ isEmptyRow(matrix[i - 1]) THEN r
                                 ELSE rowMulSub(r, matrix[i - 1], r.coeffs[i - 1])]
           E == CHOOSE f : f = Rule(f)
<1>1. BLKSIZE \in Nat
  BY BlksizeAssumption
<1>2. StaysIn(G, F, BLKSIZE)
  <2>1. ASSUME NEW i \in 1 .. BLKSIZE, NEW r \in G PROVE EliminationStep(matrix, i, r) \in G
    <3>1. i - 1 \in Column
      BY <1>1 DEF Column
    <3>2. matrix[i - 1] \in G /\ r.coeffs[i - 1] \in Field
      BY <3>1, RowAt DEF IsSpace
    <3> QED BY <3>2 DEF EliminationStep, IsSpace
  <2> QED BY <2>1 DEF StaysIn
<1>3. PICK f \in [0 .. BLKSIZE -> G] : IsIteration(f, row, F, BLKSIZE)
  <2> HIDE DEF F
  <2> QED BY <1>1, <1>2, IndexedIterationExists
<1>4. ASSUME NEW i \in 1 .. BLKSIZE PROVE f[i] = EliminationStep(matrix, i, f[i - 1])
  <2>1. f[i] = F[i][f[i - 1]] /\ i - 1 \in 0 .. BLKSIZE
    BY <1>1, <1>3 DEF IsIteration
  <2> QED BY <2>1
<1>5. f = Rule(f)
  <2>1. f[0] = row
    BY <1>3 DEF IsIteration
  <2> QED BY <1>1, <1>4, <2>1 DEF EliminationStep
<1>6. Eliminated(matrix, row) = E
  BY DEF Eliminated
<1>7. E = Rule(E)
  <2> HIDE DEF Rule
  <2> QED BY <1>5, Zenon
<1> HIDE DEF E
<1>8. /\ E[0] = row
      /\ \A i \in 1 .. BLKSIZE : E[i] = EliminationStep(matrix, i, E[i - 1])
  BY <1>1, <1>7 DEF EliminationStep
<1>9. E \in [0 .. BLKSIZE -> G]
  <2> DEFINE S == { n \in 0 .. BLKSIZE : E[n] \in G }
  <2>1. 0 \in S
    BY <1>1, <1>8
  <2>2. ASSUME NEW n \in 1 .. BLKSIZE, n - 1 \in S PROVE n \in S
    <3>1. E[n - 1] \in G /\ E[n] = EliminationStep(matrix, n, E[n - 1])
      BY <1>8, <2>2
    <3> QED BY <1>2, <3>1 DEF StaysIn
  <2> HIDE DEF S
  <2>3. \A n \in 0 .. BLKSIZE : n \in S
    BY <1>1, <2>1, <2>2, InductionUpTo
  <2>4. E = [n \in 0 .. BLKSIZE |-> E[n]]
    BY <1>7
  <2> QED BY <2>3, <2>4 DEF S
<1> QED BY <1>6, <1>8, <1>9

\* A row that is not empty starts with a one in its own column.
IsReduced(matrix) ==
  \A x \in Column : ~isEmptyRow(matrix[x]) =>
    /\ matrix[x].coeffs[x] = 1
    /\ \A y \in Column : y < x => matrix[x].coeffs[y] = 0

IsMatrix(G, matrix) == matrix \in [Column -> G] /\ IsReduced(matrix)

LEMMA ColumnIsNat == \A x \in Column : x \in Nat /\ x < BLKSIZE
BY BlksizeAssumption DEF Column

\* The columns passed without a pivot are eliminated.
LEMMA EliminatedZeros ==
  ASSUME NEW G, IsSpace(G), NEW matrix, IsMatrix(G, matrix), NEW row \in G,
         NEW i \in 0 .. BLKSIZE, \A j \in Pivots(matrix, row) : j >= i
  PROVE  \A y \in Column : y < i => Eliminated(matrix, row)[i].coeffs[y] = 0
<1> DEFINE E == Eliminated(matrix, row)
           S == { n \in 0 .. BLKSIZE : n <= i =>
                    \A y \in Column : y < n => E[n].coeffs[y] = 0 }
<1>1. BLKSIZE \in Nat
  BY BlksizeAssumption
<1>2. matrix \in [Column -> G]
  BY DEF IsMatrix
<1>3. /\ E \in [0 .. BLKSIZE -> G]
      /\ \A n \in 1 .. BLKSIZE : E[n] = EliminationStep(matrix, n, E[n - 1])
  BY <1>2, EliminatedDef
<1>4. 0 \in S
  <2>1. \A y \in Column : ~(y < 0)
    BY ColumnIsNat
  <2> QED BY <1>1, <2>1
<1>5. ASSUME NEW n \in 1 .. BLKSIZE, n - 1 \in S PROVE n \in S
  <2> SUFFICES ASSUME n <= i, NEW y \in Column, y < n PROVE E[n].coeffs[y] = 0
    BY DEF S
  <2> DEFINE r == E[n - 1]
             c == r.coeffs[n - 1]
             b == matrix[n - 1]
  <2>1. n - 1 \in Column /\ n - 1 \in 0 .. BLKSIZE /\ y \in Nat
    BY <1>1, ColumnIsNat DEF Column
  <2>2. r \in Row /\ b \in Row /\ c \in Field
    <3>1. r \in G /\ b \in G
      BY <1>2, <1>3, <2>1
    <3> HIDE DEF r, b
    <3> QED BY <2>1, <3>1, RowAt DEF IsSpace
  <2>3. \A x \in Column : x < n - 1 => r.coeffs[x] = 0
    BY <1>5
  <2>4. E[n] = IF c = 0 \/ isEmptyRow(b) THEN r ELSE rowMulSub(r, b, c)
    BY <1>3 DEF EliminationStep
  <2>5. ~(c # 0 /\ isEmptyRow(b))
    <3>1. n - 1 \notin Pivots(matrix, row)
      BY <2>1
    <3> QED BY <2>1, <3>1 DEF Pivots
  <2> HIDE DEF E, r, b
  <2>6. CASE c = 0
    <3>1. y = n - 1 \/ y < n - 1
      BY <2>1
    <3> QED BY <2>3, <2>4, <2>6, <3>1
  <2>7. CASE c # 0 /\ ~isEmptyRow(b)
    <3>1. E[n].coeffs[y] = xor[r.coeffs[y]][gmul(c, b.coeffs[y])]
      BY <2>2, <2>4, <2>7, RowMulSubAt
    <3>2. b.coeffs[n - 1] = 1 /\ \A x \in Column : x < n - 1 => b.coeffs[x] = 0
      BY <2>1, <2>7 DEF IsMatrix, IsReduced, b
    <3>3. CASE y = n - 1
      <4>1. gmul(c, 1) = c
        BY <2>2, MulOne, MulCommutes, Halves DEF NonZero
      <4> QED BY <2>2, <3>1, <3>2, <3>3, <4>1, XorSelf
    <3>4. CASE y < n - 1
      <4>1. r.coeffs[y] = 0 /\ b.coeffs[y] = 0
        BY <2>3, <3>2, <3>4
      <4> QED BY <2>2, <3>1, <4>1, MulZero, XorSelf, Halves
    <3> QED BY <2>1, <3>3, <3>4
  <2> QED BY <2>5, <2>6, <2>7
<1> HIDE DEF S
<1>6. i \in S
  BY <1>1, <1>4, <1>5, InductionUpTo
<1> QED BY <1>6 DEF S

\* A set of numbers has a least.
LEMMA LeastOf ==
  ASSUME NEW S \in SUBSET Nat, S # {}
  PROVE  \E n \in S : \A m \in S : n <= m
<1> SUFFICES ASSUME \A n \in S : \E m \in S : m < n PROVE FALSE
  OBVIOUS
<1> DEFINE T == { n \in Nat : \A m \in S : m > n }
<1>1. 0 \notin S
  OBVIOUS
<1>2. 0 \in T
  BY <1>1
<1>3. ASSUME NEW n \in Nat, n \in T PROVE n + 1 \in T
  <2>1. n + 1 \notin S
    BY <1>3
  <2> QED BY <1>3, <2>1
<1> HIDE DEF T
<1>4. Nat \subseteq T
  BY <1>2, <1>3, NatSetInduction
<1>5. PICK n \in S : TRUE
  OBVIOUS
<1>6. n \in T
  BY <1>4
<1>7. n > n
  BY <1>5, <1>6 DEF T
<1> QED BY <1>5, <1>7

\* A packet that is appended fills an empty row with a row that starts there.
LEMMA AppendFillsRow ==
  ASSUME NEW G, IsSpace(G), NEW matrix, IsMatrix(G, matrix), NEW row \in G,
         isInnovative(matrix, row)
  PROVE  \E index \in Column :
           LET new == appendCodedPayload(matrix, row) IN
           /\ isEmptyRow(matrix[index]) /\ ~isEmptyRow(new[index])
           /\ \A x \in Column : x # index => new[x] = matrix[x]
           /\ IsMatrix(G, new)
<1> DEFINE P == Pivots(matrix, row)
           index == CHOOSE i \in P : \A j \in P : i <= j
           left == Eliminated(matrix, row)[index]
           lead == left.coeffs[index]
           reduced == rowReduce(left, lead)
           new == [matrix EXCEPT ![index] = reduced]
<1>1. P \in SUBSET Nat /\ P # {}
  BY ColumnIsNat DEF isInnovative, Pivots
<1>2. \E i \in P : \A j \in P : i <= j
  <2> HIDE DEF P
  <2> QED BY <1>1, LeastOf
<1>3. index \in P /\ \A j \in P : index <= j
  <2> HIDE DEF P
  <2> QED BY <1>2
<1>4. appendCodedPayload(matrix, row) = new
  BY DEF appendCodedPayload
<1> HIDE DEF index
<1>5. index \in Column /\ lead # 0 /\ isEmptyRow(matrix[index])
  BY <1>3 DEF Pivots
<1>6. index \in 0 .. BLKSIZE /\ index \in Nat
  BY <1>5, ColumnIsNat, BlksizeAssumption
<1>7. \A y \in Column : y < index => left.coeffs[y] = 0
  <2>1. \A j \in Pivots(matrix, row) : j >= index
    BY <1>1, <1>3, <1>6
  <2> QED BY <1>6, <2>1, EliminatedZeros
<1>8. left \in G
  <2>1. Eliminated(matrix, row) \in [0 .. BLKSIZE -> G]
    BY EliminatedDef DEF IsMatrix
  <2> QED BY <1>6, <2>1
<1> HIDE DEF left, P
<1>9. lead \in NonZero /\ left \in Row
  BY <1>5, <1>8, RowAt DEF IsSpace, NonZero
<1> HIDE DEF lead
<1>10. reduced \in G
  BY <1>8, <1>9 DEF IsSpace
<1>11. /\ reduced.coeffs[index] = 1
       /\ \A y \in Column : y < index => reduced.coeffs[y] = 0
  <2>1. \A y \in Column : reduced.coeffs[y] = gdiv(left.coeffs[y], lead)
    BY DEF rowReduce
  <2>2. gdiv(lead, lead) = 1
    BY <1>9, DivSelf
  <2>3. gdiv(0, lead) = 0
    BY DEF gdiv
  <2> QED BY <1>5, <1>7, <2>1, <2>2, <2>3 DEF lead
<1> HIDE DEF reduced
<1>12. ~isEmptyRow(reduced)
  BY <1>5, <1>11 DEF isEmptyRow
<1>13. matrix \in [Column -> G]
  BY DEF IsMatrix
<1>14. /\ new \in [Column -> G] /\ new[index] = reduced
       /\ \A x \in Column : x # index => new[x] = matrix[x]
  BY <1>5, <1>10, <1>13
<1> HIDE DEF new
<1>15. IsReduced(new)
  <2>1. ASSUME NEW x \in Column, ~isEmptyRow(new[x])
        PROVE  new[x].coeffs[x] = 1 /\ \A y \in Column : y < x => new[x].coeffs[y] = 0
    <3>1. CASE x = index
      BY <1>11, <1>14, <3>1
    <3>2. CASE x # index
      BY <1>14, <2>1, <3>2 DEF IsMatrix, IsReduced
    <3> QED BY <3>1, <3>2
  <2> QED BY <2>1 DEF IsReduced
<1>16. IsMatrix(G, new)
  BY <1>14, <1>15 DEF IsMatrix
<1> QED BY <1>4, <1>5, <1>12, <1>14, <1>16

-----------------------------------------------------------------------------
(* The rows that are decoded *)

IsUnit(matrix, j) == isZeroAndOneAt(matrix[j], j)

\* The first of n rows that is not decoded is at f.
IsFirstCoded(matrix, n, f) ==
  /\ f \in 0 .. n
  /\ \A j \in 0 .. f - 1 : IsUnit(matrix, j)
  /\ f < n => ~IsUnit(matrix, f)

LEMMA NDecodedIs ==
  ASSUME NEW matrix, NEW n \in Nat, NEW f \in Nat, IsFirstCoded(matrix, n, f)
  PROVE  nDecoded(matrix, n) = f
<1>1. { i \in 0 .. n - 1 : \A j \in 0 .. i : isZeroAndOneAt(matrix[j], j) } = 0 .. f - 1
  <2>1. f <= n /\ \A j \in 0 .. f - 1 : isZeroAndOneAt(matrix[j], j)
    BY DEF IsFirstCoded, IsUnit
  <2>2. ASSUME NEW i \in 0 .. n - 1, \A j \in 0 .. i : isZeroAndOneAt(matrix[j], j)
        PROVE  i \in 0 .. f - 1
    <3> SUFFICES ASSUME f <= i PROVE FALSE
      BY <2>2
    <3>1. f \in 0 .. i /\ f < n
      BY <2>2
    <3>2. ~isZeroAndOneAt(matrix[f], f)
      BY <3>1 DEF IsFirstCoded, IsUnit
    <3> QED BY <2>2, <3>1, <3>2
  <2>3. ASSUME NEW i \in 0 .. f - 1
        PROVE  i \in 0 .. n - 1 /\ \A j \in 0 .. i : isZeroAndOneAt(matrix[j], j)
    BY <2>1, <2>3
  <2> QED BY <2>2, <2>3
<1>2. Cardinality(0 .. f - 1) = f
  <2>1. Cardinality(0 .. f - 1) = IF 0 > f - 1 THEN 0 ELSE f - 1 - 0 + 1
    BY FS_Interval
  <2> QED BY <2>1
<1> QED BY <1>1, <1>2 DEF nDecoded

LEMMA NDecodedIsFirst ==
  ASSUME NEW matrix, NEW n \in Nat
  PROVE  IsFirstCoded(matrix, n, nDecoded(matrix, n))
<1> DEFINE S == { j \in Nat : j = n \/ (j < n /\ ~IsUnit(matrix, j)) }
<1>1. S \in SUBSET Nat /\ n \in S
  OBVIOUS
<1>2. PICK f \in S : \A m \in S : f <= m
  <2> HIDE DEF S
  <2> QED BY <1>1, LeastOf
<1>3. f \in Nat /\ f <= n
  BY <1>1, <1>2
<1>4. ASSUME NEW j \in 0 .. f - 1 PROVE IsUnit(matrix, j)
  <2>1. j \in Nat /\ j < n /\ j \notin S
    BY <1>2, <1>3
  <2> QED BY <2>1
<1>5. f < n => ~IsUnit(matrix, f)
  BY <1>2
<1>6. IsFirstCoded(matrix, n, f)
  BY <1>3, <1>4, <1>5 DEF IsFirstCoded
<1>7. nDecoded(matrix, n) = f
  BY <1>3, <1>6, NDecodedIs
<1> QED BY <1>6, <1>7

\* Rows that stay decoded stay counted.
LEMMA NDecodedAtLeast ==
  ASSUME NEW matrix, NEW n \in Nat, NEW k \in 0 .. n,
         \A j \in 0 .. k - 1 : IsUnit(matrix, j)
  PROVE  nDecoded(matrix, n) >= k
<1> DEFINE f == nDecoded(matrix, n)
<1>1. f \in 0 .. n /\ (f < n => ~IsUnit(matrix, f))
  BY NDecodedIsFirst DEF IsFirstCoded
<1> HIDE DEF f
<1> SUFFICES ASSUME f < k PROVE FALSE
  BY <1>1 DEF f
<1>2. f \in 0 .. k - 1 /\ f < n
  BY <1>1
<1> QED BY <1>1, <1>2

-----------------------------------------------------------------------------
(* One row is decoded *)

\* The i-th step of it.
DecodeStep(matrix, f, i, r) ==
  IF i - 1 = f THEN r ELSE rowMulSub(r, matrix[i - 1], r.coeffs[i - 1])

IsDecoding(matrix, n, f, R) ==
  /\ R[0] = matrix[f]
  /\ \A i \in 1 .. n : R[i] = DecodeStep(matrix, f, i, R[i - 1])
  /\ decodeRow(matrix, n, f) = [matrix EXCEPT ![f] = R[n]]

LEMMA DecodeRowDef ==
  ASSUME NEW G, IsSpace(G), NEW matrix \in [Column -> G], NEW n \in 0 .. BLKSIZE,
         NEW f \in Column
  PROVE  \E R \in [0 .. n -> G] : IsDecoding(matrix, n, f, R)
<1> DEFINE F == [i \in 1 .. n |-> [r \in G |-> DecodeStep(matrix, f, i, r)]]
           Rule(g) == [i \in 0 .. n |->
                        IF i = 0 THEN matrix[f]
                        ELSE IF i - 1 = f THEN g[i - 1]
                        ELSE rowMulSub(g[i - 1], matrix[i - 1], g[i - 1].coeffs[i - 1])]
           R == CHOOSE g : g = Rule(g)
<1>1. BLKSIZE \in Nat /\ n \in Nat
  BY BlksizeAssumption
<1>2. StaysIn(G, F, n)
  <2>1. ASSUME NEW i \in 1 .. n, NEW r \in G PROVE DecodeStep(matrix, f, i, r) \in G
    <3>1. i - 1 \in Column
      BY <1>1 DEF Column
    <3>2. matrix[i - 1] \in G /\ r.coeffs[i - 1] \in Field
      BY <3>1, RowAt DEF IsSpace
    <3> QED BY <3>2 DEF DecodeStep, IsSpace
  <2> QED BY <2>1 DEF StaysIn
<1>3. PICK g \in [0 .. n -> G] : IsIteration(g, matrix[f], F, n)
  <2>1. matrix[f] \in G
    OBVIOUS
  <2> HIDE DEF F
  <2> QED BY <1>1, <1>2, <2>1, IndexedIterationExists
<1>4. ASSUME NEW i \in 1 .. n PROVE g[i] = DecodeStep(matrix, f, i, g[i - 1])
  <2>1. g[i] = F[i][g[i - 1]] /\ i - 1 \in 0 .. n
    BY <1>1, <1>3 DEF IsIteration
  <2> QED BY <2>1
<1>5. g = Rule(g)
  <2>1. g[0] = matrix[f]
    BY <1>3 DEF IsIteration
  <2> QED BY <1>1, <1>4, <2>1 DEF DecodeStep
<1>6. decodeRow(matrix, n, f) = [matrix EXCEPT ![f] = R[n]]
  BY DEF decodeRow
<1>7. R = Rule(R)
  <2> HIDE DEF Rule
  <2> QED BY <1>5, Zenon
<1> HIDE DEF R
<1>8. /\ R[0] = matrix[f]
      /\ \A i \in 1 .. n : R[i] = DecodeStep(matrix, f, i, R[i - 1])
  BY <1>1, <1>7 DEF DecodeStep
<1>9. R \in [0 .. n -> G]
  <2> DEFINE S == { i \in 0 .. n : R[i] \in G }
  <2>1. 0 \in S
    BY <1>1, <1>8
  <2>2. ASSUME NEW i \in 1 .. n, i - 1 \in S PROVE i \in S
    <3>1. R[i - 1] \in G /\ R[i] = DecodeStep(matrix, f, i, R[i - 1])
      BY <1>8, <2>2
    <3> QED BY <1>2, <3>1 DEF StaysIn
  <2> HIDE DEF S
  <2>3. \A i \in 0 .. n : i \in S
    BY <1>1, <2>1, <2>2, InductionUpTo
  <2>4. R = [i \in 0 .. n |-> R[i]]
    BY <1>7
  <2> QED BY <2>3, <2>4 DEF S
<1> QED BY <1>6, <1>8, <1>9 DEF IsDecoding

\* Row f has nothing left at the columns of other rows of the first n.
IsSettled(matrix, n, f) ==
  \A x \in Column : x < n /\ x # f => matrix[f].coeffs[x] = 0 \/ isEmptyRow(matrix[x])

\* A settled row is not changed by another attempt.
LEMMA DecodeSettled ==
  ASSUME NEW G, IsSpace(G), NEW matrix \in [Column -> G], NEW n \in 0 .. BLKSIZE,
         NEW f \in Column, IsSettled(matrix, n, f)
  PROVE  decodeRow(matrix, n, f) = matrix
<1>1. PICK R \in [0 .. n -> G] : IsDecoding(matrix, n, f, R)
  BY DecodeRowDef
<1>2. BLKSIZE \in Nat /\ n \in Nat
  BY BlksizeAssumption
<1> DEFINE S == { i \in 0 .. n : R[i] = matrix[f] }
<1>3. 0 \in S
  BY <1>1, <1>2 DEF IsDecoding
<1>4. ASSUME NEW i \in 1 .. n, i - 1 \in S PROVE i \in S
  <2>1. R[i - 1] = matrix[f] /\ R[i] = DecodeStep(matrix, f, i, matrix[f])
    BY <1>1, <1>4 DEF IsDecoding
  <2>2. i - 1 \in Column /\ i - 1 < n
    BY <1>2 DEF Column
  <2>3. CASE i - 1 = f
    BY <2>1, <2>3 DEF DecodeStep
  <2>4. CASE i - 1 # f
    <3> DEFINE r == matrix[f]
               b == matrix[i - 1]
               c == r.coeffs[i - 1]
    <3>1. r \in Row /\ b \in Row /\ b \in G
      BY <2>2 DEF IsSpace
    <3>2. c \in Field
      BY <2>2, <3>1, RowAt
    <3>3. c = 0 \/ b = EmptyRow
      BY <2>2, <2>4, <3>1 DEF IsSettled, IsSpace
    <3>4. R[i] = rowMulSub(r, b, c)
      BY <2>1, <2>4 DEF DecodeStep
    <3> HIDE DEF r, b, c
    <3>5. R[i] = r
      BY <3>1, <3>2, <3>3, <3>4, SubtractNothing
    <3> QED BY <3>5 DEF r
  <2> QED BY <2>3, <2>4
<1> HIDE DEF S
<1>5. \A i \in 0 .. n : i \in S
  BY <1>2, <1>3, <1>4, InductionUpTo
<1>6. n \in S
  BY <1>2, <1>5
<1> QED BY <1>1, <1>6 DEF S, IsDecoding

\* How far a row is settled after i steps.
IsSettledTo(matrix, f, i, r) ==
  /\ \A x \in Column : x <= f => r.coeffs[x] = matrix[f].coeffs[x]
  /\ \A x \in Column : x < i /\ x # f => r.coeffs[x] = 0 \/ isEmptyRow(matrix[x])
  /\ isEmptyRow(matrix[f]) => r = EmptyRow

LEMMA DecodeStepSettles ==
  ASSUME NEW G, IsSpace(G), NEW matrix, IsMatrix(G, matrix), NEW n \in 0 .. BLKSIZE,
         NEW f \in Column, NEW i \in 1 .. n, NEW r \in G, IsSettledTo(matrix, f, i - 1, r)
  PROVE  IsSettledTo(matrix, f, i, DecodeStep(matrix, f, i, r))
<1> DEFINE b == matrix[i - 1]
           c == r.coeffs[i - 1]
<1>1. BLKSIZE \in Nat /\ n \in Nat /\ f \in Nat
  BY BlksizeAssumption, ColumnIsNat
<1>2. i - 1 \in Column /\ \A x \in Column : x < i => x = i - 1 \/ x < i - 1
  BY <1>1, ColumnIsNat DEF Column
<1>3. r \in Row /\ b \in Row /\ b \in G
  BY <1>2 DEF IsSpace, IsMatrix
<1>4. c \in Field
  BY <1>2, <1>3, RowAt
<1>5. CASE i - 1 = f
  <2>1. DecodeStep(matrix, f, i, r) = r
    BY <1>5 DEF DecodeStep
  <2> QED BY <1>2, <1>5, <2>1 DEF IsSettledTo
<1>6. CASE i - 1 # f /\ (c = 0 \/ b = EmptyRow)
  <2>1. DecodeStep(matrix, f, i, r) = rowMulSub(r, b, c)
    BY <1>6 DEF DecodeStep
  <2>2. rowMulSub(r, b, c) = r
    <3> HIDE DEF b, c
    <3> QED BY <1>3, <1>4, <1>6, SubtractNothing
  <2>3. c = 0 \/ isEmptyRow(b)
    BY <1>6 DEF isEmptyRow, EmptyRow
  <2> QED BY <1>2, <2>1, <2>2, <2>3 DEF IsSettledTo
<1>7. CASE i - 1 # f /\ c # 0 /\ b # EmptyRow
  <2> DEFINE s == rowMulSub(r, b, c)
  <2>1. DecodeStep(matrix, f, i, r) = s
    BY <1>7 DEF DecodeStep
  <2>2. ~isEmptyRow(matrix[f])
    BY <1>2, <1>7 DEF IsSettledTo, EmptyRow
  <2>3. f < i - 1
    <3> SUFFICES ASSUME i - 1 < f PROVE FALSE
      BY <1>1, <1>7
    <3>1. c = matrix[f].coeffs[i - 1]
      BY <1>1, <1>2 DEF IsSettledTo
    <3>2. matrix[f].coeffs[i - 1] = 0
      BY <1>2, <2>2 DEF IsMatrix, IsReduced
    <3> QED BY <1>7, <3>1, <3>2
  <2>4. /\ b.coeffs[i - 1] = 1
        /\ \A x \in Column : x < i - 1 => b.coeffs[x] = 0
    <3>1. ~isEmptyRow(b)
      BY <1>3, <1>7 DEF IsSpace
    <3> QED BY <1>2, <3>1 DEF IsMatrix, IsReduced
  <2> HIDE DEF b
  <2>5. ASSUME NEW x \in Column, x < i - 1 PROVE s.coeffs[x] = r.coeffs[x]
    <3>1. s.coeffs[x] = xor[r.coeffs[x]][gmul(c, b.coeffs[x])]
      BY <1>3, <1>4, RowMulSubAt
    <3>2. b.coeffs[x] = 0
      BY <2>4, <2>5
    <3> QED BY <1>3, <1>4, <3>1, <3>2, RowAt, MulZero, XorZero
  <2>6. s.coeffs[i - 1] = 0
    <3>1. s.coeffs[i - 1] = xor[c][gmul(c, 1)]
      BY <1>2, <1>3, <1>4, <2>4, RowMulSubAt
    <3>2. gmul(c, 1) = c
      BY <1>4, MulOne, MulCommutes, Halves DEF NonZero
    <3> QED BY <1>4, <3>1, <3>2, XorSelf
  <2> HIDE DEF s
  <2>7. \A x \in Column : x <= f => s.coeffs[x] = matrix[f].coeffs[x]
    <3>1. ASSUME NEW x \in Column, x <= f PROVE s.coeffs[x] = matrix[f].coeffs[x]
      <4>1. x < i - 1
        BY <1>1, <2>3, <3>1, ColumnIsNat
      <4> QED BY <2>5, <3>1, <4>1 DEF IsSettledTo
    <3> QED BY <3>1
  <2>8. \A x \in Column : x < i /\ x # f => s.coeffs[x] = 0 \/ isEmptyRow(matrix[x])
    BY <1>2, <2>5, <2>6 DEF IsSettledTo
  <2> QED BY <2>1, <2>2, <2>7, <2>8 DEF IsSettledTo
<1> QED BY <1>5, <1>6, <1>7

\* An attempt leaves the row settled, the rest as it was, and every row as empty
\* as it was.
LEMMA DecodeRowSettles ==
  ASSUME NEW G, IsSpace(G), NEW matrix, IsMatrix(G, matrix), NEW n \in 0 .. BLKSIZE,
         NEW f \in Column
  PROVE  LET new == decodeRow(matrix, n, f) IN
         /\ IsMatrix(G, new)
         /\ IsSettled(new, n, f)
         /\ \A x \in Column : x # f => new[x] = matrix[x]
         /\ \A x \in Column : isEmptyRow(new[x]) <=> isEmptyRow(matrix[x])
<1>1. PICK R \in [0 .. n -> G] : IsDecoding(matrix, n, f, R)
  BY DecodeRowDef DEF IsMatrix
<1>2. BLKSIZE \in Nat /\ n \in Nat /\ f \in Nat
  BY BlksizeAssumption, ColumnIsNat
<1> DEFINE S == { i \in 0 .. n : IsSettledTo(matrix, f, i, R[i]) }
<1>3. 0 \in S
  <2>1. R[0] = matrix[f] /\ matrix[f] \in G
    BY <1>1 DEF IsDecoding, IsMatrix
  <2>2. \A x \in Column : ~(x < 0)
    BY ColumnIsNat
  <2>3. isEmptyRow(matrix[f]) => matrix[f] = EmptyRow
    BY <2>1 DEF IsSpace
  <2>4. IsSettledTo(matrix, f, 0, matrix[f])
    BY <2>2, <2>3 DEF IsSettledTo
  <2> QED BY <1>2, <2>1, <2>4
<1>4. ASSUME NEW i \in 1 .. n, i - 1 \in S PROVE i \in S
  <2>1. R[i] = DecodeStep(matrix, f, i, R[i - 1]) /\ R[i - 1] \in G
    BY <1>1, <1>4 DEF IsDecoding
  <2>2. IsSettledTo(matrix, f, i - 1, R[i - 1])
    BY <1>4
  <2> QED BY <2>1, <2>2, DecodeStepSettles
<1>5. IsSettledTo(matrix, f, n, R[n]) /\ R[n] \in G
  <2> HIDE DEF S
  <2>1. \A i \in 0 .. n : i \in S
    BY <1>2, <1>3, <1>4, InductionUpTo
  <2>2. n \in S
    BY <1>2, <2>1
  <2> QED BY <2>2 DEF S
<1> DEFINE new == decodeRow(matrix, n, f)
<1>6. /\ new \in [Column -> G] /\ new[f] = R[n]
      /\ \A x \in Column : x # f => new[x] = matrix[x]
  BY <1>1, <1>5 DEF IsDecoding, IsMatrix
<1> HIDE DEF new
<1>7. \A x \in Column : isEmptyRow(new[x]) <=> isEmptyRow(matrix[x])
  <2>1. ASSUME isEmptyRow(matrix[f]) PROVE isEmptyRow(new[f])
    BY <1>5, <1>6, <2>1 DEF IsSettledTo, isEmptyRow, EmptyRow
  <2>2. ASSUME ~isEmptyRow(matrix[f]) PROVE ~isEmptyRow(new[f])
    <3>1. matrix[f].coeffs[f] = 1
      BY <2>2 DEF IsMatrix, IsReduced
    <3>2. new[f].coeffs[f] = 1
      BY <1>2, <1>5, <1>6, <3>1 DEF IsSettledTo
    <3> QED BY <3>2 DEF isEmptyRow
  <2> QED BY <1>6, <2>1, <2>2
<1>8. IsSettled(new, n, f)
  BY <1>5, <1>6, <1>7 DEF IsSettled, IsSettledTo
<1>9. IsReduced(new)
  <2>1. ASSUME NEW x \in Column, ~isEmptyRow(new[x])
        PROVE  new[x].coeffs[x] = 1 /\ \A y \in Column : y < x => new[x].coeffs[y] = 0
    <3>1. /\ matrix[x].coeffs[x] = 1
          /\ \A y \in Column : y < x => matrix[x].coeffs[y] = 0
      BY <1>7, <2>1 DEF IsMatrix, IsReduced
    <3>2. CASE x # f
      BY <1>6, <3>1, <3>2
    <3>3. CASE x = f
      <4>1. \A y \in Column : y <= f => new[f].coeffs[y] = matrix[f].coeffs[y]
        BY <1>5, <1>6 DEF IsSettledTo
      <4>2. \A y \in Column : y < f => y <= f
        BY <1>2, ColumnIsNat
      <4> QED BY <1>2, <3>1, <3>3, <4>1, <4>2
    <3> QED BY <3>2, <3>3
  <2> QED BY <2>1 DEF IsReduced
<1> QED BY <1>6, <1>7, <1>8, <1>9 DEF IsMatrix, new

-----------------------------------------------------------------------------
(* The recursion of extractData *)

\* One call of it.
ExtractStep(matrix, n) ==
  LET f == nDecoded(matrix, n) IN IF f = n THEN matrix ELSE decodeRow(matrix, n, f)

\* What calls leave of the matrix they are given.
SameRows(matrix, new, n) ==
  /\ \A x \in Column : isEmptyRow(new[x]) <=> isEmptyRow(matrix[x])
  /\ nDecoded(new, n) >= nDecoded(matrix, n)
  /\ \A x \in Column : x < nDecoded(matrix, n) => new[x] = matrix[x]

\* A call that does not get another row decoded is the last that changes anything.
LEMMA ExtractStepGoesOn ==
  ASSUME NEW G, IsSpace(G), NEW matrix, IsMatrix(G, matrix), NEW n \in 0 .. BLKSIZE
  PROVE  LET new == ExtractStep(matrix, n) IN
         /\ IsMatrix(G, new)
         /\ SameRows(matrix, new, n)
         /\ nDecoded(new, n) > nDecoded(matrix, n) \/ ExtractStep(new, n) = new
<1> DEFINE f == nDecoded(matrix, n)
           new == ExtractStep(matrix, n)
<1>1. BLKSIZE \in Nat /\ n \in Nat
  BY BlksizeAssumption
<1>2. f \in 0 .. n /\ \A j \in 0 .. f - 1 : IsUnit(matrix, j)
  BY <1>1, NDecodedIsFirst DEF IsFirstCoded
<1>3. CASE f = n
  <2>1. new = matrix
    BY <1>3 DEF ExtractStep
  <2> QED BY <1>1, <1>2, <2>1 DEF SameRows
<1>4. CASE f # n
  <2>1. f \in Column /\ f \in Nat
    BY <1>1, <1>2, <1>4 DEF Column
  <2>2. new = decodeRow(matrix, n, f)
    BY <1>4 DEF ExtractStep
  <2> HIDE DEF new, f
  <2>3. /\ IsMatrix(G, new)
        /\ IsSettled(new, n, f)
        /\ \A x \in Column : x # f => new[x] = matrix[x]
        /\ \A x \in Column : isEmptyRow(new[x]) <=> isEmptyRow(matrix[x])
    BY <2>1, <2>2, DecodeRowSettles
  <2>4. \A j \in 0 .. f - 1 : IsUnit(new, j)
    <3>1. ASSUME NEW j \in 0 .. f - 1 PROVE IsUnit(new, j)
      <4>1. j \in Column /\ j # f /\ IsUnit(matrix, j)
        BY <1>1, <1>2, <2>1, <3>1 DEF Column
      <4> QED BY <2>3, <4>1 DEF IsUnit
    <3> QED BY <3>1
  <2>5. nDecoded(new, n) >= f
    BY <1>1, <1>2, <2>4, NDecodedAtLeast
  <2>6. ASSUME ~(nDecoded(new, n) > f) PROVE ExtractStep(new, n) = new
    <3>1. nDecoded(new, n) \in 0 .. n
      BY <1>1, NDecodedIsFirst DEF IsFirstCoded
    <3>2. nDecoded(new, n) = f
      BY <2>1, <2>5, <2>6, <3>1
    <3>3. decodeRow(new, n, f) = new
      BY <2>1, <2>3, DecodeSettled DEF IsMatrix
    <3> QED BY <3>2, <3>3 DEF ExtractStep
  <2>7. \A x \in Column : x < f => new[x] = matrix[x]
    <3>1. \A x \in Column : x < f => x # f
      BY <2>1, ColumnIsNat
    <3> QED BY <2>3, <3>1
  <2> QED BY <2>3, <2>5, <2>6, <2>7 DEF SameRows, new, f
<1> QED BY <1>3, <1>4

IsExtracting(matrix, n, A) ==
  /\ A[0] = matrix
  /\ \A k \in 1 .. n : A[k] = ExtractStep(A[k - 1], n)
  /\ Extracted(matrix, n) = A[n]

LEMMA ExtractedDef ==
  ASSUME NEW G, IsSpace(G), NEW matrix, IsMatrix(G, matrix), NEW n \in 0 .. BLKSIZE
  PROVE  \E A : IsExtracting(matrix, n, A)
<1> DEFINE D == { m \in [Column -> G] : IsReduced(m) }
           F == [k \in 1 .. n |-> [m \in D |-> ExtractStep(m, n)]]
           Rule(g) == [k \in 0 .. n |->
                        IF k = 0 THEN matrix
                        ELSE LET m == g[k - 1]
                                 f == nDecoded(m, n)
                             IN  IF f = n THEN m ELSE decodeRow(m, n, f)]
           A == CHOOSE g : g = Rule(g)
<1>1. n \in Nat /\ matrix \in D
  BY BlksizeAssumption DEF IsMatrix
<1>2. StaysIn(D, F, n)
  <2>1. ASSUME NEW m \in D PROVE ExtractStep(m, n) \in D
    BY ExtractStepGoesOn DEF IsMatrix
  <2> HIDE DEF D
  <2> QED BY <2>1 DEF StaysIn
<1>3. PICK g \in [0 .. n -> D] : IsIteration(g, matrix, F, n)
  <2> HIDE DEF F, D
  <2> QED BY <1>1, <1>2, IndexedIterationExists
<1> HIDE DEF D
<1>4. ASSUME NEW k \in 1 .. n PROVE g[k] = ExtractStep(g[k - 1], n)
  <2>1. g[k] = F[k][g[k - 1]] /\ k - 1 \in 0 .. n
    BY <1>1, <1>3 DEF IsIteration
  <2> QED BY <2>1
<1>5. g = Rule(g)
  <2>1. g[0] = matrix
    BY <1>3 DEF IsIteration
  <2> QED BY <1>1, <1>4, <2>1 DEF ExtractStep
<1>6. Extracted(matrix, n) = A[n]
  BY DEF Extracted
<1>7. A = Rule(A)
  <2> HIDE DEF Rule
  <2> QED BY <1>5, Zenon
<1> HIDE DEF A
<1>8. /\ A[0] = matrix
      /\ \A k \in 1 .. n : A[k] = ExtractStep(A[k - 1], n)
  BY <1>1, <1>7 DEF ExtractStep
<1> QED BY <1>6, <1>8 DEF IsExtracting

\* The matrix is left as decoded as the calls can get it.
LEMMA ExtractedIsFixed ==
  ASSUME NEW G, IsSpace(G), NEW matrix, IsMatrix(G, matrix), NEW n \in 0 .. BLKSIZE
  PROVE  LET new == Extracted(matrix, n) IN
         /\ IsMatrix(G, new)
         /\ SameRows(matrix, new, n)
         /\ ExtractStep(new, n) = new
<1>1. PICK A : IsExtracting(matrix, n, A)
  BY ExtractedDef
<1> DEFINE Sound(k) == /\ IsMatrix(G, A[k])
                       /\ SameRows(matrix, A[k], n)
                       /\ nDecoded(A[k], n) >= k \/ ExtractStep(A[k], n) = A[k]
           S == { k \in 0 .. n : Sound(k) }
<1>2. n \in Nat
  BY BlksizeAssumption
<1>3. \A m : nDecoded(m, n) \in 0 .. n
  BY <1>2, NDecodedIsFirst DEF IsFirstCoded
<1>4. 0 \in S
  <2>1. A[0] = matrix
    BY <1>1 DEF IsExtracting
  <2> QED BY <1>2, <1>3, <2>1 DEF SameRows
<1>5. ASSUME NEW k \in 1 .. n, k - 1 \in S PROVE k \in S
  <2> DEFINE m == A[k - 1]
             new == A[k]
  <2>1. new = ExtractStep(m, n)
    BY <1>1 DEF IsExtracting
  <2>2. /\ IsMatrix(G, m)
        /\ SameRows(matrix, m, n)
        /\ nDecoded(m, n) >= k - 1 \/ ExtractStep(m, n) = m
    BY <1>5
  <2> HIDE DEF m, new
  <2>3. /\ IsMatrix(G, new)
        /\ SameRows(m, new, n)
        /\ nDecoded(new, n) > nDecoded(m, n) \/ ExtractStep(new, n) = new
    BY <2>1, <2>2, ExtractStepGoesOn
  <2>4. SameRows(matrix, new, n)
    <3>1. /\ nDecoded(m, n) \in Nat /\ nDecoded(new, n) \in Nat
          /\ nDecoded(matrix, n) \in Nat
      BY <1>2, <1>3
    <3> QED BY <2>2, <2>3, <3>1, ColumnIsNat DEF SameRows
  <2>5. nDecoded(new, n) >= k \/ ExtractStep(new, n) = new
    <3>1. nDecoded(m, n) \in Nat /\ nDecoded(new, n) \in Nat
      BY <1>2, <1>3
    <3> QED BY <2>1, <2>2, <2>3, <3>1
  <2> QED BY <2>3, <2>4, <2>5 DEF new
<1> HIDE DEF S
<1>6. \A k \in 0 .. n : k \in S
  BY <1>2, <1>4, <1>5, InductionUpTo
<1>7. Sound(n)
  BY <1>2, <1>6 DEF S
<1>8. ExtractStep(A[n], n) = A[n]
  <2>1. CASE nDecoded(A[n], n) >= n
    <3>1. nDecoded(A[n], n) = n
      BY <1>2, <1>3, <2>1
    <3> QED BY <3>1 DEF ExtractStep
  <2> QED BY <1>7, <2>1
<1> QED BY <1>1, <1>7, <1>8 DEF IsExtracting

LEMMA ExtractedOfFixed ==
  ASSUME NEW G, IsSpace(G), NEW matrix, IsMatrix(G, matrix), NEW n \in 0 .. BLKSIZE,
         ExtractStep(matrix, n) = matrix
  PROVE  Extracted(matrix, n) = matrix
<1>1. PICK A : IsExtracting(matrix, n, A)
  BY ExtractedDef
<1> DEFINE S == { k \in 0 .. n : A[k] = matrix }
<1>2. n \in Nat
  BY BlksizeAssumption
<1>3. 0 \in S
  BY <1>1, <1>2 DEF IsExtracting
<1>4. ASSUME NEW k \in 1 .. n, k - 1 \in S PROVE k \in S
  BY <1>1, <1>4 DEF IsExtracting
<1> HIDE DEF S
<1>5. \A k \in 0 .. n : k \in S
  BY <1>2, <1>3, <1>4, InductionUpTo
<1>6. A[n] = matrix
  BY <1>2, <1>5 DEF S
<1> QED BY <1>1, <1>6 DEF IsExtracting

-----------------------------------------------------------------------------
(* Sums of products *)

\* f[n] is the sum of the first n of b terms.
IsSum(w, b, f) ==
  /\ f \in [0 .. b -> Field]
  /\ f[0] = 0
  /\ \A n \in 1 .. b : f[n] = xor[f[n - 1]][w[n]]

Sums(w, b) == CHOOSE f : IsSum(w, b, f)

Terms(c, d) == [n \in 1 .. BLKSIZE |-> gmul(c[n - 1], d[n - 1])]

\* The combination of the packets d of a block that the coefficients c name.
Dot(c, d) == Sums(Terms(c, d), BLKSIZE)[BLKSIZE]

Data == [Column -> Field]

LEMMA SumExists ==
  ASSUME NEW b \in Nat, NEW w \in [1 .. b -> Field]
  PROVE  IsSum(w, b, Sums(w, b))
<1> DEFINE F == [n \in 1 .. b |-> [s \in Field |-> xor[s][w[n]]]]
<1>1. StaysIn(Field, F, b)
  BY XorType DEF StaysIn
<1>2. PICK f \in [0 .. b -> Field] : IsIteration(f, 0, F, b)
  <2> HIDE DEF F
  <2> QED BY <1>1, Halves, IndexedIterationExists
<1>3. IsSum(w, b, f)
  <2>1. ASSUME NEW n \in 1 .. b PROVE f[n] = xor[f[n - 1]][w[n]]
    <3>1. f[n] = F[n][f[n - 1]] /\ n - 1 \in 0 .. b
      BY <1>2 DEF IsIteration
    <3> QED BY <3>1
  <2> QED BY <1>2, <2>1 DEF IsSum, IsIteration
<1> QED BY <1>3, Zenon DEF Sums

LEMMA SumIsUnique ==
  ASSUME NEW b \in Nat, NEW w, NEW f, NEW g, IsSum(w, b, f), IsSum(w, b, g)
  PROVE  f = g
<1> DEFINE S == { n \in 0 .. b : f[n] = g[n] }
<1>1. 0 \in S
  BY DEF IsSum
<1>2. ASSUME NEW n \in 1 .. b, n - 1 \in S PROVE n \in S
  BY <1>2 DEF IsSum
<1> HIDE DEF S
<1>3. \A n \in 0 .. b : n \in S
  BY <1>1, <1>2, InductionUpTo
<1> QED BY <1>3 DEF S, IsSum

LEMMA SumIs ==
  ASSUME NEW b \in Nat, NEW w \in [1 .. b -> Field], NEW f, IsSum(w, b, f)
  PROVE  Sums(w, b) = f
BY SumExists, SumIsUnique

LEMMA TermsType ==
  ASSUME NEW c \in Vector, NEW d \in Data
  PROVE  /\ Terms(c, d) \in [1 .. BLKSIZE -> Field]
         /\ IsSum(Terms(c, d), BLKSIZE, Sums(Terms(c, d), BLKSIZE))
         /\ Dot(c, d) \in Field
<1>1. BLKSIZE \in Nat
  BY BlksizeAssumption
<1>2. Terms(c, d) \in [1 .. BLKSIZE -> Field]
  <2>1. \A n \in 1 .. BLKSIZE : n - 1 \in Column
    BY <1>1 DEF Column
  <2>2. \A n \in 1 .. BLKSIZE : gmul(c[n - 1], d[n - 1]) \in Field
    BY <2>1, MulType DEF Vector, Data
  <2> QED BY <2>2 DEF Terms
<1>3. IsSum(Terms(c, d), BLKSIZE, Sums(Terms(c, d), BLKSIZE))
  BY <1>1, <1>2, SumExists
<1> QED BY <1>1, <1>2, <1>3 DEF IsSum, Dot

\* (a + b) + (c + d), reordered.
LEMMA XorReorders ==
  ASSUME NEW a \in Field, NEW b \in Field, NEW c \in Field, NEW d \in Field
  PROVE  xor[xor[a][b]][xor[c][d]] = xor[xor[a][c]][xor[b][d]]
<1>1. xor[c][d] \in Field /\ xor[b][d] \in Field
  BY XorType
<1>2. xor[xor[a][b]][xor[c][d]] = xor[a][xor[b][xor[c][d]]]
  BY <1>1, XorAssociates
<1>3. xor[b][xor[c][d]] = xor[xor[b][c]][d]
  BY XorAssociates
<1>4. xor[xor[b][c]][d] = xor[xor[c][b]][d]
  BY XorCommutes
<1>5. xor[xor[c][b]][d] = xor[c][xor[b][d]]
  BY XorAssociates
<1>6. xor[a][xor[c][xor[b][d]]] = xor[xor[a][c]][xor[b][d]]
  <2>1. \A e \in Field : xor[a][xor[c][e]] = xor[xor[a][c]][e]
    BY XorAssociates
  <2> QED BY <1>1, <2>1
<1> QED BY <1>2, <1>3, <1>4, <1>5, <1>6

\* A combination is linear in its coefficients.
LEMMA DotSubtracts ==
  ASSUME NEW a \in Vector, NEW b \in Vector, NEW c \in Field, NEW d \in Data
  PROVE  LET s == [x \in Column |-> gsub(a[x], gmul(c, b[x]))] IN
         s \in Vector /\ Dot(s, d) = gsub(Dot(a, d), gmul(c, Dot(b, d)))
<1> DEFINE s == [x \in Column |-> gsub(a[x], gmul(c, b[x]))]
           v == Terms(a, d)
           w == Terms(b, d)
           f == Sums(v, BLKSIZE)
           g == Sums(w, BLKSIZE)
           h == [n \in 0 .. BLKSIZE |-> xor[f[n]][gmul(c, g[n])]]
<1>1. BLKSIZE \in Nat
  BY BlksizeAssumption
<1>2. /\ v \in [1 .. BLKSIZE -> Field] /\ IsSum(v, BLKSIZE, f)
      /\ w \in [1 .. BLKSIZE -> Field] /\ IsSum(w, BLKSIZE, g)
  BY TermsType
<1>3. s \in Vector
  BY MulType, XorType DEF Vector, gsub
<1>4. ASSUME NEW n \in 1 .. BLKSIZE
      PROVE  Terms(s, d)[n] = xor[v[n]][gmul(c, w[n])]
  <2> DEFINE x == n - 1
  <2>1. x \in Column
    BY <1>1 DEF Column
  <2> HIDE DEF x
  <2>2. a[x] \in Field /\ b[x] \in Field /\ d[x] \in Field
    BY <2>1 DEF Vector, Data
  <2>3. gmul(xor[a[x]][gmul(c, b[x])], d[x])
          = xor[gmul(a[x], d[x])][gmul(gmul(c, b[x]), d[x])]
    <3> DEFINE p == gmul(c, b[x])
    <3>1. p \in Field
      BY <2>2, MulType
    <3> HIDE DEF p
    <3>2. xor[a[x]][p] \in Field
      BY <2>2, <3>1, XorType
    <3>3. gmul(xor[a[x]][p], d[x]) = gmul(d[x], xor[a[x]][p])
      BY <2>2, <3>2, MulCommutes
    <3>4. gmul(d[x], xor[a[x]][p]) = xor[gmul(d[x], a[x])][gmul(d[x], p)]
      BY <2>2, <3>1, MulDistributes
    <3>5. gmul(d[x], a[x]) = gmul(a[x], d[x]) /\ gmul(d[x], p) = gmul(p, d[x])
      BY <2>2, <3>1, MulCommutes
    <3> QED BY <3>3, <3>4, <3>5 DEF p
  <2>4. gmul(gmul(c, b[x]), d[x]) = gmul(c, gmul(b[x], d[x]))
    BY <2>2, MulAssociates
  <2>5. s[x] = xor[a[x]][gmul(c, b[x])]
    BY <2>1 DEF gsub
  <2> HIDE DEF s
  <2>6. /\ Terms(s, d)[n] = gmul(s[x], d[x])
        /\ v[n] = gmul(a[x], d[x])
        /\ w[n] = gmul(b[x], d[x])
    BY DEF Terms, x
  <2> QED BY <2>3, <2>4, <2>5, <2>6
<1> HIDE DEF s, v, w, f, g
<1>5. IsSum(Terms(s, d), BLKSIZE, h)
  <2>1. ASSUME NEW n \in 0 .. BLKSIZE PROVE f[n] \in Field /\ g[n] \in Field
    BY <1>2 DEF IsSum
  <2>2. h \in [0 .. BLKSIZE -> Field]
    BY <2>1, MulType, XorType
  <2>3. h[0] = 0
    BY <1>1, <1>2, MulZero, XorZero, Halves DEF IsSum
  <2>4. ASSUME NEW n \in 1 .. BLKSIZE PROVE h[n] = xor[h[n - 1]][Terms(s, d)[n]]
    <3>1. n - 1 \in 0 .. BLKSIZE /\ n \in 0 .. BLKSIZE
      BY <1>1
    <3>2. f[n] = xor[f[n - 1]][v[n]] /\ g[n] = xor[g[n - 1]][w[n]]
      BY <1>2 DEF IsSum
    <3>3. v[n] \in Field /\ w[n] \in Field
      BY <1>2
    <3>4. gmul(c, g[n]) = xor[gmul(c, g[n - 1])][gmul(c, w[n])]
      BY <2>1, <3>1, <3>2, <3>3, MulDistributes
    <3>5. xor[xor[f[n - 1]][v[n]]][xor[gmul(c, g[n - 1])][gmul(c, w[n])]]
            = xor[xor[f[n - 1]][gmul(c, g[n - 1])]][xor[v[n]][gmul(c, w[n])]]
      <4>1. f[n - 1] \in Field /\ g[n - 1] \in Field
        BY <2>1, <3>1
      <4>2. gmul(c, g[n - 1]) \in Field /\ gmul(c, w[n]) \in Field
        BY <3>3, <4>1, MulType
      <4>3. \A p, q, r, t \in Field :
              xor[xor[p][q]][xor[r][t]] = xor[xor[p][r]][xor[q][t]]
        BY XorReorders
      <4> DEFINE p == f[n - 1]
                 q == v[n]
                 r == gmul(c, g[n - 1])
                 t == gmul(c, w[n])
      <4>4. p \in Field /\ q \in Field /\ r \in Field /\ t \in Field
        BY <3>3, <4>1, <4>2
      <4> HIDE DEF h, p, q, r, t
      <4>5. xor[xor[p][q]][xor[r][t]] = xor[xor[p][r]][xor[q][t]]
        BY <4>3, <4>4
      <4> QED BY <4>5, Zenon DEF p, q, r, t
    <3>6. h[n] = xor[f[n]][gmul(c, g[n])] /\ h[n - 1] = xor[f[n - 1]][gmul(c, g[n - 1])]
      BY <3>1
    <3> QED BY <1>4, <3>2, <3>4, <3>5, <3>6
  <2> QED BY <2>2, <2>3, <2>4 DEF IsSum
<1>6. Sums(Terms(s, d), BLKSIZE) = h
  <2> HIDE DEF h
  <2> QED BY <1>1, <1>3, <1>5, SumIs, TermsType
<1>7. Dot(s, d) = xor[f[BLKSIZE]][gmul(c, g[BLKSIZE])]
  BY <1>1, <1>6 DEF Dot
<1>8. Dot(a, d) = f[BLKSIZE] /\ Dot(b, d) = g[BLKSIZE]
  BY DEF Dot, f, g, v, w
<1>9. Dot(s, d) = gsub(Dot(a, d), gmul(c, Dot(b, d)))
  BY <1>7, <1>8 DEF gsub
<1> QED BY <1>3, <1>9 DEF s

\* A combination only depends on the packets its coefficients name.
LEMMA DotAgrees ==
  ASSUME NEW c, NEW d, NEW e, \A x \in Column : gmul(c[x], d[x]) = gmul(c[x], e[x])
  PROVE  Dot(c, d) = Dot(c, e)
<1>1. \A n \in 1 .. BLKSIZE : n - 1 \in Column
  BY BlksizeAssumption DEF Column
<1>2. Terms(c, d) = Terms(c, e)
  BY <1>1 DEF Terms
<1> QED BY <1>2 DEF Dot

LEMMA DotZero ==
  ASSUME NEW c \in Vector, NEW d \in Data, \A x \in Column : c[x] = 0
  PROVE  Dot(c, d) = 0
<1> DEFINE w == Terms(c, d)
           f == [n \in 0 .. BLKSIZE |-> 0]
<1>1. BLKSIZE \in Nat /\ 0 \in Field
  BY BlksizeAssumption, Halves
<1>2. w \in [1 .. BLKSIZE -> Field]
  BY TermsType
<1>3. ASSUME NEW n \in 1 .. BLKSIZE PROVE w[n] = 0
  <2>1. n - 1 \in Column
    BY <1>1 DEF Column
  <2>2. c[n - 1] = 0 /\ d[n - 1] \in Field
    BY <2>1 DEF Data
  <2> QED BY <2>2, MulZero DEF Terms
<1> HIDE DEF w
<1>4. IsSum(w, BLKSIZE, f)
  <2>1. f \in [0 .. BLKSIZE -> Field] /\ f[0] = 0
    BY <1>1
  <2>2. ASSUME NEW n \in 1 .. BLKSIZE PROVE f[n] = xor[f[n - 1]][w[n]]
    <3>1. n - 1 \in 0 .. BLKSIZE /\ n \in 0 .. BLKSIZE
      BY <1>1
    <3>2. xor[0][0] = 0
      BY <1>1, XorZero
    <3> QED BY <1>3, <3>1, <3>2
  <2> QED BY <2>1, <2>2 DEF IsSum
<1>5. Sums(w, BLKSIZE) = f
  <2> HIDE DEF f
  <2> QED BY <1>1, <1>2, <1>4, SumIs
<1> QED BY <1>1, <1>5 DEF Dot, w

\* A unit vector names one packet.
LEMMA DotUnit ==
  ASSUME NEW c \in Vector, NEW d \in Data, NEW x \in Column,
         \A y \in Column : c[y] = IF y = x THEN 1 ELSE 0
  PROVE  Dot(c, d) = d[x]
<1> DEFINE w == Terms(c, d)
           f == [n \in 0 .. BLKSIZE |-> IF n <= x THEN 0 ELSE d[x]]
<1>1. BLKSIZE \in Nat /\ 0 \in Field /\ d[x] \in Field /\ x \in Nat /\ x < BLKSIZE
  BY BlksizeAssumption, Halves, ColumnIsNat DEF Data
<1>2. w \in [1 .. BLKSIZE -> Field]
  BY TermsType
<1>3. ASSUME NEW n \in 1 .. BLKSIZE PROVE w[n] = IF n - 1 = x THEN d[x] ELSE 0
  <2>1. n - 1 \in Column
    BY <1>1 DEF Column
  <2>2. c[n - 1] = (IF n - 1 = x THEN 1 ELSE 0) /\ d[n - 1] \in Field
    BY <2>1 DEF Data
  <2>3. w[n] = gmul(c[n - 1], d[n - 1])
    BY DEF Terms
  <2> QED BY <2>2, <2>3, MulZero, MulOne
<1> HIDE DEF w
<1>4. IsSum(w, BLKSIZE, f)
  <2>1. f \in [0 .. BLKSIZE -> Field] /\ f[0] = 0
    BY <1>1
  <2>2. ASSUME NEW n \in 1 .. BLKSIZE PROVE f[n] = xor[f[n - 1]][w[n]]
    <3>1. n - 1 \in 0 .. BLKSIZE /\ n \in 0 .. BLKSIZE
      BY <1>1
    <3>2. xor[0][0] = 0 /\ xor[0][d[x]] = d[x] /\ xor[d[x]][0] = d[x]
      BY <1>1, XorZero
    <3>3. CASE n <= x
      <4>1. f[n] = 0 /\ f[n - 1] = 0 /\ w[n] = 0
        BY <1>1, <1>3, <3>1, <3>3
      <4> QED BY <3>2, <4>1
    <3>4. CASE n - 1 = x
      <4>1. f[n] = d[x] /\ f[n - 1] = 0 /\ w[n] = d[x]
        BY <1>1, <1>3, <3>1, <3>4
      <4> QED BY <3>2, <4>1
    <3>5. CASE n - 1 > x
      <4>1. f[n] = d[x] /\ f[n - 1] = d[x] /\ w[n] = 0
        BY <1>1, <1>3, <3>1, <3>5
      <4> QED BY <3>2, <4>1
    <3> QED BY <1>1, <3>3, <3>4, <3>5
  <2> QED BY <2>1, <2>2 DEF IsSum
<1>5. Sums(w, BLKSIZE) = f
  <2> HIDE DEF f
  <2> QED BY <1>1, <1>2, <1>4, SumIs
<1>6. f[BLKSIZE] = d[x]
  BY <1>1
<1> QED BY <1>5, <1>6 DEF Dot, w

LEMMA DotDivided ==
  ASSUME NEW a \in Vector, NEW c \in NonZero, NEW d \in Data
  PROVE  LET s == [x \in Column |-> gdiv(a[x], c)] IN
         s \in Vector /\ Dot(s, d) = gdiv(Dot(a, d), c)
<1> DEFINE zero == [x \in Column |-> 0]
           s == [x \in Column |-> gdiv(a[x], c)]
           t == [x \in Column |-> gsub(zero[x], gmul(inverse(c), a[x]))]
<1>1. zero \in Vector /\ inverse(c) \in Field
  BY Halves, DivIsMul DEF Vector, NonZero
<1>2. ASSUME NEW e \in Field PROVE gdiv(e, c) = gsub(0, gmul(inverse(c), e))
  <2>1. gmul(inverse(c), e) \in Field
    BY <1>1, MulType
  <2> QED BY <2>1, DivIsMul, XorZero DEF gsub
<1>3. s = t
  <2>1. \A x \in Column : a[x] \in Field
    BY DEF Vector
  <2> QED BY <1>2, <2>1
<1>4. t \in Vector /\ Dot(t, d) = gsub(Dot(zero, d), gmul(inverse(c), Dot(a, d)))
  <2> HIDE DEF zero
  <2> QED BY <1>1, DotSubtracts
<1>5. Dot(zero, d) = 0
  <2>1. \A x \in Column : zero[x] = 0
    OBVIOUS
  <2> HIDE DEF zero
  <2> QED BY <1>1, <2>1, DotZero
<1>6. Dot(a, d) \in Field
  BY TermsType
<1> HIDE DEF s, t, zero
<1>7. Dot(s, d) = gdiv(Dot(a, d), c)
  BY <1>2, <1>3, <1>4, <1>5, <1>6
<1> QED BY <1>3, <1>4, <1>7 DEF s

-----------------------------------------------------------------------------
(* Coded packets *)

\* What sendFromBlock computes is the combination its coefficients name.
LEMMA MMulIsDot ==
  ASSUME NEW L \in 0 .. BLKSIZE, NEW packets \in [1 .. L -> Field], NEW c \in Vector,
         NEW d \in Data, \A x \in Column : x < L => d[x] = packets[x + 1]
  PROVE  mMul(c, packets) = Dot([x \in Column |-> IF x < L THEN c[x] ELSE 0], d)
<1> DEFINE v == [n \in 1 .. L |-> gmul(c[n - 1], packets[n])]
           g == Sums(v, L)
           Rule(f) == [n \in 0 .. Len(packets) |->
                        IF n = 0 THEN 0
                        ELSE gadd(f[n - 1], gmul(c[n - 1], packets[n]))]
           E == CHOOSE f : f = Rule(f)
           s == [x \in Column |-> IF x < L THEN c[x] ELSE 0]
           w == Terms(s, d)
           h == [n \in 0 .. BLKSIZE |-> IF n <= L THEN g[n] ELSE g[L]]
<1>1. BLKSIZE \in Nat /\ L \in Nat /\ 0 \in Field /\ Len(packets) = L
  BY BlksizeAssumption, Halves
<1>2. \A n \in 1 .. L : n - 1 \in Column
  BY <1>1 DEF Column
<1>3. v \in [1 .. L -> Field]
  BY <1>2, MulType DEF Vector
<1>4. IsSum(v, L, g)
  <2> HIDE DEF v
  <2> QED BY <1>1, <1>3, SumExists
<1> HIDE DEF g
<1>5. mMul(c, packets) = g[L]
  <2>1. g = Rule(g)
    BY <1>1, <1>4 DEF IsSum, gadd
  <2>2. E = Rule(E)
    <3> HIDE DEF Rule
    <3> QED BY <2>1, Zenon
  <2>3. mMul(c, packets) = E[L]
    BY <1>1 DEF mMul
  <2> HIDE DEF E
  <2>4. E[0] = 0 /\ \A n \in 1 .. L : E[n] = xor[E[n - 1]][v[n]]
    BY <1>1, <2>2 DEF gadd
  <2> DEFINE S == { n \in 0 .. L : E[n] = g[n] }
  <2>5. 0 \in S
    BY <1>1, <1>4, <2>4 DEF IsSum
  <2>6. ASSUME NEW n \in 1 .. L, n - 1 \in S PROVE n \in S
    <3> HIDE DEF v
    <3> QED BY <1>4, <2>4, <2>6 DEF IsSum
  <2> HIDE DEF S
  <2>7. \A n \in 0 .. L : n \in S
    BY <1>1, <2>5, <2>6, InductionUpTo
  <2>8. E[L] = g[L]
    BY <1>1, <2>7 DEF S
  <2> QED BY <2>3, <2>8
<1>6. s \in Vector
  BY <1>1 DEF Vector
<1>7. w \in [1 .. BLKSIZE -> Field]
  <2> HIDE DEF s
  <2> QED BY <1>6, TermsType
<1>8. ASSUME NEW n \in 1 .. BLKSIZE PROVE w[n] = IF n <= L THEN v[n] ELSE 0
  <2> DEFINE x == n - 1
  <2>1. x \in Column /\ x + 1 = n /\ (n <= L <=> x < L)
    BY <1>1 DEF Column
  <2>2. w[n] = gmul(s[x], d[x]) /\ d[x] \in Field
    BY <2>1 DEF Terms, Data
  <2> HIDE DEF x
  <2>3. CASE n <= L
    <3>1. s[x] = c[x] /\ d[x] = packets[n]
      BY <2>1, <2>3
    <3>2. v[n] = gmul(c[x], packets[n])
      BY <1>1, <2>3 DEF x
    <3> HIDE DEF s, v, w
    <3> QED BY <2>2, <2>3, <3>1, <3>2
  <2>4. CASE ~(n <= L)
    <3>1. s[x] = 0
      BY <2>1, <2>4
    <3> HIDE DEF s, v, w
    <3> QED BY <2>2, <2>4, <3>1, MulZero
  <2> QED BY <2>3, <2>4
<1> HIDE DEF v, w
<1>9. IsSum(w, BLKSIZE, h)
  <2>1. \A n \in 0 .. L : g[n] \in Field
    BY <1>4 DEF IsSum
  <2>2. h \in [0 .. BLKSIZE -> Field] /\ h[0] = 0
    BY <1>1, <1>4, <2>1 DEF IsSum
  <2>3. ASSUME NEW n \in 1 .. BLKSIZE PROVE h[n] = xor[h[n - 1]][w[n]]
    <3>1. n - 1 \in 0 .. BLKSIZE /\ n \in 0 .. BLKSIZE
      BY <1>1
    <3>2. CASE n <= L
      <4>1. h[n] = g[n] /\ h[n - 1] = g[n - 1] /\ w[n] = v[n]
        BY <1>1, <1>8, <3>1, <3>2
      <4>2. g[n] = xor[g[n - 1]][v[n]]
        BY <1>1, <1>4, <3>2 DEF IsSum
      <4> QED BY <4>1, <4>2
    <3>3. CASE n > L
      <4>1. h[n] = g[L] /\ h[n - 1] = g[L] /\ w[n] = 0
        BY <1>1, <1>8, <3>1, <3>3
      <4> QED BY <1>1, <2>1, <4>1, XorZero
    <3> QED BY <1>1, <3>2, <3>3
  <2> QED BY <2>2, <2>3 DEF IsSum
<1>10. Sums(w, BLKSIZE) = h
  <2> HIDE DEF h
  <2> QED BY <1>1, <1>7, <1>9, SumIs
<1>11. h[BLKSIZE] = g[L]
  BY <1>1
<1> HIDE DEF h
<1> QED BY <1>5, <1>10, <1>11 DEF Dot, w

-----------------------------------------------------------------------------
(* The true equations of a block *)

\* The rows that hold what their coefficients name of the first m packets of d.
TrueRows(d, m) ==
  { r \in Row : /\ r.data = Dot(r.coeffs, d)
                /\ \A x \in Column : x >= m => r.coeffs[x] = 0 }

LEMMA TrueRowsAreSpace ==
  ASSUME NEW d \in Data, NEW m \in Int
  PROVE  IsSpace(TrueRows(d, m))
<1> DEFINE G == TrueRows(d, m)
<1>1. G \subseteq Row
  BY DEF TrueRows
<1>2. EmptyRow \in G
  <2>1. EmptyRow.coeffs \in Vector /\ EmptyRow \in Row
    BY Halves DEF EmptyRow, Vector, Row
  <2>2. \A x \in Column : EmptyRow.coeffs[x] = 0
    BY DEF EmptyRow
  <2>3. Dot(EmptyRow.coeffs, d) = 0
    BY <2>1, <2>2, DotZero
  <2>4. EmptyRow.data = 0
    BY DEF EmptyRow
  <2> QED BY <2>1, <2>2, <2>3, <2>4 DEF TrueRows
<1>3. ASSUME NEW r \in G, isEmptyRow(r) PROVE r = EmptyRow
  <2>1. r.coeffs \in Vector /\ \A x \in Column : r.coeffs[x] = 0
    BY <1>1, <1>3 DEF isEmptyRow, Row
  <2>2. r.data = 0
    BY <2>1, DotZero DEF TrueRows
  <2>3. r.coeffs = [x \in Column |-> 0]
    BY <2>1 DEF Vector
  <2>4. r = [coeffs |-> r.coeffs, data |-> r.data]
    BY <1>1 DEF Row
  <2> QED BY <2>2, <2>3, <2>4 DEF EmptyRow
<1>4. ASSUME NEW a \in G, NEW b \in G, NEW c \in Field PROVE rowMulSub(a, b, c) \in G
  <2> DEFINE s == [x \in Column |-> gsub(a.coeffs[x], gmul(c, b.coeffs[x]))]
             t == gsub(a.data, gmul(c, b.data))
  <2>1. /\ a.coeffs \in Vector /\ a.data = Dot(a.coeffs, d) /\ a.data \in Field
        /\ b.coeffs \in Vector /\ b.data = Dot(b.coeffs, d) /\ b.data \in Field
        /\ \A x \in Column : x >= m => a.coeffs[x] = 0 /\ b.coeffs[x] = 0
    BY DEF TrueRows, Row
  <2>2. s \in Vector /\ Dot(s, d) = t
    BY <2>1, DotSubtracts
  <2>3. t \in Field
    BY <2>1, MulType, XorType DEF gsub
  <2>4. ASSUME NEW x \in Column, x >= m PROVE s[x] = 0
    <3>1. a.coeffs[x] = 0 /\ b.coeffs[x] = 0
      BY <2>1, <2>4
    <3> QED BY <3>1, MulZero, XorZero, Halves DEF gsub
  <2>5. rowMulSub(a, b, c) = [coeffs |-> s, data |-> t]
    BY DEF rowMulSub
  <2> HIDE DEF s, t
  <2> QED BY <2>2, <2>3, <2>4, <2>5 DEF TrueRows, Row
<1>5. ASSUME NEW a \in G, NEW c \in NonZero PROVE rowReduce(a, c) \in G
  <2> DEFINE s == [x \in Column |-> gdiv(a.coeffs[x], c)]
             t == gdiv(a.data, c)
  <2>1. /\ a.coeffs \in Vector /\ a.data = Dot(a.coeffs, d) /\ a.data \in Field
        /\ \A x \in Column : x >= m => a.coeffs[x] = 0
    BY DEF TrueRows, Row
  <2>2. s \in Vector /\ Dot(s, d) = t
    BY <2>1, DotDivided
  <2>3. t \in Field
    <3>1. t = gmul(inverse(c), a.data) /\ inverse(c) \in Field
      BY <2>1, DivIsMul DEF NonZero
    <3> QED BY <2>1, <3>1, MulType
  <2>4. \A x \in Column : x >= m => s[x] = 0
    BY <2>1 DEF gdiv
  <2>5. rowReduce(a, c) = [coeffs |-> s, data |-> t]
    BY DEF rowReduce
  <2> HIDE DEF s, t
  <2> QED BY <2>2, <2>3, <2>4, <2>5 DEF TrueRows, Row
<1> HIDE DEF G
<1>6. IsSpace(G)
  BY <1>1, <1>2, <1>3, <1>4, <1>5 DEF IsSpace
<1> QED BY <1>6 DEF G

\* More packets of the block make more equations true.
LEMMA TrueRowsGrow ==
  ASSUME NEW d, NEW m \in Int, NEW k \in Int, m <= k
  PROVE  TrueRows(d, m) \subseteq TrueRows(d, k)
<1>1. \A x \in Column : x >= k => x >= m
  BY ColumnIsNat
<1> QED BY <1>1 DEF TrueRows

\* A decoded row is a packet.
LEMMA UnitIsPacket ==
  ASSUME NEW d \in Data, NEW m \in Int, NEW r \in TrueRows(d, m), NEW x \in Column,
         isZeroAndOneAt(r, x)
  PROVE  r.data = d[x] /\ x < m
<1>1. r.coeffs \in Vector /\ r.data = Dot(r.coeffs, d) /\ (x >= m => r.coeffs[x] = 0)
  BY DEF TrueRows, Row
<1>2. \A y \in Column : r.coeffs[y] = IF y = x THEN 1 ELSE 0
  BY DEF isZeroAndOneAt
<1>3. Dot(r.coeffs, d) = d[x]
  BY <1>1, <1>2, DotUnit
<1> QED BY <1>1, <1>2, <1>3, ColumnIsNat

\* The rows of the packets an encoder sends.
LEMMA ClearRowIsTrue ==
  ASSUME NEW d \in Data, NEW m \in Int, NEW pkt,
         pkt.flag = FLAG_CLEAR, pkt.packetNumber \in Column, pkt.packetNumber < m,
         pkt.payload = d[pkt.packetNumber]
  PROVE  RowOf(pkt) \in TrueRows(d, m)
<1> DEFINE n == pkt.packetNumber
           c == [x \in Column |-> IF x = n THEN 1 ELSE 0]
<1>1. c \in Vector
  BY Halves DEF Vector, NonZero
<1>2. RowOf(pkt) = [coeffs |-> c, data |-> d[n]]
  BY DEF RowOf
<1>3. Dot(c, d) = d[n]
  <2>1. \A x \in Column : c[x] = IF x = n THEN 1 ELSE 0
    OBVIOUS
  <2> HIDE DEF c
  <2> QED BY <1>1, <2>1, DotUnit
<1>4. d[n] \in Field
  BY DEF Data
<1>5. \A x \in Column : x >= m => c[x] = 0
  BY ColumnIsNat
<1> HIDE DEF c, n
<1> QED BY <1>1, <1>2, <1>3, <1>4, <1>5 DEF TrueRows, Row

LEMMA CodedRowIsTrue ==
  ASSUME NEW d \in Data, NEW m \in Int, NEW L \in 0 .. BLKSIZE, L <= m,
         NEW packets \in [1 .. L -> Field],
         \A x \in Column : x < L => d[x] = packets[x + 1],
         NEW pkt, pkt.flag = FLAG_CODED, pkt.packetNumber = L, pkt.seqNo \in SeqNo,
         pkt.payload = mMul(random[pkt.seqNo], packets)
  PROVE  RowOf(pkt) \in TrueRows(d, m)
<1> DEFINE c == random[pkt.seqNo]
           s == [x \in Column |-> IF x < L THEN c[x] ELSE 0]
<1>1. BLKSIZE \in Nat /\ L \in Nat
  BY BlksizeAssumption
<1>2. c \in Vector
  BY RandomAssumption DEF Vector, NonZero
<1> HIDE DEF c
<1>3. s \in Vector
  BY <1>2, Halves DEF Vector
<1>4. mMul(c, packets) = Dot(s, d)
  BY <1>2, MMulIsDot
<1>5. RowOf(pkt) = [coeffs |-> s, data |-> mMul(c, packets)]
  BY DEF RowOf, FLAG_CLEAR, FLAG_CODED, c
<1>6. \A x \in Column : x >= m => s[x] = 0
  BY <1>1, ColumnIsNat
<1> HIDE DEF s
<1>7. Dot(s, d) \in Field
  BY <1>3, TermsType
<1> QED BY <1>3, <1>4, <1>5, <1>6, <1>7 DEF TrueRows, Row
=============================================================================

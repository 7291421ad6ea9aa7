---------------------------- MODULE MCCodedLink ----------------------------
(***************************************************************************)
(* Values of the constants of CodedLink for TLC: the field of four         *)
(* elements, whose generator is 2, and a stream of coefficients that comes *)
(* back after three packets, so that coded packets are sometimes useless.  *)
(***************************************************************************)
EXTENDS CodedLink

MCltable == [a \in 1 .. 3 |-> CASE a = 1 -> 3 [] a = 2 -> 1 [] a = 3 -> 2]

MCatable == [n \in 0 .. 6 |-> CASE n % 3 = 0 -> 1 [] n % 3 = 1 -> 2 [] n % 3 = 2 -> 3]

MCrandom == [s \in SeqNo |-> [x \in Column |-> 1 + (((s % 3) * x) % 3)]]

MCLossRatio == { [loss |-> 0, total |-> 1], [loss |-> 1, total |-> 2] }
MCNoLoss == { [loss |-> 0, total |-> 1] }

OneSymbol == {1}
Symbols == {1, 2, 3}

MCSource3 == <<1, 2, 3>>
MCSource4 == <<1, 2, 3, 1>>
MCSource5 == <<1, 2, 3, 1, 2>>

=============================================================================

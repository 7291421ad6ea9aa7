--------------------------- MODULE ReliableStream ---------------------------
(***************************************************************************)
(* What a connection promises the two applications, whatever the network   *)
(* does: the bytes that come out are the bytes that went in, in order,     *)
(* without a gap and without a repetition, and none is taken back.         *)
(***************************************************************************)
EXTENDS Sequences, SequencesExt

CONSTANT Symbol

VARIABLES input, output

Init == input = <<>> /\ output = <<>>

\* The sending application writes.
Accept ==
  /\ input' \in Seq(Symbol)
  /\ IsStrictPrefix(input, input')
  /\ UNCHANGED output

\* The receiving application gets more of what was written.
Deliver ==
  /\ UNCHANGED input
  /\ IsStrictPrefix(output, output')
  /\ IsPrefix(output', input)

Next == Accept \/ Deliver

Spec == Init /\ [][Next]_<<input, output>>

=============================================================================

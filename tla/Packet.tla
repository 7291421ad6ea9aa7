------------------------------- MODULE Packet -------------------------------
(***************************************************************************)
(* The two packets the coding layer exchanges (packet.h), with the         *)
(* constants both ends share.  Marshalling keeps every field: each is      *)
(* written and read in network order at its own width; the width that can  *)
(* overflow, the 16 bits of a block number, is BLOCKNO_MOD.                *)
(***************************************************************************)
EXTENDS Matrix

CONSTANTS
  DOFS_LENGTH,  \* blocks an ACK reports on, 3 in the program
  BLOCKNO_MOD,  \* 2^16 in the program: block numbers are uint16_t
  Symbol,       \* the payloads the application writes
  MaxSeqNo,     \* bound: sequence numbers of one behaviour (uint32_t)
  LossRatio,    \* the loss reports an ACK may carry
  random        \* random[s]: coefficients drawn after srandom(s)

max(a, b) == IF a > b THEN a ELSE b
min(a, b) == IF a < b THEN a ELSE b

BlockNo == 0 .. BLOCKNO_MOD - 1
SeqNo   == 0 .. MaxSeqNo - 1
Dofs    == 0 .. BLKSIZE

ASSUME PacketAssumption ==
  /\ DOFS_LENGTH \in Nat
  /\ BLOCKNO_MOD \in Nat \ {0}
  /\ MaxSeqNo \in Nat
  /\ Symbol \subseteq Field

\* getRandom never returns zero; the stream of a seed is a function of it.
ASSUME RandomAssumption == random \in [SeqNo -> [Column -> NonZero]]

\* The receiver saw the packet it reports on, so it never reports all lost.
ASSUME LossAssumption ==
  \A p \in LossRatio : p.total \in Nat /\ p.loss \in Nat /\ p.loss < p.total

FLAG_CLEAR == "clear"
FLAG_CODED == "coded"

\* The packets of a block: BLKSIZE of them at most.
BlockData == UNION { [1 .. n -> Symbol] : n \in Dofs }

\* What a packet can carry: a written symbol, or a combination of the
\* symbols of a block with random coefficients.
Payload ==
  Symbol \cup { mMul(c, d) : c \in [Column -> NonZero], d \in BlockData }

DataPacket ==
  [blockNo : BlockNo, flag : {FLAG_CLEAR, FLAG_CODED},
   packetNumber : Dofs, seqNo : SeqNo, payload : Payload]

AckPacket ==
  [ack_currBlock : BlockNo, ack_seqNo : SeqNo,
   ack_dofs : [1 .. DOFS_LENGTH -> Nat], ack_loss : LossRatio]

=============================================================================

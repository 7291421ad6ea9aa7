------------------------------ MODULE Decoder ------------------------------
(***************************************************************************)
(* decoding.c: the receiving half of a connection.  A decoder keeps, for   *)
(* every block from currBlock on that a packet was seen for, a matrix of   *)
(* reduced rows (row i has its first nonzero coefficient, a one, in column *)
(* i), the number of rows in it and how many leading rows were handed to   *)
(* the application.  Its one entry point is handleInCoded: append the      *)
(* packet, extract what is decoded of the first block, answer an ACK.      *)
(*                                                                         *)
(* The state is in two parts: dec holds the counters, which the protocol's *)
(* control depends on, and rows the matrices (blocks and coefficients in   *)
(* the code), one per counter.                                             *)
(***************************************************************************)
EXTENDS Packet, Sequences, FiniteSets

\* isSentPacketInBlock is a flag per row in the code; extractData sets them in
\* order from row 0 and never skips one, so their number says which are set.
DecoderState ==
  [currBlock           : BlockNo,
   nPacketsInBlock     : Seq(Nat),
   isSentPacketInBlock : Seq(Nat)]

decoderStateInit ==
  [currBlock |-> 0, nPacketsInBlock |-> <<>>, isSentPacketInBlock |-> <<>>]

nAllocated(d) == Len(d.nPacketsInBlock)

-----------------------------------------------------------------------------
(* Allocation and appending *)

\* Mutated: one block too many.
nAllocatedBeyond(d, pkt) == max(nAllocated(d), pkt.blockNo - d.currBlock + 2)

\* Blocks are allocated up to the packet's, none for a block already left.
nAllocatedFor(d, pkt) == max(nAllocated(d), pkt.blockNo - d.currBlock + 1)

Grown(s, n, new) == s \o [i \in 1 .. n - Len(s) |-> new]

allocate(d, pkt) ==
  [d EXCEPT !.nPacketsInBlock     = Grown(@, nAllocatedFor(d, pkt), 0),
            !.isSentPacketInBlock = Grown(@, nAllocatedFor(d, pkt), 0)]

allocateRows(d, rows, pkt) == Grown(rows, nAllocatedFor(d, pkt), EmptyMatrix)

\* The row a packet stands for: a unit vector if it is clear, the first
\* packetNumber coefficients drawn from its sequence number if it is coded.
RowOf(pkt) ==
  [coeffs |-> [x \in Column |->
     IF pkt.flag = FLAG_CLEAR THEN (IF x = pkt.packetNumber THEN 1 ELSE 0)
     ELSE IF x < pkt.packetNumber THEN random[pkt.seqNo][x] ELSE 0],
   data |-> pkt.payload]

\* eliminated[i]: the row once the stored rows before column i were subtracted.
Eliminated(matrix, row) ==
  LET eliminated[i \in 0 .. BLKSIZE] ==
        IF i = 0 THEN row
        ELSE LET r == eliminated[i - 1]
             IN  IF r.coeffs[i - 1] = 0 \/ isEmptyRow(matrix[i - 1]) THEN r
                 ELSE rowMulSub(r, matrix[i - 1], r.coeffs[i - 1])
  IN  eliminated

\* The rows of the matrix where the packet could be appended; the first is.
Pivots(matrix, row) ==
  { i \in Column : /\ Eliminated(matrix, row)[i].coeffs[i] # 0
                   /\ isEmptyRow(matrix[i]) }

isInnovative(matrix, row) == Pivots(matrix, row) # {}

appendCodedPayload(matrix, row) ==
  LET index == CHOOSE i \in Pivots(matrix, row) :
                 \A j \in Pivots(matrix, row) : i <= j
      left  == Eliminated(matrix, row)[index]
  IN  [matrix EXCEPT ![index] = rowReduce(left, left.coeffs[index])]

\* Whether a packet is appended: its block is not left, its number is not
\* below the count of rows, and its row is innovative.
isAppended(d, rows, pkt) ==
  LET b == pkt.blockNo - d.currBlock + 1
  IN  /\ pkt.blockNo >= d.currBlock
      /\ pkt.packetNumber >= allocate(d, pkt).nPacketsInBlock[b]
      /\ isInnovative(allocateRows(d, rows, pkt)[b], RowOf(pkt))

\* The state of a decoder once a packet was given to appendCodedPayload.
appended(d, rows, pkt) ==
  IF isAppended(d, rows, pkt)
  THEN LET b == pkt.blockNo - d.currBlock + 1
       IN  [dec  |-> [allocate(d, pkt) EXCEPT !.nPacketsInBlock[b] = @ + 1],
            rows |-> [allocateRows(d, rows, pkt) EXCEPT
                       ![b] = appendCodedPayload(@, RowOf(pkt))]]
  ELSE [dec |-> allocate(d, pkt), rows |-> allocateRows(d, rows, pkt)]

-----------------------------------------------------------------------------
(* extractData *)

\* The decoded rows before the first that is not, of the first n.
nDecoded(matrix, n) ==
  Cardinality({ i \in 0 .. n - 1 : \A j \in 0 .. i : isZeroAndOneAt(matrix[j], j) })

\* One attempt to decode row f: subtract the other rows, in order.
decodeRow(matrix, n, f) ==
  LET row[i \in 0 .. n] ==
        IF i = 0 THEN matrix[f]
        ELSE IF i - 1 = f THEN row[i - 1]
        ELSE rowMulSub(row[i - 1], matrix[i - 1], row[i - 1].coeffs[i - 1])
  IN  [matrix EXCEPT ![f] = row[n]]

\* The recursion of extractData: it goes on while a row gets decoded.  A row
\* that does not is left as reduced as it can be, so trying again changes nothing.
Extracted(matrix, n) ==
  LET attempt[k \in 0 .. n] ==
        IF k = 0 THEN matrix
        ELSE LET m == attempt[k - 1]
                 f == nDecoded(m, n)
             IN  IF f = n THEN m ELSE decodeRow(m, n, f)
  IN  attempt[n]

\* Mutated: whatever was received was handed over.
isBlockEmptied(n, sent) == sent = n

\* The first block is full and all of it was handed over.
isBlockDone(n, sent) == n = BLKSIZE /\ sent = BLKSIZE

\* Mutated: the flags of the block that is left stay.
handOverKeepingFlags(d, sent) ==
  IF isBlockDone(d.nPacketsInBlock[1], sent)
  THEN [currBlock           |-> (d.currBlock + 1) % BLOCKNO_MOD,
        nPacketsInBlock     |-> Tail(d.nPacketsInBlock),
        isSentPacketInBlock |-> d.isSentPacketInBlock]
  ELSE [d EXCEPT !.isSentPacketInBlock[1] = sent]

\* The counters, once sent rows of the first block were handed over.
handOver(d, sent) ==
  IF isBlockDone(d.nPacketsInBlock[1], sent)
  THEN [currBlock           |-> (d.currBlock + 1) % BLOCKNO_MOD,
        nPacketsInBlock     |-> Tail(d.nPacketsInBlock),
        isSentPacketInBlock |-> Tail(d.isSentPacketInBlock)]
  ELSE [d EXCEPT !.isSentPacketInBlock[1] = sent]

\* Mutated: decode full blocks only.
canExtractFull(d) == nAllocated(d) > 0 /\ d.nPacketsInBlock[1] = BLKSIZE

canExtract(d) == nAllocated(d) > 0 /\ d.nPacketsInBlock[1] > 0

\* What extractData leaves when first is the first block's matrix, as reduced
\* as it can be: data is what the application gets.
extracted(d, rows, first) ==
  LET n    == d.nPacketsInBlock[1]
      old  == d.isSentPacketInBlock[1]
      sent == nDecoded(first, n)
  IN  [dec  |-> handOver(d, sent),
       rows |-> IF isBlockDone(n, sent) THEN Tail(rows) ELSE [rows EXCEPT ![1] = first],
       data |-> [i \in 1 .. sent - old |-> first[old + i - 1].data]]

\* At most one block is left in a call: the next one, whatever it holds, waits
\* for another packet.
extractData(d, rows) ==
  IF canExtract(d)
  THEN { extracted(d, rows, first) : first \in {Extracted(rows[1], d.nPacketsInBlock[1])} }
  ELSE { [dec |-> d, rows |-> rows, data |-> <<>>] }

\* What a packet makes of a decoder, before it is acknowledged.
handleInCoded(d, rows, pkt) ==
  UNION { extractData(a.dec, a.rows) : a \in {appended(d, rows, pkt)} }

-----------------------------------------------------------------------------
(* The ACK sent for a packet, once it was handled *)

\* Mutated: the packet's block instead of the first one not decoded.
ackForPacketBlock(d, pkt, loss) ==
  [ack_currBlock |-> pkt.blockNo,
   ack_seqNo     |-> pkt.seqNo,
   ack_dofs      |-> [i \in 1 .. DOFS_LENGTH |->
                       IF i <= nAllocated(d) THEN d.nPacketsInBlock[i] ELSE 0],
   ack_loss      |-> loss]

ackFor(d, pkt, loss) ==
  [ack_currBlock |-> d.currBlock,
   ack_seqNo     |-> pkt.seqNo,
   ack_dofs      |-> [i \in 1 .. DOFS_LENGTH |->
                       IF i <= nAllocated(d) THEN d.nPacketsInBlock[i] ELSE 0],
   ack_loss      |-> loss]

=============================================================================

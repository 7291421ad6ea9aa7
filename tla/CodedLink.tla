----------------------------- MODULE CodedLink -----------------------------
(***************************************************************************)
(* One direction of an established connection: the encoder of one end, the *)
(* decoder of the other, and the UDP path between them, which loses,       *)
(* delays, reorders and duplicates packets.                                *)
(*                                                                         *)
(* Each end runs infiniteWaitLoop of looper.c.  An iteration of the        *)
(* sender's loop serves, in this order, the timer, one UDP packet and one  *)
(* read of the TCP socket, each only if it is ready, then sends what the   *)
(* encoder queued; phase says how far the iteration is.  An iteration of   *)
(* the receiver's loop serves one UDP packet, writes what was decoded to   *)
(* the TCP socket and sends the ACK: nothing of it is shared with the      *)
(* sender before the ACK is sent, so it is one action.                     *)
(***************************************************************************)
EXTENDS Encoder, Decoder, SequencesExt

CONSTANTS
  Source,       \* what the sending application writes
  DataReorder,  \* how many places a DATA packet may come early; 0: in order
  AckReorder,   \* the same for ACK packets
  Duplicates,   \* whether the network may deliver a packet again
  Losses,       \* whether the network may lose a packet
  AccurateTimers, \* whether the sender only gives up what the network lost
  Capacity      \* bound: packets the network holds in one direction

ASSUME LinkAssumption ==
  /\ Source \in Seq(Symbol)
  /\ Len(Source) < BLOCKNO_MOD
  /\ DataReorder \in Nat /\ AckReorder \in Nat /\ Capacity \in Nat
  /\ Duplicates \in BOOLEAN /\ Losses \in BOOLEAN /\ AccurateTimers \in BOOLEAN

VARIABLES
  enc,        \* encoderstate of the sender
  phase,      \* how far the sender's iteration of the loop is
  nread,      \* how much of Source the sender has read from its TCP socket
  dec, rows,  \* decoderstate of the receiver
  delivered,  \* what the receiver wrote to its TCP socket
  dataChan,   \* DATA packets under way
  ackChan     \* ACK packets under way

vars == <<enc, phase, nread, dec, rows, delivered, dataChan, ackChan>>

Select == 0
TimerServed == 1
UdpServed == 2
TcpServed == 3

Init ==
  /\ enc \in encoderStateInit
  /\ phase = Select
  /\ nread = 0
  /\ dec = decoderStateInit
  /\ rows = <<>>
  /\ delivered = <<>>
  /\ dataChan = <<>>
  /\ ackChan = <<>>

-----------------------------------------------------------------------------
(* The network *)

\* The positions of a channel a packet may be taken from.
Arrivals(chan, reorder) == { i \in DOMAIN chan : i <= reorder + 1 }

\* The channel once its i-th packet arrived, for good or to arrive again.
Afters(chan, i) ==
  { RemoveAt(chan, i) } \cup { c \in {chan} : Duplicates }

\* A full network drops what does not fit.
Carry(chan, packets) ==
  LET c == chan \o packets IN SubSeq(c, 1, min(Len(c), Capacity))

LoseData ==
  /\ Losses
  /\ \E i \in Arrivals(dataChan, DataReorder) : dataChan' = RemoveAt(dataChan, i)
  /\ UNCHANGED <<enc, phase, nread, dec, rows, delivered, ackChan>>

LoseAck ==
  /\ Losses
  /\ \E i \in Arrivals(ackChan, AckReorder) : ackChan' = RemoveAt(ackChan, i)
  /\ UNCHANGED <<enc, phase, nread, dec, rows, delivered, dataChan>>

-----------------------------------------------------------------------------
(* The sender's clock *)

\* The sequence numbers of the packets queued, and of those the network holds
\* with their ACKs.
UnderWay ==
  { enc.dataToSend[i].seqNo : i \in DOMAIN enc.dataToSend }
    \cup { dataChan[i].seqNo : i \in DOMAIN dataChan }
    \cup { ackChan[i].ack_seqNo : i \in DOMAIN ackChan }

\* What the sender may hold in flight: with accurate timers, the packets from
\* the first under way on; otherwise its estimate of the delay may be anything.
Cuts ==
  IF AccurateTimers THEN { Min(UnderWay \cup {enc.seqNo_Next}) }
  ELSE enc.seqNo_Una .. enc.seqNo_Next

\* An armed timer may become due; an accurate one only when nothing comes.
IsDue ==
  \/ enc.nextTimeout = "past"
  \/ enc.nextTimeout = "armed" /\ (AccurateTimers => UnderWay = {})

-----------------------------------------------------------------------------
(* The sender *)

\* The loop reaches a step once the timer, if it is due, was served.
Reaches(step) ==
  /\ ~enc.exited
  /\ phase < step
  /\ enc.nextTimeout = "past" => phase # Select

TimeOut ==
  /\ ~enc.exited
  /\ phase = Select
  /\ IsDue
  /\ enc' \in onTimeOut(enc, Cuts)
  /\ phase' = TimerServed
  /\ UNCHANGED <<nread, dec, rows, delivered, dataChan, ackChan>>

ReceiveAck ==
  /\ Reaches(UdpServed)
  /\ \E i \in Arrivals(ackChan, AckReorder) :
       /\ enc' \in onAck(enc, ackChan[i], Cuts)
       /\ ackChan' \in Afters(ackChan, i)
  /\ phase' = UdpServed
  /\ UNCHANGED <<nread, dec, rows, delivered, dataChan>>

\* handleIncomingTcpConnected: nothing is read while the encoder is full.
ReadTcp ==
  /\ Reaches(TcpServed)
  /\ isMoreDataOk(enc)
  /\ \E n \in 1 .. min(MaxRead, Len(Source) - nread) :
       /\ enc' \in handleInClear(enc, SubSeq(Source, nread + 1, nread + n), Cuts)
       /\ nread' = nread + n
  /\ phase' = TcpServed
  /\ UNCHANGED <<dec, rows, delivered, dataChan, ackChan>>

\* A read that fails reaches the encoder with a size of -1.
ReadTcpFails ==
  /\ Reaches(TcpServed)
  /\ isMoreDataOk(enc)
  /\ enc' \in handleInClear(enc, <<>>, Cuts)
  /\ phase' = TcpServed
  /\ UNCHANGED <<nread, dec, rows, delivered, dataChan, ackChan>>

Flush ==
  /\ ~enc.exited
  /\ phase # Select
  /\ dataChan' = Carry(dataChan, enc.dataToSend)
  /\ enc' = flush(enc)
  /\ phase' = Select
  /\ UNCHANGED <<nread, dec, rows, delivered, ackChan>>

-----------------------------------------------------------------------------
(* The receiver *)

ReceiveData ==
  \E i \in Arrivals(dataChan, DataReorder), loss \in LossRatio :
    \E out \in handleInCoded(dec, rows, dataChan[i]) :
        /\ dec' = out.dec
        /\ rows' = out.rows
        /\ delivered' = delivered \o out.data
        /\ ackChan' = Carry(ackChan, <<ackFor(out.dec, dataChan[i], loss)>>)
        /\ dataChan' \in Afters(dataChan, i)
        /\ UNCHANGED <<enc, phase, nread>>

Next ==
  \/ TimeOut \/ ReceiveAck \/ ReadTcp \/ ReadTcpFails \/ Flush
  \/ ReceiveData
  \/ LoseData \/ LoseAck

Spec == Init /\ [][Next]_vars

-----------------------------------------------------------------------------
(* Properties *)

\* Every variable keeps its type, and the receiver counts what it received and
\* what it handed over for the same blocks.
TypeOK ==
  /\ enc \in EncoderState
  /\ phase \in Select .. TcpServed
  /\ nread \in 0 .. Len(Source)
  /\ dec \in DecoderState
  /\ Len(dec.isSentPacketInBlock) = nAllocated(dec)
  /\ delivered \in Seq(Range(delivered))
  /\ dataChan \in Seq(DataPacket)
  /\ ackChan \in Seq(AckPacket)

\* The window of blocks of the receiver lies in the sender's: the sender never
\* frees a block it does not have (onAck would read blocks[0] of none), never
\* counts an ACK's blocks from the wrong end, and a packet never makes the
\* receiver allocate a block the sender has not filled.
BlocksInStep ==
  /\ enc.currBlock <= dec.currBlock
  /\ dec.currBlock + nAllocated(dec) <= enc.currBlock + numBlock(enc)

\* The table of sent packets only names blocks the sender still has, so that
\* onWindowUpdate's nPacketsInFlight[blockNo - currBlock] stays in its array,
\* and gives a sequence number one block.
SentTableInWindow ==
  /\ \A r \in enc.packetSentInfos :
       /\ r.blockNo \in enc.currBlock .. enc.currBlock + numBlock(enc) - 1
       /\ r.seqNo < enc.seqNo_Next
  /\ \A r, s \in enc.packetSentInfos : r.seqNo = s.seqNo => r = s

\* What the sender frees was handed to the receiving application: no ACK, late
\* or repeated, makes it forget data that still has to be sent.
FreedOnlyWhenDelivered == Len(delivered) >= enc.currBlock * BLKSIZE

\* Every block was opened by a read, so that block numbers cannot wrap before
\* BLOCKNO_MOD packets were read.
BlocksAreRead == enc.currBlock + numBlock(enc) <= nread

\* No packet, queued or under way, is for a block the sender has not filled, and
\* no ACK, however late, is ahead of the receiver.
PacketsInStep ==
  /\ \A i \in DOMAIN enc.dataToSend :
       enc.dataToSend[i].blockNo < enc.currBlock + numBlock(enc)
  /\ \A i \in DOMAIN dataChan : dataChan[i].blockNo < enc.currBlock + numBlock(enc)
  /\ \A i \in DOMAIN ackChan : ackChan[i].ack_currBlock <= dec.currBlock

\* The receiver handed over every block it left and what it counts of the first;
\* it has handed over nothing of the blocks behind.
HandedOverIsDelivered ==
  /\ Len(delivered) >= dec.currBlock * BLKSIZE
                       + (IF nAllocated(dec) > 0 THEN dec.isSentPacketInBlock[1] ELSE 0)
  /\ \A b \in 2 .. nAllocated(dec) : dec.isSentPacketInBlock[b] = 0

\* The inductive invariant behind BlocksInStep and FreedOnlyWhenDelivered: two
\* ends that only see each other's old packets stay in step.
LinkInv ==
  /\ TypeOK
  /\ BlocksInStep
  /\ BlocksAreRead
  /\ PacketsInStep
  /\ HandedOverIsDelivered

\* The original packets of the block a receiver's matrix is for.
SourceOf(b, x) ==
  LET at == (dec.currBlock + b - 1) * BLKSIZE + x + 1
  IN  IF at <= nread THEN Source[at] ELSE 0

\* The combination of original packets a row's coefficients call for.
CombinationOf(b, row) ==
  LET sum[n \in 0 .. BLKSIZE] ==
        IF n = 0 THEN 0
        ELSE gadd(sum[n - 1], gmul(row.coeffs[n - 1], SourceOf(b, n - 1)))
  IN  sum[BLKSIZE]

\* The decoder's equations stay true of the data sent: every row holds the
\* combination its coefficients name, is empty or starts with a one in its own
\* column, the rows are as many as counted, and the rows handed over are decoded.
RowsConsistent ==
  /\ Len(rows) = nAllocated(dec)
  /\ \A b \in DOMAIN rows :
       /\ \A x \in Column :
            LET row == rows[b][x] IN
            /\ row.data = CombinationOf(b, row)
            /\ ~isEmptyRow(row) => /\ row.coeffs[x] = 1
                                   /\ \A y \in 0 .. x - 1 : row.coeffs[y] = 0
       /\ Cardinality({ x \in Column : ~isEmptyRow(rows[b][x]) }) = dec.nPacketsInBlock[b]
       /\ \A x \in 0 .. dec.isSentPacketInBlock[b] - 1 : isZeroAndOneAt(rows[b][x], x)

\* A loop of the sender never sends more packets than the window, whichever of
\* its handlers queued them (the comment of encoding.c line 77).
BurstWithinWindow == Len(enc.dataToSend) <= enc.congestionWindow

\* Neither end keeps more than MAX_BLOCKS blocks, although only the sender
\* counts them (isMoreDataOk) and the receiver allocates what packets ask for.
MemoryBounded == numBlock(enc) <= MAX_BLOCKS /\ nAllocated(dec) <= MAX_BLOCKS

\* The degrees of freedom the receiver has of the b-th block of the connection.
DegreesOfFreedom(b) ==
  IF b < dec.currBlock THEN BLKSIZE
  ELSE IF b - dec.currBlock < nAllocated(dec)
  THEN dec.nPacketsInBlock[b - dec.currBlock + 1] ELSE 0

\* "Already received degrees of freedom for the block" (encoding.h line 53): what
\* the sender credits to a block was received for that block.
DofsSound ==
  \A i \in DOMAIN enc.blocks :
    enc.blocks[i].dofs <= DegreesOfFreedom(enc.currBlock + i - 1)

\* Decodable data waits in the receiver only if it has just left the block before:
\* once any of a block was handed over, all that can be decoded of it was ("call
\* recursively, in case there's something else waiting", decoding.c line 361).
WaitsOnlyBehindBlock ==
  nAllocated(dec) > 0 =>
    LET n    == dec.nPacketsInBlock[1]
        sent == dec.isSentPacketInBlock[1]
    IN  sent = nDecoded(Extracted(rows[1], n), n) \/ (sent = 0 /\ dec.currBlock > 0)

\* "True if there is still data from the TCP socket that has not been transfered
\* yet" (encoding.h line 72): a sender that holds all data transferred has a
\* receiver that can decode all of it.
QuietMeansReceived ==
  ~enc.isOutstandingData =>
    \A i \in DOMAIN enc.blocks :
      nPackets(enc.blocks[i]) <= DegreesOfFreedom(enc.currBlock + i - 1)

\* The two applications see a reliable stream.
Stream == INSTANCE ReliableStream
            WITH input <- SubSeq(Source, 1, nread), output <- delivered

ImplementsStream == Stream!Spec

=============================================================================

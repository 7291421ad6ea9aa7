------------------------------ MODULE Encoder ------------------------------
(***************************************************************************)
(* encoding.c: the sending half of a connection.  An encoder keeps the     *)
(* blocks of TCP data the peer has not decoded, a table of the packets     *)
(* sent for them, a congestion window and a timer.  Its three entry points *)
(* are handleInClear (data read from the TCP socket), onAck and onTimeOut; *)
(* each ends by sending what the window allows (onWindowUpdate).           *)
(*                                                                         *)
(* A handler is an operator from a state of the encoder to the SET of      *)
(* states it may leave: what depends on the clock is a choice.             *)
(*   - gettimeofday grows, so the packets onWindowUpdate still counts in   *)
(*     flight are the ones from some sequence number on, the cut; the      *)
(*     handlers take the cuts the clock allows as their last parameter.    *)
(*   - nextTimeout is "infinite" (the code's 0.0, never due), "armed" (may *)
(*     become due) or "past" (a date of 1970, always due).                 *)
(*   - The window is the integer part of the code's float, which is all    *)
(*     onWindowUpdate reads; the round-trip averages only choose whether   *)
(*     it grows or shrinks in congestion avoidance.                        *)
(***************************************************************************)
EXTENDS Packet, Sequences, FiniteSets

CONSTANTS
  BASE_WINDOW, SS_THRESHOLD, MAX_WINDOW, MAX_BLOCKS,
  MaxRead   \* packets one read of the TCP socket fills at most (3 of 4096 bytes)

NoLoss == [loss |-> 0, total |-> 1]

ASSUME EncoderAssumption ==
  /\ BASE_WINDOW \in Nat \ {0}
  /\ SS_THRESHOLD \in Nat
  /\ MAX_WINDOW \in Nat
  /\ MAX_BLOCKS \in Nat \ {0}
  /\ MaxRead \in 1 .. BLKSIZE
  /\ NoLoss \in LossRatio

\* nPackets is Len(data); the packets sent uncoded are always the first ones.
Block == [data : BlockData, isSentPacket : Nat, dofs : Nat]

PacketSentInfo == [seqNo : SeqNo, blockNo : BlockNo]

EncoderState ==
  [blocks            : Seq(Block),
   packetSentInfos   : SUBSET PacketSentInfo,
   p                 : LossRatio,
   seqNo_Next        : 0 .. MaxSeqNo,
   seqNo_Una         : 0 .. MaxSeqNo,
   congestionWindow  : Nat,
   currBlock         : BlockNo,
   slowStartMode     : BOOLEAN,
   isOutstandingData : BOOLEAN,
   nextTimeout       : {"infinite", "armed", "past"},
   dataToSend        : Seq(DataPacket),
   exited            : BOOLEAN]

\* A proxy's encoder starts with no timer; a client's is armed by the
\* listener and by the EMPTY packets of the opening, before any data.
encoderStateInit ==
  { [blocks |-> <<>>, packetSentInfos |-> {}, p |-> NoLoss,
     seqNo_Next |-> 0, seqNo_Una |-> 0, congestionWindow |-> BASE_WINDOW,
     currBlock |-> 0, slowStartMode |-> TRUE, isOutstandingData |-> FALSE,
     nextTimeout |-> t, dataToSend |-> <<>>, exited |-> FALSE] :
    t \in {"infinite", "armed"} }

blockCreate == [data |-> <<>>, isSentPacket |-> 0, dofs |-> 0]

numBlock(e) == Len(e.blocks)

nPackets(b) == Len(b.data)

\* Mutated: one block too few.
isMoreDataOkBelowLimit(e) == numBlock(e) < MAX_BLOCKS - 1

\* Mutated: one block too many.
isMoreDataOkAtLimit(e) == numBlock(e) <= MAX_BLOCKS

isMoreDataOk(e) == numBlock(e) < MAX_BLOCKS

-----------------------------------------------------------------------------
(* onWindowUpdate *)

\* The packets counted in flight when those before cut are too old to be.
InFlight(e, cut) ==
  { r \in e.packetSentInfos : r.seqNo >= e.seqNo_Una /\ r.seqNo >= cut }

nPacketsInFlight(e, cut, i) ==
  Cardinality({ r \in InFlight(e, cut) : r.blockNo = e.currBlock + i - 1 })

\* Mutated: what is queued already is forgotten.
totalInFlightSent(e, cut) == Cardinality(InFlight(e, cut))

totalInFlight(e, cut) ==
  max(Cardinality(InFlight(e, cut)), Len(e.dataToSend))

\* ceilf((1 - p) * n)
ExpectedArrivals(p, n) ==
  ((p.total - p.loss) * n + p.total - 1) \div p.total

\* How many of the first k sends of a plan come from block i.
SentFrom(plan, k, i) == Cardinality({ j \in 1 .. k : plan[j] = i })

\* Block i would not be decoded from what is in flight and planned.
WorthSending(e, cut, plan, i) ==
  ExpectedArrivals(e.p, nPacketsInFlight(e, cut, i) + SentFrom(plan, Len(plan), i))
    < nPackets(e.blocks[i]) - e.blocks[i].dofs

\* The block the loop sends from after plan, the first worth it, if there is one.
NextToSend(e, cut, plan) ==
  { i \in DOMAIN e.blocks : /\ WorthSending(e, cut, plan, i)
                            /\ \A j \in 1 .. i - 1 : ~WorthSending(e, cut, plan, j) }

\* The sends of one round, as the blocks they come from: one after the other
\* until the window is full or no block is worth it.
Plans(e, cut) ==
  LET budget == max(0, e.congestionWindow - totalInFlight(e, cut))
      partial[n \in 0 .. budget] ==
        IF n = 0 THEN { <<>> }
        ELSE UNION { { Append(q, i) : i \in NextToSend(e, cut, q) } : q \in partial[n - 1] }
  IN  { plan \in UNION { partial[n] : n \in 0 .. budget } :
          Len(plan) = budget \/ NextToSend(e, cut, plan) = {} }

\* sendFromBlock for the k-th send: the first packet of the block not sent
\* uncoded yet, otherwise a combination of every packet of the block.
PacketOf(e, plan, k) ==
  LET b   == e.blocks[plan[k]]
      n   == b.isSentPacket + SentFrom(plan, k - 1, plan[k])
      seq == e.seqNo_Next + k - 1
      blk == (e.currBlock + plan[k] - 1) % BLOCKNO_MOD
  IN  IF n < nPackets(b)
      THEN [blockNo |-> blk, flag |-> FLAG_CLEAR, packetNumber |-> n,
            seqNo |-> seq, payload |-> b.data[n + 1]]
      ELSE [blockNo |-> blk, flag |-> FLAG_CODED, packetNumber |-> nPackets(b),
            seqNo |-> seq, payload |-> mMul(random[seq], b.data)]

\* The blocks once the packets a plan sends uncoded are marked as sent.
Marked(e, plan) ==
  [i \in DOMAIN e.blocks |->
    [e.blocks[i] EXCEPT !.isSentPacket =
       min(@ + SentFrom(plan, Len(plan), i), nPackets(e.blocks[i]))]]

\* addToPacketSentInfos for each send of a plan.
InfosOf(e, plan) ==
  { [seqNo |-> e.seqNo_Next + k - 1,
     blockNo |-> (e.currBlock + plan[k] - 1) % BLOCKNO_MOD] : k \in DOMAIN plan }

PacketsOf(e, plan) == [k \in DOMAIN plan |-> PacketOf(e, plan, k)]

\* The sends of a plan, one after the other.
sendFromBlock(e, plan) ==
  [e EXCEPT !.blocks = Marked(e, plan),
            !.packetSentInfos = @ \cup InfosOf(e, plan),
            !.dataToSend = @ \o PacketsOf(e, plan),
            !.seqNo_Next = @ + Len(plan)]

\* Mutated: what is still in flight counts as transferred.
onWindowUpdateTrusting(e, cuts) ==
  IF ~e.isOutstandingData THEN {e}
  ELSE UNION { { [sendFromBlock(e, plan) EXCEPT !.isOutstandingData = Len(plan) > 0] :
                 plan \in { q \in Plans(e, cut) : e.seqNo_Next + Len(q) <= MaxSeqNo } } :
               cut \in cuts }

\* Nothing in flight and nothing worth sending: all data was transferred.
onWindowUpdate(e, cuts) ==
  IF ~e.isOutstandingData THEN {e}
  ELSE UNION { { [sendFromBlock(e, plan) EXCEPT
                   !.isOutstandingData = totalInFlight(e, cut) + Len(plan) > 0] :
                 plan \in { q \in Plans(e, cut) : e.seqNo_Next + Len(q) <= MaxSeqNo } } :
               cut \in cuts }

\* onWindowUpdate from any of the states a handler leaves.
ThenSend(states, cuts) == UNION { onWindowUpdate(e, cuts) : e \in states }

-----------------------------------------------------------------------------
(* handleInClear *)

Full(b) == nPackets(b) >= BLKSIZE

\* The packets of a read fill the first block with room, then a new one (at
\* most one block has room, and a read is no longer than a block).
Stored(blocks, packets) ==
  LET known == IF \A i \in DOMAIN blocks : Full(blocks[i])
               THEN Append(blocks, blockCreate) ELSE blocks
      room(i) == min(BLKSIZE - nPackets(known[i]), Len(packets))
      filled(i) == [known EXCEPT ![i].data = @ \o SubSeq(packets, 1, room(i))]
      rest(i) == SubSeq(packets, room(i) + 1, Len(packets))
  IN  { IF rest(i) = <<>> THEN filled(i)
        ELSE Append(filled(i), [blockCreate EXCEPT !.data = rest(i)]) :
        i \in { j \in DOMAIN known : /\ ~Full(known[j])
                                     /\ \A k \in 1 .. j - 1 : Full(known[k]) } }

\* packets is empty after a failed read, whose size of -1 is passed on.
handleInClear(e, packets, cuts) ==
  ThenSend({ [e EXCEPT !.blocks = bs, !.isOutstandingData = TRUE] :
             bs \in IF packets = <<>> THEN {e.blocks} ELSE Stored(e.blocks, packets) },
           cuts)

-----------------------------------------------------------------------------
(* onTimeOut *)

\* Only an encoder with outstanding data gets a date in the future: the other
\* branch adds its delay to the epoch.
onTimeOut(e, cuts) ==
  ThenSend({ [e EXCEPT
               !.slowStartMode = TRUE, !.congestionWindow = BASE_WINDOW,
               !.nextTimeout = IF e.isOutstandingData THEN "armed" ELSE "past"] },
           cuts)

-----------------------------------------------------------------------------
(* onAck *)

isKnown(e, seqNo) == \E r \in e.packetSentInfos : r.seqNo = seqNo

\* Mutated: the freed blocks stay in the table.
FreeAckedKeepingInfos(e, ack) ==
  LET acked == max(0, ack.ack_currBlock - e.currBlock)
  IN  [e EXCEPT
        !.blocks = SubSeq(@, acked + 1, Len(@)),
        !.currBlock = max(@, ack.ack_currBlock)]

\* Blocks before the receiver's current one are freed, with their table entries.
FreeAcked(e, ack) ==
  LET acked == max(0, ack.ack_currBlock - e.currBlock)
  IN  [e EXCEPT
        !.blocks = SubSeq(@, acked + 1, Len(@)),
        !.packetSentInfos =
          { r \in @ : r.blockNo \notin e.currBlock .. e.currBlock + acked - 1 },
        !.currBlock = max(@, ack.ack_currBlock)]

\* Mutated: one block too far.
CreditedBehind(blocks, dofs) ==
  [i \in DOMAIN blocks |->
    IF i - 1 \in 1 .. DOFS_LENGTH
    THEN [blocks[i] EXCEPT !.dofs = max(@, dofs[i - 1])] ELSE blocks[i]]

\* The i-th count is credited to the i-th block, whichever block the receiver
\* counted it for.
Credited(blocks, dofs) ==
  [i \in DOMAIN blocks |->
    IF i <= DOFS_LENGTH THEN [blocks[i] EXCEPT !.dofs = max(@, dofs[i])] ELSE blocks[i]]

RaiseDofs(e, ack) == [e EXCEPT !.blocks = Credited(@, ack.ack_dofs)]

\* Slow start adds one; congestion avoidance adds or takes a fraction.
Windows(e) ==
  IF e.slowStartMode THEN {e.congestionWindow + 1}
  ELSE { w \in {e.congestionWindow - 1, e.congestionWindow, e.congestionWindow + 1} :
         w >= BASE_WINDOW }

AdjustWindow(e, w) ==
  [e EXCEPT !.congestionWindow = w,
            !.slowStartMode = @ /\ w <= SS_THRESHOLD]

\* congestionWindow > MAX_WINDOW, of which w is the integer part.
MayEnd(w, exits) ==
  /\ w > MAX_WINDOW => exits
  /\ w < MAX_WINDOW => ~exits

\* Mutated: the timer is stopped whatever is left to send.
StopTimer(e) == [e EXCEPT !.nextTimeout = "infinite"]

RearmTimer(e) ==
  [e EXCEPT !.nextTimeout = IF e.isOutstandingData THEN "armed" ELSE "infinite"]

\* What an accepted ACK changes before the encoder sends again.
Acknowledged(e, ack, w) ==
  [AdjustWindow(RaiseDofs(FreeAcked([e EXCEPT !.p = ack.ack_loss], ack), ack), w)
    EXCEPT !.seqNo_Una = ack.ack_seqNo + 1]

onAck(e, ack, cuts) ==
  IF ack.ack_seqNo < e.seqNo_Una THEN {e}
  ELSE IF ~isKnown(e, ack.ack_seqNo)
  THEN { [e EXCEPT !.seqNo_Una = ack.ack_seqNo + 1] }
  ELSE LET windows(exits) == { w \in Windows(e) : MayEnd(w, exits) }
           after(exits) ==
             { [Acknowledged(e, ack, w) EXCEPT !.exited = exits] : w \in windows(exits) }
       IN  after(TRUE) \cup { RearmTimer(f) : f \in ThenSend(after(FALSE), cuts) }

-----------------------------------------------------------------------------
(* The event loop sends what the encoder queued and empties the queue. *)

flush(e) == [e EXCEPT !.dataToSend = <<>>]

=============================================================================

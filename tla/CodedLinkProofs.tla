-------------------------- MODULE CodedLinkProofs --------------------------
(***************************************************************************)
(* The two ends of CodedLink stay in step, and what they keep is bounded,  *)
(* for every field, block size, window and network.                        *)
(*                                                                         *)
(* LinkInv is inductive.  The lemmas go up the code: what each handler of  *)
(* encoding.c does to the encoder (Follows: it keeps EncoderInv and never  *)
(* loses its last block), what each part of handleInCoded does to the      *)
(* decoder (DecoderInv, HandedOver), and what each action of the link does *)
(* to the two ends and the channels (LinkShape, LinkInv gathered by        *)
(* component).                                                             *)
(*                                                                         *)
(* BoundsInv adds that the table of sent packets only names blocks the     *)
(* sender has, that a loop never queues more than the window, and that     *)
(* neither end keeps more than MAX_BLOCKS blocks.  Each handler changes    *)
(* some fields, then sends from what that leaves (onWindowUpdate), so the  *)
(* lemmas are about those two.                                             *)
(***************************************************************************)
EXTENDS CodedLink, DecoderProofs

-----------------------------------------------------------------------------
(* Numbers, blocks and sequences *)

\* A block number below the modulus is not changed by it.
LEMMA ModFacts ==
  \A x \in Int : /\ x % BLOCKNO_MOD \in BlockNo
                 /\ x \in BlockNo => x % BLOCKNO_MOD = x
BY PacketAssumption DEF BlockNo

\* The i-th block of n has its number in range if the last has.
LEMMA BlockInRange ==
  ASSUME NEW c \in BlockNo, NEW n \in Nat, NEW i \in 1 .. n, c + n < BLOCKNO_MOD
  PROVE  /\ c + i - 1 \in BlockNo
         /\ c + i - 1 < c + n
BY PacketAssumption DEF BlockNo

\* The packets of a block are a sequence of at most BLKSIZE symbols.
LEMMA BlockDataIsSeq ==
  \A d : d \in BlockData <=> d \in Seq(Symbol) /\ Len(d) \in Dofs
<1>1. ASSUME NEW d \in BlockData PROVE d \in Seq(Symbol) /\ Len(d) \in Dofs
  BY <1>1, BlksizeAssumption DEF BlockData, Dofs
<1>2. ASSUME NEW d \in Seq(Symbol), Len(d) \in Dofs PROVE d \in BlockData
  BY <1>2, BlksizeAssumption DEF BlockData
<1> QED BY <1>1, <1>2

\* A block counts at most BLKSIZE packets, its data (struct blockstate).
LEMMA BlockFacts ==
  ASSUME NEW b \in Block
  PROVE  nPackets(b) \in Dofs /\ b.data \in Seq(Symbol)
BY BlockDataIsSeq DEF Block, nPackets

\* How often a plan sends from a block is a number.
LEMMA SentFromType ==
  ASSUME NEW plan, NEW k \in Int, NEW i
  PROVE  SentFrom(plan, k, i) \in Nat
<1>1. IsFiniteSet(1 .. k)
  BY FS_Interval
<1>2. { j \in 1 .. k : plan[j] = i } \in SUBSET (1 .. k)
  OBVIOUS
<1>3. IsFiniteSet({ j \in 1 .. k : plan[j] = i })
  BY <1>1, <1>2, FS_Subset
<1> QED BY <1>3, FS_CardinalityType DEF SentFrom

\* Taking a packet from a channel leaves a channel.
LEMMA RemoveAtType ==
  ASSUME NEW S, NEW s \in Seq(S), NEW i \in 1 .. Len(s)
  PROVE  RemoveAt(s, i) \in Seq(S)
<1>1. SubSeq(s, 1, i - 1) \in Seq(S) /\ SubSeq(s, i + 1, Len(s)) \in Seq(S)
  BY LenProperties, SubSeqProperties, ElementOfSeq
<1> QED BY <1>1, ConcatProperties DEF RemoveAt

-----------------------------------------------------------------------------
(* The encoder *)

\* There are finitely many entries a table of sent packets may have.
LEMMA PacketSentInfoFinite == IsFiniteSet(PacketSentInfo)
<1>1. IsFiniteSet(SeqNo) /\ IsFiniteSet(BlockNo)
  BY FS_Interval, PacketAssumption DEF SeqNo, BlockNo
<1>2. IsFiniteSet(SeqNo \X BlockNo)
  BY <1>1, FS_Product
<1> DEFINE info == [c \in SeqNo \X BlockNo |-> [seqNo |-> c[1], blockNo |-> c[2]]]
<1>3. info \in Surjection(SeqNo \X BlockNo, PacketSentInfo)
  <2>1. ASSUME NEW r \in PacketSentInfo
        PROVE  \E c \in SeqNo \X BlockNo : info[c] = r
    <3>1. <<r.seqNo, r.blockNo>> \in SeqNo \X BlockNo /\ info[<<r.seqNo, r.blockNo>>] = r
      BY DEF PacketSentInfo
    <3> QED BY <3>1
  <2>2. info \in [SeqNo \X BlockNo -> PacketSentInfo]
    BY DEF PacketSentInfo
  <2> QED BY <2>1, <2>2 DEF Surjection
<1> HIDE DEF info
<1> QED BY <1>2, <1>3, FS_Surjection

\* What is in flight is a number, at least what is queued.
LEMMA InFlightIsNumber ==
  ASSUME NEW e \in EncoderState, NEW cut
  PROVE  /\ totalInFlight(e, cut) \in Nat /\ Cardinality(InFlight(e, cut)) \in Nat
         /\ totalInFlight(e, cut) >= Len(e.dataToSend)
<1>1. InFlight(e, cut) \subseteq PacketSentInfo
  BY DEF InFlight, EncoderState
<1>2. Cardinality(InFlight(e, cut)) \in Nat
  BY <1>1, PacketSentInfoFinite, FS_Subset, FS_CardinalityType
<1>3. Len(e.dataToSend) \in Nat
  BY DEF EncoderState
<1> QED BY <1>2, <1>3 DEF totalInFlight, max

\* The loop of onWindowUpdate only sends from blocks there are, and never more
\* packets than the window leaves room for.
LEMMA PlansType ==
  ASSUME NEW e \in EncoderState, NEW cut, NEW plan \in Plans(e, cut)
  PROVE  /\ plan \in Seq(DOMAIN e.blocks)
         /\ Len(plan) <= max(0, e.congestionWindow - totalInFlight(e, cut))
<1> DEFINE budget == max(0, e.congestionWindow - totalInFlight(e, cut))
           X == DOMAIN e.blocks
           Sends(Q) == UNION { { Append(q, i) : i \in NextToSend(e, cut, q) } : q \in Q }
           partial[n \in 0 .. budget] == IF n = 0 THEN { <<>> } ELSE Sends(partial[n - 1])
           D == SUBSET Seq(X)
           F == [Q \in D |-> Sends(Q)]
<1>1. budget \in Nat
  BY InFlightIsNumber DEF EncoderState, max
<1>2. ASSUME NEW Q \in D PROVE Sends(Q) \in D
  <2>1. ASSUME NEW q \in Q, NEW i \in NextToSend(e, cut, q) PROVE Append(q, i) \in Seq(X)
    <3>1. q \in Seq(X) /\ i \in X
      BY DEF NextToSend
    <3> HIDE DEF X
    <3> QED BY <3>1, AppendProperties
  <2> QED BY <2>1
<1>3. {<<>>} \in D
  OBVIOUS
<1> HIDE DEF budget, X, Sends, D
<1>4. F \in [D -> D]
  BY <1>2
<1>5. PICK f \in [0 .. budget -> D] :
         f[0] = {<<>>} /\ \A n \in 1 .. budget : f[n] = F[f[n - 1]]
  <2> HIDE DEF F
  <2> DEFINE base == {<<>>}
  <2> HIDE DEF partial, base
  <2>1. base \in D
    BY <1>3 DEF base
  <2>2. \E f \in [0 .. budget -> D] : /\ f[0] = base
                                      /\ \A n \in 1 .. budget : f[n] = F[f[n - 1]]
    BY <1>1, <1>4, <2>1, IterationExists
  <2> QED BY <2>2 DEF base
<1>6. f = [n \in 0 .. budget |-> IF n = 0 THEN { <<>> } ELSE Sends(f[n - 1])]
  <2>1. ASSUME NEW n \in 0 .. budget, n # 0 PROVE f[n] = Sends(f[n - 1])
    <3>1. n \in 1 .. budget /\ n - 1 \in 0 .. budget
      BY <1>1, <2>1
    <3>2. f[n] = F[f[n - 1]] /\ f[n - 1] \in D
      BY <3>1, <1>5
    <3> QED BY <3>2
  <2> QED BY <1>5, <2>1
<1>7. partial = [n \in 0 .. budget |-> IF n = 0 THEN { <<>> } ELSE Sends(partial[n - 1])]
  <2> DEFINE g == CHOOSE h : h = [n \in 0 .. budget |-> IF n = 0 THEN { <<>> } ELSE Sends(h[n - 1])]
  <2>1. g = [n \in 0 .. budget |-> IF n = 0 THEN { <<>> } ELSE Sends(g[n - 1])]
    BY <1>6, Zenon
  <2>2. partial = g
    BY Zenon
  <2> QED BY <2>1, <2>2, Zenon
<1>8. Plans(e, cut) = { p \in UNION { partial[n] : n \in 0 .. budget } :
          Len(p) = budget \/ NextToSend(e, cut, p) = {} }
  BY Zenon DEF Plans, budget, Sends
<1> HIDE DEF partial
<1> DEFINE T == { n \in Nat : n <= budget =>
                    \A q \in partial[n] : q \in Seq(X) /\ Len(q) = n }
<1>9. 0 \in T
  <2>1. 0 \in 0 .. budget
    BY <1>1
  <2>2. partial[0] = { <<>> }
    BY <1>7, <2>1
  <2>3. ASSUME NEW q \in partial[0] PROVE q \in Seq(X) /\ Len(q) = 0
    BY <2>2
  <2> HIDE DEF partial
  <2> QED BY <2>3
<1>10. ASSUME NEW n \in Nat, n \in T PROVE n + 1 \in T
  <2> SUFFICES ASSUME n + 1 <= budget, NEW q \in partial[n + 1]
               PROVE  q \in Seq(X) /\ Len(q) = n + 1
    OBVIOUS
  <2>1. n + 1 \in 0 .. budget /\ n + 1 # 0 /\ n \in 0 .. budget /\ (n + 1) - 1 = n
    BY <1>1
  <2>2. partial[n + 1] = Sends(partial[n])
    BY <1>7, <2>1
  <2>3. PICK r \in partial[n] : \E i \in NextToSend(e, cut, r) : q = Append(r, i)
    BY <2>2 DEF Sends
  <2> PICK i \in NextToSend(e, cut, r) : q = Append(r, i)
    BY <2>3
  <2>4. r \in Seq(X) /\ Len(r) = n
    BY <1>1, <1>10, <2>1, <2>3
  <2>5. i \in X
    BY DEF NextToSend, X
  <2> QED BY <2>3, <2>4, <2>5, AppendProperties
<1> HIDE DEF T
<1>11. Nat \subseteq T
  BY <1>9, <1>10, NatSetInduction
<1>12. PICK n \in 0 .. budget : plan \in partial[n]
  BY <1>8
<1>13. plan \in Seq(X) /\ Len(plan) = n
  BY <1>1, <1>11, <1>12 DEF T
<1> QED BY <1>1, <1>12, <1>13 DEF X, budget

\* The block after the last one an encoder has.
End(e) == e.currBlock + numBlock(e)

\* The packets for a block before the n-th.
PacketsBelow(n) == { q \in DataPacket : q.blockNo < n }

EncoderInv(e) ==
  /\ e \in EncoderState
  /\ End(e) < BLOCKNO_MOD
  /\ e.dataToSend \in Seq(PacketsBelow(End(e)))

\* What a plan sends are packets of the encoder's blocks.
LEMMA PacketOfType ==
  ASSUME NEW e, EncoderInv(e), NEW plan \in Seq(DOMAIN e.blocks),
         e.seqNo_Next + Len(plan) <= MaxSeqNo, NEW k \in DOMAIN plan
  PROVE  PacketOf(e, plan, k) \in PacketsBelow(End(e))
<1> DEFINE b   == e.blocks[plan[k]]
           n   == b.isSentPacket + SentFrom(plan, k - 1, plan[k])
           seq == e.seqNo_Next + k - 1
           blk == (e.currBlock + plan[k] - 1) % BLOCKNO_MOD
<1>1. /\ e.blocks \in Seq(Block) /\ e.currBlock \in BlockNo
      /\ e.seqNo_Next \in 0 .. MaxSeqNo /\ End(e) < BLOCKNO_MOD
  BY DEF EncoderInv, EncoderState
<1>2. k \in 1 .. Len(plan) /\ plan[k] \in 1 .. Len(e.blocks) /\ Len(e.blocks) \in Nat
  BY <1>1
<1>3. b \in Block
  BY <1>1, <1>2
<1>4. n \in Nat
  <2>1. b.isSentPacket \in Nat BY <1>3 DEF Block
  <2> HIDE DEF b
  <2> QED BY <1>2, <2>1, SentFromType
<1>5. seq \in SeqNo
  BY <1>1, <1>2, PacketAssumption DEF SeqNo
<1>6. blk \in BlockNo /\ blk < End(e)
  <2>1. e.currBlock + plan[k] - 1 \in BlockNo /\ e.currBlock + plan[k] - 1 < End(e)
    BY <1>1, <1>2, BlockInRange DEF End, numBlock
  <2>2. blk = e.currBlock + plan[k] - 1
    BY <2>1, ModFacts DEF BlockNo
  <2> QED BY <2>1, <2>2
<1>7. nPackets(b) \in Dofs /\ b.data \in Seq(Symbol) /\ Len(b.data) = nPackets(b)
      /\ b.data \in BlockData
  BY <1>3, BlockFacts DEF nPackets, Block
<1> HIDE DEF b, n, seq, blk
<1>8. ASSUME n < nPackets(b)
      PROVE  n \in Dofs /\ b.data[n + 1] \in Payload
  BY <1>4, <1>7, <1>8, BlksizeAssumption DEF Dofs, Payload
<1>9. mMul(random[seq], b.data) \in Payload
  BY <1>5, <1>7, RandomAssumption DEF Payload
<1> QED
  BY <1>5, <1>6, <1>7, <1>8, <1>9
  DEF PacketOf, PacketsBelow, DataPacket, FLAG_CLEAR, FLAG_CODED, b, n, seq, blk

\* Sending leaves the blocks where they are and queues packets of theirs.
LEMMA SendFromBlockType ==
  ASSUME NEW e, EncoderInv(e), NEW plan \in Seq(DOMAIN e.blocks),
         e.seqNo_Next + Len(plan) <= MaxSeqNo
  PROVE  /\ EncoderInv(sendFromBlock(e, plan))
         /\ sendFromBlock(e, plan).currBlock = e.currBlock
         /\ numBlock(sendFromBlock(e, plan)) = numBlock(e)
<1> DEFINE f == sendFromBlock(e, plan)
           sent == [k \in DOMAIN plan |-> PacketOf(e, plan, k)]
<1>1. /\ e \in EncoderState /\ e.blocks \in Seq(Block) /\ e.currBlock \in BlockNo
      /\ e.seqNo_Next \in 0 .. MaxSeqNo
      /\ e.dataToSend \in Seq(PacketsBelow(End(e)))
  BY DEF EncoderInv, EncoderState
<1>2. DOMAIN plan = 1 .. Len(plan) /\ Len(plan) \in Nat
  OBVIOUS
<1>3. Marked(e, plan) \in Seq(Block) /\ Len(Marked(e, plan)) = Len(e.blocks)
  <2>1. ASSUME NEW i \in DOMAIN e.blocks
        PROVE  [e.blocks[i] EXCEPT !.isSentPacket =
                  min(@ + SentFrom(plan, Len(plan), i), nPackets(e.blocks[i]))] \in Block
    <3>1. e.blocks[i] \in Block BY <1>1
    <3>2. nPackets(e.blocks[i]) \in Nat BY <3>1, BlockFacts DEF Dofs
    <3>3. SentFrom(plan, Len(plan), i) \in Nat BY <1>2, SentFromType
    <3>4. min(e.blocks[i].isSentPacket + SentFrom(plan, Len(plan), i),
              nPackets(e.blocks[i])) \in Nat
      BY <3>1, <3>2, <3>3 DEF min, Block
    <3> QED BY <3>1, <3>4 DEF Block
  <2>2. DOMAIN e.blocks = 1 .. Len(e.blocks) /\ Len(e.blocks) \in Nat
    BY <1>1
  <2>3. Marked(e, plan) \in [1 .. Len(e.blocks) -> Block]
    BY <2>1, <2>2 DEF Marked
  <2> QED BY <2>2, <2>3
<1>4. InfosOf(e, plan) \subseteq PacketSentInfo
  <2>1. ASSUME NEW k \in DOMAIN plan
        PROVE  /\ e.seqNo_Next + k - 1 \in SeqNo
               /\ (e.currBlock + plan[k] - 1) % BLOCKNO_MOD \in BlockNo
    <3>1. plan[k] \in Int BY <1>1, <1>2
    <3>2. e.currBlock \in Int BY <1>1, PacketAssumption DEF BlockNo
    <3>3. e.currBlock + plan[k] - 1 \in Int BY <3>1, <3>2
    <3>4. e.seqNo_Next + k - 1 \in SeqNo
      BY <1>1, <1>2, PacketAssumption DEF SeqNo
    <3> QED BY <3>3, <3>4, ModFacts
  <2> QED BY <2>1 DEF InfosOf, PacketSentInfo
<1>5. PacketsOf(e, plan) \in Seq(PacketsBelow(End(e)))
  BY <1>2, PacketOfType DEF PacketsOf
<1> HIDE DEF f
<1>6. f.seqNo_Next = e.seqNo_Next + Len(plan) /\ f.seqNo_Next \in 0 .. MaxSeqNo
  BY <1>1, <1>2, PacketAssumption DEF sendFromBlock, EncoderState, f
<1>7. f.currBlock = e.currBlock /\ End(f) = End(e) /\ numBlock(f) = numBlock(e)
  BY <1>1, <1>3 DEF sendFromBlock, EncoderState, End, numBlock, f
<1>8. f.dataToSend \in Seq(PacketsBelow(End(e)))
  BY <1>1, <1>5, ConcatProperties DEF sendFromBlock, EncoderState, f
<1>9. f.dataToSend \in Seq(DataPacket)
  BY <1>8, SeqMonotonic DEF PacketsBelow
<1>10. f \in EncoderState
  BY <1>1, <1>3, <1>4, <1>6, <1>9 DEF sendFromBlock, EncoderState, f
<1> QED BY <1>7, <1>8, <1>10 DEF EncoderInv, f

\* An encoder f that comes from e with the same last block.
Follows(e, f) == EncoderInv(f) /\ End(f) = End(e)

\* onWindowUpdate sends packets of the blocks there are and nothing else.
LEMMA OnWindowUpdateType ==
  ASSUME NEW e, EncoderInv(e), NEW cuts, NEW f \in onWindowUpdate(e, cuts)
  PROVE  Follows(e, f) /\ f.currBlock = e.currBlock
<1>1. CASE ~e.isOutstandingData
  BY <1>1 DEF onWindowUpdate, Follows
<1>2. CASE e.isOutstandingData
  <2>1. PICK cut \in cuts : \E plan \in Plans(e, cut) :
          /\ e.seqNo_Next + Len(plan) <= MaxSeqNo
          /\ f = [sendFromBlock(e, plan) EXCEPT
                   !.isOutstandingData = totalInFlight(e, cut) + Len(plan) > 0]
    BY <1>2 DEF onWindowUpdate
  <2>2. PICK plan \in Plans(e, cut) :
          /\ e.seqNo_Next + Len(plan) <= MaxSeqNo
          /\ f = [sendFromBlock(e, plan) EXCEPT
                   !.isOutstandingData = totalInFlight(e, cut) + Len(plan) > 0]
    BY <2>1
  <2>3. plan \in Seq(DOMAIN e.blocks)
    BY PlansType DEF EncoderInv
  <2> DEFINE g == sendFromBlock(e, plan)
             more == totalInFlight(e, cut) + Len(plan) > 0
  <2>4. /\ EncoderInv(g) /\ g.currBlock = e.currBlock /\ End(g) = End(e)
    BY <2>2, <2>3, SendFromBlockType DEF End
  <2>5. more \in BOOLEAN
    OBVIOUS
  <2>6. f = [g EXCEPT !.isOutstandingData = more]
    BY <2>2
  <2> HIDE DEF g, more
  <2>7. /\ f \in EncoderState /\ f.dataToSend = g.dataToSend
        /\ f.blocks = g.blocks /\ f.currBlock = g.currBlock
    BY <2>4, <2>5, <2>6 DEF EncoderInv, EncoderState
  <2> QED BY <2>4, <2>7 DEF EncoderInv, Follows, End, numBlock
<1> QED BY <1>1, <1>2

\* ThenSend, from states that all follow from e with the same current block.
LEMMA ThenSendType ==
  ASSUME NEW e, NEW states, NEW cuts, NEW f \in ThenSend(states, cuts),
         \A g \in states : Follows(e, g) /\ g.currBlock = e.currBlock
  PROVE  Follows(e, f) /\ f.currBlock = e.currBlock
<1>1. PICK g \in states : f \in onWindowUpdate(g, cuts)
  BY DEF ThenSend
<1>2. Follows(e, g) /\ g.currBlock = e.currBlock
  OBVIOUS
<1>3. Follows(g, f) /\ f.currBlock = g.currBlock
  BY <1>1, <1>2, OnWindowUpdateType DEF Follows
<1> QED BY <1>2, <1>3 DEF Follows

\* A timeout resets the window and sends packets of the same blocks.
LEMMA OnTimeOutType ==
  ASSUME NEW e, EncoderInv(e), NEW cuts, NEW f \in onTimeOut(e, cuts)
  PROVE  Follows(e, f) /\ f.currBlock = e.currBlock
<1> DEFINE g == [e EXCEPT !.slowStartMode = TRUE, !.congestionWindow = BASE_WINDOW,
                   !.nextTimeout = IF e.isOutstandingData THEN "armed" ELSE "past"]
<1>1. g \in EncoderState /\ g.currBlock = e.currBlock /\ g.blocks = e.blocks
      /\ g.dataToSend = e.dataToSend
  BY EncoderAssumption DEF EncoderInv, EncoderState
<1>2. Follows(e, g)
  BY <1>1 DEF Follows, EncoderInv, End, numBlock
<1>3. f \in ThenSend({g}, cuts)
  BY DEF onTimeOut
<1> HIDE DEF g
<1> QED BY <1>1, <1>2, <1>3, ThenSendType

\* Sending what is queued changes no block.
LEMMA FlushType ==
  ASSUME NEW e, EncoderInv(e)
  PROVE  Follows(e, flush(e)) /\ flush(e).currBlock = e.currBlock
<1>1. flush(e) \in EncoderState /\ flush(e).currBlock = e.currBlock
      /\ flush(e).blocks = e.blocks /\ flush(e).dataToSend = <<>>
  <2>1. <<>> \in Seq(DataPacket)
    OBVIOUS
  <2> QED BY <2>1 DEF flush, EncoderInv, EncoderState
<1> QED BY <1>1 DEF Follows, EncoderInv, End, numBlock

\* Storing a read of packets appends at most one block.
LEMMA StoredType ==
  ASSUME NEW blocks \in Seq(Block), NEW packets \in Seq(Symbol),
         Len(packets) \in 1 .. BLKSIZE, NEW bs \in Stored(blocks, packets)
  PROVE  /\ bs \in Seq(Block)
         /\ Len(bs) \in Len(blocks) .. Len(blocks) + 1
<1> DEFINE allFull == \A i \in DOMAIN blocks : Full(blocks[i])
           known == IF allFull THEN Append(blocks, blockCreate) ELSE blocks
           room(i) == min(BLKSIZE - nPackets(known[i]), Len(packets))
           fill(i) == known[i].data \o SubSeq(packets, 1, room(i))
           filled(i) == [known EXCEPT ![i].data = @ \o SubSeq(packets, 1, room(i))]
           rest(i) == SubSeq(packets, room(i) + 1, Len(packets))
           opened(i) == [blockCreate EXCEPT !.data = rest(i)]
<1>1. PICK i \in DOMAIN known :
        /\ ~Full(known[i])
        /\ bs = IF rest(i) = <<>> THEN filled(i) ELSE Append(filled(i), opened(i))
  BY DEF Stored
<1>2. blockCreate \in Block /\ nPackets(blockCreate) = 0
  <2>1. <<>> \in BlockData
    <3>1. <<>> \in Seq(Symbol) /\ Len(<<>>) = 0
      OBVIOUS
    <3>2. 0 \in Dofs
      BY BlksizeAssumption DEF Dofs
    <3> QED BY <3>1, <3>2, BlockDataIsSeq
  <2> QED BY <2>1 DEF blockCreate, Block, nPackets
<1>3. /\ known \in Seq(Block)
      /\ Len(known) = IF allFull THEN Len(blocks) + 1 ELSE Len(blocks)
      /\ Len(blocks) \in Nat
  BY <1>2, AppendProperties
<1>4. known[i] \in Block /\ i \in 1 .. Len(known)
  BY <1>3
<1>5. /\ nPackets(known[i]) \in 0 .. BLKSIZE - 1
      /\ known[i].data \in Seq(Symbol) /\ Len(known[i].data) = nPackets(known[i])
  <2>1. ~Full(known[i])
    BY <1>1
  <2> HIDE DEF known
  <2>2. nPackets(known[i]) \in Dofs /\ known[i].data \in Seq(Symbol)
    BY <1>4, BlockFacts
  <2> QED BY <2>1, <2>2, BlksizeAssumption DEF Full, Dofs, nPackets
<1>6. room(i) \in 0 .. Len(packets) /\ room(i) <= BLKSIZE - nPackets(known[i])
  BY <1>5, BlksizeAssumption DEF min
<1>7. fill(i) \in BlockData
  <2>1. /\ SubSeq(packets, 1, room(i)) \in Seq(Symbol)
        /\ Len(SubSeq(packets, 1, room(i))) = room(i)
    BY <1>6, SubSeqProperties, ElementOfSeq
  <2> HIDE DEF known, room
  <2>2. /\ fill(i) \in Seq(Symbol)
        /\ Len(fill(i)) = nPackets(known[i]) + room(i)
    BY <1>5, <2>1, ConcatProperties
  <2>3. Len(fill(i)) \in Dofs
    BY <1>5, <1>6, <2>2, BlksizeAssumption DEF Dofs
  <2> QED BY <2>2, <2>3, BlockDataIsSeq
<1>8. filled(i) \in Seq(Block) /\ Len(filled(i)) = Len(known)
  <2>1. filled(i) = [known EXCEPT ![i] = [known[i] EXCEPT !.data = fill(i)]]
    OBVIOUS
  <2>2. [known[i] EXCEPT !.data = fill(i)] \in Block
    BY <1>4, <1>7 DEF Block
  <2> HIDE DEF known, filled, fill
  <2> QED BY <1>3, <1>4, <2>1, <2>2, ExceptSeq
<1>9. rest(i) \in BlockData
  <2>1. rest(i) \in Seq(Symbol) /\ Len(rest(i)) \in 0 .. Len(packets)
    BY <1>6, SubSeqProperties, ElementOfSeq
  <2> HIDE DEF rest
  <2>2. Len(rest(i)) \in Dofs
    BY <2>1, BlksizeAssumption DEF Dofs
  <2> QED BY <2>1, <2>2, BlockDataIsSeq
<1>10. opened(i) \in Block
  BY <1>2, <1>9 DEF Block
<1>11. ASSUME allFull PROVE rest(i) = <<>>
  <2>1. i = Len(blocks) + 1
    BY <1>1, <1>3, <1>4, <1>11, AppendProperties, <1>2
  <2>2. nPackets(known[i]) = 0
    BY <1>2, <1>3, <1>11, <2>1, AppendProperties
  <2>3. room(i) = Len(packets)
    BY <2>2, BlksizeAssumption DEF min
  <2> HIDE DEF room
  <2> QED BY <2>3, SubSeqEmpty
<1> HIDE DEF known, filled, opened, rest, allFull
<1>12. CASE rest(i) = <<>>
  BY <1>1, <1>3, <1>8, <1>12
<1>13. CASE rest(i) # <<>>
  <2>1. bs = Append(filled(i), opened(i)) /\ ~allFull
    BY <1>1, <1>11, <1>13
  <2>2. bs \in Seq(Block) /\ Len(bs) = Len(filled(i)) + 1
    BY <1>8, <1>10, <2>1, AppendProperties
  <2> QED BY <1>3, <1>8, <2>1, <2>2
<1> QED BY <1>12, <1>13

\* An encoder f that comes from e with no packet sent and no block freed.
SameTables(e, f) ==
  /\ f.currBlock = e.currBlock
  /\ f.packetSentInfos = e.packetSentInfos
  /\ f.seqNo_Next = e.seqNo_Next
  /\ f.dataToSend = e.dataToSend

\* handleInClear sends from the encoder with the read stored, in one more block at
\* most and none if nothing was read.
LEMMA HandleInClearStores ==
  ASSUME NEW e, EncoderInv(e), NEW packets \in Seq(Symbol), Len(packets) \in 0 .. BLKSIZE,
         End(e) + Len(packets) < BLOCKNO_MOD,
         NEW cuts, NEW f \in handleInClear(e, packets, cuts)
  PROVE  \E g : /\ EncoderInv(g)
                /\ f \in onWindowUpdate(g, cuts)
                /\ SameTables(e, g) /\ g.congestionWindow = e.congestionWindow
                /\ g.isOutstandingData = TRUE
                /\ g.blocks \in IF packets = <<>> THEN {e.blocks}
                                ELSE Stored(e.blocks, packets)
                /\ numBlock(g) \in numBlock(e) .. numBlock(e) + 1
                /\ numBlock(g) <= numBlock(e) + Len(packets)
<1> DEFINE stored == IF packets = <<>> THEN {e.blocks} ELSE Stored(e.blocks, packets)
           after(bs) == [e EXCEPT !.blocks = bs, !.isOutstandingData = TRUE]
<1>1. e \in EncoderState /\ e.blocks \in Seq(Block) /\ e.currBlock \in Nat
      /\ End(e) \in Nat
  BY PacketAssumption DEF EncoderInv, EncoderState, BlockNo, End, numBlock
<1>2. PICK bs \in stored : f \in onWindowUpdate(after(bs), cuts)
  <2>1. handleInClear(e, packets, cuts) = ThenSend({ after(b) : b \in stored }, cuts)
    BY DEF handleInClear
  <2> HIDE DEF after, stored
  <2> QED BY <2>1 DEF ThenSend
<1>3. /\ bs \in Seq(Block)
      /\ Len(bs) \in Len(e.blocks) .. Len(e.blocks) + 1
      /\ Len(bs) <= Len(e.blocks) + Len(packets)
  <2>1. CASE packets = <<>>
    BY <1>1, <1>2, <2>1
  <2>2. CASE packets # <<>>
    <3>1. Len(packets) \in 1 .. BLKSIZE
      BY <2>2, EmptySeq
    <3> QED BY <1>1, <1>2, <2>2, <3>1, StoredType
  <2> QED BY <2>1, <2>2
<1> DEFINE g == after(bs)
<1>4. g \in EncoderState /\ g.currBlock = e.currBlock /\ g.blocks = bs
      /\ g.dataToSend = e.dataToSend
  BY <1>1, <1>3 DEF EncoderState
<1>5. f \in onWindowUpdate(g, cuts)
  BY <1>2
<1>6. /\ SameTables(e, g) /\ g.congestionWindow = e.congestionWindow
      /\ g.isOutstandingData = TRUE
  BY <1>1 DEF EncoderState, SameTables
<1> HIDE DEF g, after, stored
<1>7. End(g) \in End(e) .. End(e) + Len(packets)
  BY <1>1, <1>3, <1>4 DEF End, numBlock
<1>8. g.dataToSend \in Seq(PacketsBelow(End(g)))
  <2>1. PacketsBelow(End(e)) \subseteq PacketsBelow(End(g))
    BY <1>1, <1>7, PacketAssumption DEF PacketsBelow, DataPacket, BlockNo
  <2> QED BY <1>4, <2>1, SeqMonotonic DEF EncoderInv
<1>9. EncoderInv(g)
  BY <1>1, <1>4, <1>7, <1>8, PacketAssumption DEF EncoderInv
<1>10. g.blocks \in IF packets = <<>> THEN {e.blocks} ELSE Stored(e.blocks, packets)
  BY <1>2, <1>4 DEF stored
<1> QED BY <1>3, <1>4, <1>5, <1>6, <1>9, <1>10 DEF numBlock

\* A read of TCP data appends blocks, at most as many as packets were read.
LEMMA HandleInClearType ==
  ASSUME NEW e, EncoderInv(e), NEW packets \in Seq(Symbol), Len(packets) \in 0 .. BLKSIZE,
         End(e) + Len(packets) < BLOCKNO_MOD,
         NEW cuts, NEW f \in handleInClear(e, packets, cuts)
  PROVE  /\ EncoderInv(f)
         /\ f.currBlock = e.currBlock
         /\ End(f) \in End(e) .. End(e) + Len(packets)
<1>1. PICK g : /\ EncoderInv(g)
               /\ f \in onWindowUpdate(g, cuts)
               /\ SameTables(e, g) /\ g.congestionWindow = e.congestionWindow
               /\ numBlock(g) \in numBlock(e) .. numBlock(e) + 1
               /\ numBlock(g) <= numBlock(e) + Len(packets)
  BY HandleInClearStores
<1>2. g.currBlock = e.currBlock /\ e.currBlock \in Nat /\ numBlock(e) \in Nat
  BY <1>1, PacketAssumption DEF SameTables, EncoderInv, EncoderState, BlockNo, numBlock
<1>3. End(g) \in End(e) .. End(e) + Len(packets)
  BY <1>1, <1>2 DEF End
<1> QED BY <1>1, <1>2, <1>3, OnWindowUpdateType DEF Follows

\* FreeAcked moves the encoder to the ACK's block, never beyond its last one.
LEMMA FreeAckedType ==
  ASSUME NEW e, EncoderInv(e), NEW ack \in AckPacket, ack.ack_currBlock <= End(e)
  PROVE  /\ Follows(e, FreeAcked(e, ack))
         /\ FreeAcked(e, ack).currBlock = max(e.currBlock, ack.ack_currBlock)
<1> DEFINE acked == max(0, ack.ack_currBlock - e.currBlock)
           kept == SubSeq(e.blocks, acked + 1, Len(e.blocks))
           infos == { r \in e.packetSentInfos :
                        r.blockNo \notin e.currBlock .. e.currBlock + acked - 1 }
           f == FreeAcked(e, ack)
<1>1. e \in EncoderState /\ e.blocks \in Seq(Block) /\ e.currBlock \in BlockNo
      /\ ack.ack_currBlock \in BlockNo /\ Len(e.blocks) \in Nat
  BY DEF EncoderInv, EncoderState, AckPacket
<1>2. acked \in 0 .. Len(e.blocks)
  BY <1>1, PacketAssumption DEF max, BlockNo, End, numBlock
<1>3. kept \in Seq(Block) /\ Len(kept) = Len(e.blocks) - acked
  <2> HIDE DEF acked
  <2> QED BY <1>1, <1>2, SubSeqProperties, ElementOfSeq
<1>4. max(e.currBlock, ack.ack_currBlock) \in BlockNo
  BY <1>1, PacketAssumption DEF max, BlockNo
<1>5. max(e.currBlock, ack.ack_currBlock) = e.currBlock + acked
  BY <1>1, PacketAssumption DEF max, BlockNo
<1>6. f = [e EXCEPT !.blocks = kept, !.packetSentInfos = infos,
                    !.currBlock = max(e.currBlock, ack.ack_currBlock)]
  BY <1>1 DEF FreeAcked, EncoderState
<1>7. infos \in SUBSET PacketSentInfo
  BY <1>1 DEF EncoderState
<1> HIDE DEF kept, infos, f, acked
<1>8. f \in EncoderState /\ f.blocks = kept /\ f.dataToSend = e.dataToSend
      /\ f.currBlock = max(e.currBlock, ack.ack_currBlock)
  BY <1>1, <1>3, <1>4, <1>6, <1>7 DEF EncoderState
<1>9. End(f) = End(e)
  BY <1>1, <1>2, <1>3, <1>5, <1>8, PacketAssumption DEF End, numBlock, BlockNo
<1> QED BY <1>8, <1>9 DEF Follows, EncoderInv, f

\* Crediting the counts of an ACK moves no block.
LEMMA RaiseDofsType ==
  ASSUME NEW e, EncoderInv(e), NEW ack \in AckPacket
  PROVE  Follows(e, RaiseDofs(e, ack)) /\ RaiseDofs(e, ack).currBlock = e.currBlock
<1> DEFINE bs == Credited(e.blocks, ack.ack_dofs)
<1>1. e \in EncoderState /\ e.blocks \in Seq(Block)
      /\ DOMAIN e.blocks = 1 .. Len(e.blocks) /\ Len(e.blocks) \in Nat
  BY DEF EncoderInv, EncoderState
<1>2. bs \in [1 .. Len(e.blocks) -> Block]
  <2>1. ASSUME NEW i \in 1 .. Len(e.blocks), i <= DOFS_LENGTH
        PROVE  [e.blocks[i] EXCEPT !.dofs = max(@, ack.ack_dofs[i])] \in Block
    <3>1. e.blocks[i] \in Block
      BY <1>1
    <3>2. ack.ack_dofs[i] \in Nat
      BY <2>1, PacketAssumption DEF AckPacket
    <3>3. max(e.blocks[i].dofs, ack.ack_dofs[i]) \in Nat
      BY <3>1, <3>2 DEF max, Block
    <3> QED BY <3>1, <3>3 DEF Block
  <2> QED BY <1>1, <2>1 DEF Credited
<1>3. bs \in Seq(Block) /\ Len(bs) = Len(e.blocks)
  BY <1>1, <1>2
<1> HIDE DEF bs
<1>4. RaiseDofs(e, ack) = [e EXCEPT !.blocks = bs]
  BY DEF RaiseDofs, bs
<1> QED BY <1>1, <1>3, <1>4 DEF Follows, EncoderInv, EncoderState, End, numBlock

\* Changing the window moves no block.
LEMMA AdjustWindowType ==
  ASSUME NEW e, EncoderInv(e), NEW w \in Windows(e)
  PROVE  Follows(e, AdjustWindow(e, w)) /\ AdjustWindow(e, w).currBlock = e.currBlock
<1>1. e \in EncoderState /\ e.congestionWindow \in Nat
  BY DEF EncoderInv, EncoderState
<1>2. w \in Nat
  BY <1>1, EncoderAssumption DEF Windows
<1>3. (e.slowStartMode /\ w <= SS_THRESHOLD) \in BOOLEAN
  OBVIOUS
<1> QED BY <1>1, <1>2, <1>3
  DEF AdjustWindow, Follows, EncoderInv, EncoderState, End, numBlock

\* Setting the timer moves no block.
LEMMA RearmTimerType ==
  ASSUME NEW e, EncoderInv(e)
  PROVE  Follows(e, RearmTimer(e)) /\ RearmTimer(e).currBlock = e.currBlock
BY DEF RearmTimer, Follows, EncoderInv, EncoderState, End, numBlock

\* The window of an encoder is not changed by what onAck does before it.
LEMMA WindowsKept ==
  ASSUME NEW e, EncoderInv(e), NEW f, EncoderInv(f),
         f.slowStartMode = e.slowStartMode, f.congestionWindow = e.congestionWindow
  PROVE  Windows(f) = Windows(e)
BY DEF Windows

\* What onAck changes before it sends: the encoder reaches the ACK's block and keeps
\* its last one.
LEMMA AcknowledgedType ==
  ASSUME NEW e, EncoderInv(e), NEW ack \in AckPacket, ack.ack_currBlock <= End(e),
         NEW w \in Windows(e)
  PROVE  /\ Follows(e, Acknowledged(e, ack, w))
         /\ Acknowledged(e, ack, w).currBlock = max(e.currBlock, ack.ack_currBlock)
<1> DEFINE a == [e EXCEPT !.p = ack.ack_loss]
           b == FreeAcked(a, ack)
           c == RaiseDofs(b, ack)
           d == AdjustWindow(c, w)
           f == [d EXCEPT !.seqNo_Una = ack.ack_seqNo + 1]
<1>1. e \in EncoderState /\ ack.ack_loss \in LossRatio /\ ack.ack_seqNo \in SeqNo
  BY DEF EncoderInv, AckPacket
<1>2. /\ Follows(e, a) /\ a.currBlock = e.currBlock /\ a \in EncoderState
      /\ a.slowStartMode = e.slowStartMode /\ a.congestionWindow = e.congestionWindow
  BY <1>1 DEF Follows, EncoderInv, EncoderState, End, numBlock
<1> HIDE DEF a
<1>3. /\ Follows(a, b) /\ b.currBlock = max(e.currBlock, ack.ack_currBlock)
  BY <1>2, FreeAckedType DEF Follows
<1>4. b.slowStartMode = e.slowStartMode /\ b.congestionWindow = e.congestionWindow
  BY <1>2 DEF FreeAcked, EncoderState
<1> HIDE DEF b
<1>5. Follows(b, c) /\ c.currBlock = b.currBlock
  BY <1>3, RaiseDofsType DEF Follows
<1>6. c.slowStartMode = e.slowStartMode /\ c.congestionWindow = e.congestionWindow
  BY <1>3, <1>4 DEF RaiseDofs, Follows, EncoderInv, EncoderState
<1> HIDE DEF c
<1>7. Follows(c, d) /\ d.currBlock = c.currBlock
  BY <1>5, <1>6, WindowsKept, AdjustWindowType DEF Follows
<1> HIDE DEF d
<1>8. /\ f \in EncoderState /\ f.blocks = d.blocks /\ f.currBlock = d.currBlock
      /\ f.dataToSend = d.dataToSend
  <2>1. ack.ack_seqNo + 1 \in 0 .. MaxSeqNo
    BY <1>1, PacketAssumption DEF SeqNo
  <2> QED BY <1>7, <2>1 DEF Follows, EncoderInv, EncoderState
<1>9. Follows(e, f) /\ f.currBlock = max(e.currBlock, ack.ack_currBlock)
  BY <1>2, <1>3, <1>5, <1>7, <1>8 DEF Follows, EncoderInv, End, numBlock
<1> QED BY <1>9 DEF Acknowledged, a, b, c, d

\* onAck frees blocks up to the ACK's and sends packets of those that are left.
LEMMA OnAckType ==
  ASSUME NEW e, EncoderInv(e), NEW ack \in AckPacket, ack.ack_currBlock <= End(e),
         NEW cuts, NEW f \in onAck(e, ack, cuts)
  PROVE  /\ Follows(e, f)
         /\ f.currBlock \in {e.currBlock, max(e.currBlock, ack.ack_currBlock)}
<1> DEFINE una == [e EXCEPT !.seqNo_Una = ack.ack_seqNo + 1]
           acked(w, exits) == [Acknowledged(e, ack, w) EXCEPT !.exited = exits]
           after(exits) == { acked(w, exits) : w \in { v \in Windows(e) : MayEnd(v, exits) } }
<1>1. e \in EncoderState
  BY DEF EncoderInv
<1>2. \/ f = e
      \/ f = una
      \/ f \in after(TRUE)
      \/ \E g \in ThenSend(after(FALSE), cuts) : f = RearmTimer(g)
  BY DEF onAck
<1>3. CASE f = e
  BY <1>3 DEF Follows
<1>4. CASE f = una
  <2>1. ack.ack_seqNo + 1 \in 0 .. MaxSeqNo
    BY PacketAssumption DEF AckPacket, SeqNo
  <2> QED BY <1>1, <1>4, <2>1 DEF Follows, EncoderInv, EncoderState, End, numBlock
<1>5. ASSUME NEW exits \in BOOLEAN, NEW g \in after(exits)
      PROVE  Follows(e, g) /\ g.currBlock = max(e.currBlock, ack.ack_currBlock)
  <2>1. PICK w \in Windows(e) : g = acked(w, exits)
    OBVIOUS
  <2> DEFINE h == Acknowledged(e, ack, w)
  <2>2. Follows(e, h) /\ h.currBlock = max(e.currBlock, ack.ack_currBlock)
    BY AcknowledgedType
  <2>3. g = [h EXCEPT !.exited = exits]
    BY <2>1
  <2> HIDE DEF h
  <2> QED BY <2>2, <2>3 DEF Follows, EncoderInv, EncoderState, End, numBlock
<1>6. CASE f \in after(TRUE)
  BY <1>5, <1>6
<1>7. CASE \E g \in ThenSend(after(FALSE), cuts) : f = RearmTimer(g)
  <2> HIDE DEF after
  <2>1. PICK g \in ThenSend(after(FALSE), cuts) : f = RearmTimer(g)
    BY <1>7
  <2>2. PICK h \in after(FALSE) : g \in onWindowUpdate(h, cuts)
    BY <2>1 DEF ThenSend
  <2>3. Follows(e, h) /\ h.currBlock = max(e.currBlock, ack.ack_currBlock)
    BY <1>5, <2>2
  <2>4. Follows(h, g) /\ g.currBlock = h.currBlock
    BY <2>2, <2>3, OnWindowUpdateType DEF Follows
  <2>5. Follows(g, f) /\ f.currBlock = g.currBlock
    BY <2>1, <2>4, RearmTimerType DEF Follows
  <2> QED BY <2>3, <2>4, <2>5 DEF Follows
<1> QED BY <1>2, <1>3, <1>4, <1>6, <1>7

-----------------------------------------------------------------------------
(* The decoder *)

\* The block after the last one a decoder has allocated.
EndOf(d) == d.currBlock + nAllocated(d)

DecoderInv(d) ==
  /\ d \in DecoderState
  /\ Len(d.isSentPacketInBlock) = nAllocated(d)
  /\ \A b \in 2 .. nAllocated(d) : d.isSentPacketInBlock[b] = 0

\* What the decoder handed over of its first block.
SentOfFirst(d) == IF nAllocated(d) > 0 THEN d.isSentPacketInBlock[1] ELSE 0

\* A sequence of counters is prolonged with zeros, up to n of them.
LEMMA GrownType ==
  ASSUME NEW s \in Seq(Nat), NEW n \in Nat, n >= Len(s)
  PROVE  /\ Grown(s, n, 0) \in Seq(Nat)
         /\ Len(Grown(s, n, 0)) = n
         /\ \A i \in 1 .. n : Grown(s, n, 0)[i] = IF i <= Len(s) THEN s[i] ELSE 0
<1> DEFINE t == [i \in 1 .. n - Len(s) |-> 0]
<1>1. t \in Seq(Nat) /\ Len(t) = n - Len(s) /\ \A i \in 1 .. Len(t) : t[i] = 0
  OBVIOUS
<1> HIDE DEF t
<1>2. Grown(s, n, 0) = s \o t
  BY DEF Grown, t
<1>3. /\ s \o t \in Seq(Nat) /\ Len(s \o t) = n
      /\ \A i \in 1 .. n : (s \o t)[i] = IF i <= Len(s) THEN s[i] ELSE t[i - Len(s)]
  BY <1>1, ConcatProperties
<1>4. ASSUME NEW i \in 1 .. n PROVE (s \o t)[i] = IF i <= Len(s) THEN s[i] ELSE 0
  <2>1. i > Len(s) => i - Len(s) \in 1 .. Len(t)
    BY <1>1
  <2>2. i > Len(s) => t[i - Len(s)] = 0
    BY <1>1, <2>1
  <2> QED BY <1>3, <2>2
<1> QED BY <1>2, <1>3, <1>4

\* Allocating for a packet adds empty blocks behind, up to the packet's.
LEMMA AllocateType ==
  ASSUME NEW d, DecoderInv(d), NEW pkt \in DataPacket
  PROVE  /\ DecoderInv(allocate(d, pkt))
         /\ allocate(d, pkt).currBlock = d.currBlock
         /\ nAllocated(allocate(d, pkt)) = nAllocatedFor(d, pkt)
         /\ nAllocatedFor(d, pkt) >= nAllocated(d)
         /\ EndOf(allocate(d, pkt)) \in {EndOf(d), pkt.blockNo + 1}
         /\ SentOfFirst(allocate(d, pkt)) = SentOfFirst(d)
<1> DEFINE n == nAllocatedFor(d, pkt)
           f == allocate(d, pkt)
<1>1. /\ d.currBlock \in BlockNo /\ pkt.blockNo \in BlockNo
      /\ d.nPacketsInBlock \in Seq(Nat) /\ d.isSentPacketInBlock \in Seq(Nat)
      /\ nAllocated(d) = Len(d.nPacketsInBlock) /\ nAllocated(d) \in Nat
      /\ Len(d.isSentPacketInBlock) = nAllocated(d)
  BY DEF DecoderInv, DecoderState, DataPacket, nAllocated
<1>2. /\ n \in Nat /\ n >= nAllocated(d)
      /\ d.currBlock + n \in {d.currBlock + nAllocated(d), pkt.blockNo + 1}
  BY <1>1, PacketAssumption DEF nAllocatedFor, max, BlockNo
<1>3. /\ f.currBlock = d.currBlock
      /\ f.nPacketsInBlock = Grown(d.nPacketsInBlock, n, 0)
      /\ f.isSentPacketInBlock = Grown(d.isSentPacketInBlock, n, 0)
      /\ f = [d EXCEPT !.nPacketsInBlock = Grown(d.nPacketsInBlock, n, 0),
                       !.isSentPacketInBlock = Grown(d.isSentPacketInBlock, n, 0)]
  BY DEF allocate, DecoderInv, DecoderState
<1> HIDE DEF n, f
<1>4. f.nPacketsInBlock \in Seq(Nat) /\ Len(f.nPacketsInBlock) = n
  BY <1>1, <1>2, <1>3, GrownType
<1>5. /\ f.isSentPacketInBlock \in Seq(Nat) /\ Len(f.isSentPacketInBlock) = n
      /\ \A i \in 1 .. n : f.isSentPacketInBlock[i] =
           IF i <= nAllocated(d) THEN d.isSentPacketInBlock[i] ELSE 0
  <2> DEFINE s == d.isSentPacketInBlock
  <2>1. s \in Seq(Nat) /\ Len(s) = nAllocated(d) /\ n \in Nat /\ n >= Len(s) /\ 0 \in Nat
    BY <1>1, <1>2
  <2>2. f.isSentPacketInBlock = Grown(s, n, 0)
    BY <1>3
  <2> HIDE DEF s
  <2>3. /\ Grown(s, n, 0) \in Seq(Nat) /\ Len(Grown(s, n, 0)) = n
        /\ \A i \in 1 .. n : Grown(s, n, 0)[i] = IF i <= Len(s) THEN s[i] ELSE 0
    BY <2>1, GrownType
  <2>4. \A i \in 1 .. n : Grown(s, n, 0)[i] = IF i <= nAllocated(d) THEN s[i] ELSE 0
    BY <2>1, <2>3
  <2> QED BY <2>2, <2>3, <2>4 DEF s
<1>6. f \in DecoderState
  BY <1>3, <1>4, <1>5 DEF DecoderInv, DecoderState
<1>7. nAllocated(f) = n
  BY <1>4 DEF nAllocated
<1>8. DecoderInv(f)
  <2>1. ASSUME NEW b \in 2 .. nAllocated(f)
        PROVE  f.isSentPacketInBlock[b] = 0
    <3>1. f.isSentPacketInBlock[b] =
            IF b <= nAllocated(d) THEN d.isSentPacketInBlock[b] ELSE 0
      BY <1>2, <1>5, <1>7
    <3>2. b <= nAllocated(d) => d.isSentPacketInBlock[b] = 0
      BY <1>1, <1>2, <1>7 DEF DecoderInv
    <3> QED BY <3>1, <3>2
  <2> QED BY <1>5, <1>6, <1>7, <2>1 DEF DecoderInv
<1>9. SentOfFirst(f) = SentOfFirst(d)
  BY <1>1, <1>2, <1>5, <1>7 DEF SentOfFirst
<1>10. EndOf(f) \in {EndOf(d), pkt.blockNo + 1}
  BY <1>2, <1>3, <1>7 DEF EndOf
<1> QED BY <1>2, <1>3, <1>7, <1>8, <1>9, <1>10 DEF f, n

\* Appending a packet changes no counter of what was handed over.
LEMMA AppendedType ==
  ASSUME NEW d, DecoderInv(d), NEW rs, NEW pkt \in DataPacket
  PROVE  /\ DecoderInv(appended(d, rs, pkt).dec)
         /\ appended(d, rs, pkt).dec.currBlock = d.currBlock
         /\ EndOf(appended(d, rs, pkt).dec) \in {EndOf(d), pkt.blockNo + 1}
         /\ SentOfFirst(appended(d, rs, pkt).dec) = SentOfFirst(d)
<1> DEFINE f == allocate(d, pkt)
           b == pkt.blockNo - d.currBlock + 1
           g == [f EXCEPT !.nPacketsInBlock[b] = @ + 1]
<1>1. /\ DecoderInv(f) /\ f.currBlock = d.currBlock
      /\ nAllocated(f) = nAllocatedFor(d, pkt)
      /\ EndOf(f) \in {EndOf(d), pkt.blockNo + 1}
      /\ SentOfFirst(f) = SentOfFirst(d)
  BY AllocateType
<1>2. \/ appended(d, rs, pkt).dec = f
      \/ appended(d, rs, pkt).dec = g /\ pkt.blockNo >= d.currBlock
  BY DEF appended, isAppended
<1>3. ASSUME pkt.blockNo >= d.currBlock
      PROVE  b \in 1 .. nAllocated(f)
  <2>1. d.currBlock \in Nat /\ pkt.blockNo \in Nat /\ nAllocated(d) \in Nat
    BY PacketAssumption DEF DecoderInv, DecoderState, DataPacket, BlockNo, nAllocated
  <2> QED BY <1>1, <1>3, <2>1 DEF nAllocatedFor, max
<1> HIDE DEF f, b
<1>4. ASSUME pkt.blockNo >= d.currBlock
      PROVE  /\ DecoderInv(g) /\ g.currBlock = f.currBlock
             /\ nAllocated(g) = nAllocated(f)
             /\ g.isSentPacketInBlock = f.isSentPacketInBlock
  <2> DEFINE s == [f.nPacketsInBlock EXCEPT ![b] = f.nPacketsInBlock[b] + 1]
  <2>1. f \in DecoderState /\ f.nPacketsInBlock \in Seq(Nat)
        /\ b \in 1 .. Len(f.nPacketsInBlock)
    BY <1>1, <1>3, <1>4 DEF DecoderInv, DecoderState, nAllocated
  <2>2. f.nPacketsInBlock[b] + 1 \in Nat
    BY <2>1
  <2>3. s \in Seq(Nat) /\ Len(s) = Len(f.nPacketsInBlock)
    BY <2>1, <2>2, ExceptSeq
  <2>4. g = [f EXCEPT !.nPacketsInBlock = s]
    BY <2>1 DEF DecoderState
  <2> HIDE DEF g, s
  <2>5. /\ g \in DecoderState /\ g.currBlock = f.currBlock /\ g.nPacketsInBlock = s
        /\ g.isSentPacketInBlock = f.isSentPacketInBlock
    BY <2>1, <2>3, <2>4 DEF DecoderState
  <2> QED BY <1>1, <2>3, <2>5 DEF DecoderInv, nAllocated
<1> HIDE DEF g
<1> QED BY <1>1, <1>2, <1>4 DEF SentOfFirst, EndOf, f

\* The rows decoded of a block are a number.
LEMMA nDecodedType ==
  ASSUME NEW matrix, NEW n \in Nat
  PROVE  nDecoded(matrix, n) \in Nat
<1> DEFINE S == { i \in 0 .. n - 1 : \A j \in 0 .. i : isZeroAndOneAt(matrix[j], j) }
<1>1. IsFiniteSet(0 .. n - 1) /\ S \in SUBSET (0 .. n - 1)
  BY FS_Interval
<1>2. IsFiniteSet(S)
  BY <1>1, FS_Subset
<1> QED BY <1>2, FS_CardinalityType DEF nDecoded

\* What is known of a decoder after handing over, with the number of packets that
\* is written to the TCP socket.
HandedOver(d, f, n) ==
  /\ DecoderInv(f)
  /\ f.currBlock \in {d.currBlock, d.currBlock + 1}
  /\ EndOf(f) = EndOf(d)
  /\ (f.currBlock - d.currBlock) * BLKSIZE + SentOfFirst(f) <= SentOfFirst(d) + n

\* Handing over moves the first block's count, or the decoder to the next block.
LEMMA HandOverType ==
  ASSUME NEW d, DecoderInv(d), EndOf(d) < BLOCKNO_MOD, nAllocated(d) > 0,
         NEW sent \in Nat
  PROVE  HandedOver(d, handOver(d, sent), max(0, sent - d.isSentPacketInBlock[1]))
<1> DEFINE s == d.isSentPacketInBlock
           n == d.nPacketsInBlock
           f == handOver(d, sent)
<1>1. /\ d \in DecoderState /\ s \in Seq(Nat) /\ n \in Seq(Nat) /\ Len(s) = Len(n)
      /\ Len(n) \in Nat /\ Len(n) > 0 /\ d.currBlock \in BlockNo
      /\ d.currBlock + Len(n) < BLOCKNO_MOD
      /\ nAllocated(d) = Len(n) /\ s[1] \in Nat
      /\ \A b \in 2 .. Len(n) : s[b] = 0
  BY DEF DecoderInv, DecoderState, nAllocated, EndOf
<1>2. SentOfFirst(d) = s[1]
  BY DEF SentOfFirst
<1>3. CASE isBlockDone(n[1], sent)
  <2>1. sent = BLKSIZE
    BY <1>3 DEF isBlockDone
  <2>2. (d.currBlock + 1) % BLOCKNO_MOD = d.currBlock + 1 /\ d.currBlock + 1 \in BlockNo
    <3>1. d.currBlock + 1 \in BlockNo
      BY <1>1, PacketAssumption DEF BlockNo
    <3>2. d.currBlock + 1 \in Int
      BY <3>1, PacketAssumption DEF BlockNo
    <3> QED BY <3>1, <3>2, ModFacts
  <2>3. /\ f.currBlock = d.currBlock + 1
        /\ f.nPacketsInBlock = Tail(n) /\ f.isSentPacketInBlock = Tail(s)
        /\ f = [currBlock |-> d.currBlock + 1, nPacketsInBlock |-> Tail(n),
                isSentPacketInBlock |-> Tail(s)]
    BY <1>3, <2>2 DEF handOver
  <2> HIDE DEF f, s, n
  <2>4. /\ Tail(n) \in Seq(Nat) /\ Len(Tail(n)) = Len(n) - 1
        /\ Tail(s) \in Seq(Nat) /\ Len(Tail(s)) = Len(n) - 1
    BY <1>1, EmptySeq, HeadTailProperties
  <2>5. \A b \in 1 .. Len(n) - 1 : Tail(s)[b] = 0
    <3> TAKE b \in 1 .. Len(n) - 1
    <3>1. Tail(s)[b] = s[b + 1]
      BY <1>1, EmptySeq, HeadTailProperties
    <3> QED BY <1>1, <3>1
  <2>6. f \in DecoderState
    BY <2>2, <2>3, <2>4 DEF DecoderState
  <2>7. nAllocated(f) = Len(n) - 1
    BY <2>3, <2>4 DEF nAllocated
  <2>8. DecoderInv(f)
    <3>1. f.isSentPacketInBlock = Tail(s)
      BY <2>3
    <3>2. \A b \in 2 .. Len(n) - 1 : Tail(s)[b] = 0
      BY <1>1, <2>5
    <3> QED BY <2>4, <2>6, <2>7, <3>1, <3>2 DEF DecoderInv
  <2>9. SentOfFirst(f) = 0
    BY <1>1, <2>3, <2>5, <2>7 DEF SentOfFirst
  <2>10. EndOf(f) = EndOf(d)
    <3>1. f.currBlock = d.currBlock + 1 /\ d.currBlock \in Nat
      BY <1>1, <2>3, PacketAssumption DEF BlockNo
    <3>2. nAllocated(d) = Len(n) /\ Len(n) \in Nat
      BY <1>1
    <3> QED BY <2>7, <3>1, <3>2 DEF EndOf
  <2>11. (f.currBlock - d.currBlock) * BLKSIZE = BLKSIZE
    BY <1>1, <2>3, BlksizeAssumption, PacketAssumption DEF BlockNo
  <2>12. BLKSIZE <= s[1] + max(0, sent - s[1])
    BY <1>1, <2>1, BlksizeAssumption DEF max
  <2>13. SentOfFirst(f) <= 0 /\ BLKSIZE + SentOfFirst(f) = BLKSIZE
    BY <2>9, BlksizeAssumption
  <2> QED BY <1>2, <2>3, <2>8, <2>10, <2>11, <2>12, <2>13 DEF HandedOver, f, s
<1>4. CASE ~isBlockDone(n[1], sent)
  <2> DEFINE t == [s EXCEPT ![1] = sent]
  <2>1. f = [d EXCEPT !.isSentPacketInBlock = t]
    BY <1>1, <1>4 DEF handOver, DecoderState
  <2> HIDE DEF s, n, f
  <2>2. /\ t \in Seq(Nat) /\ Len(t) = Len(n)
        /\ \A b \in 1 .. Len(n) : t[b] = IF b = 1 THEN sent ELSE s[b]
    BY <1>1, ExceptSeq
  <2> HIDE DEF t
  <2>3. /\ f \in DecoderState /\ f.currBlock = d.currBlock
        /\ f.nPacketsInBlock = n /\ f.isSentPacketInBlock = t
    BY <1>1, <2>1, <2>2 DEF DecoderState, n
  <2>3a. nAllocated(f) = Len(n)
    BY <2>3 DEF nAllocated
  <2>4. DecoderInv(f)
    BY <1>1, <2>2, <2>3, <2>3a DEF DecoderInv
  <2>5. SentOfFirst(f) = sent
    BY <1>1, <2>2, <2>3, <2>3a DEF SentOfFirst
  <2>6. EndOf(f) = EndOf(d)
    BY <1>1, <2>3, <2>3a DEF EndOf
  <2>7. (f.currBlock - d.currBlock) * BLKSIZE = 0
    BY <1>1, <2>3, BlksizeAssumption, PacketAssumption DEF BlockNo
  <2>8. sent <= s[1] + max(0, sent - s[1])
    BY <1>1 DEF max
  <2> QED BY <1>2, <2>3, <2>4, <2>5, <2>6, <2>7, <2>8 DEF HandedOver, f, s
<1> QED BY <1>3, <1>4

\* What the application is given is a sequence, as long as what is newly decoded.
LEMMA ExtractedData ==
  ASSUME NEW d, NEW rs, NEW first,
         nDecoded(first, d.nPacketsInBlock[1]) \in Nat, d.isSentPacketInBlock[1] \in Nat
  PROVE  LET out == extracted(d, rs, first)
         IN  /\ out.data \in Seq(Range(out.data))
             /\ Len(out.data) = max(0, nDecoded(first, d.nPacketsInBlock[1])
                                       - d.isSentPacketInBlock[1])
<1> DEFINE old == d.isSentPacketInBlock[1]
           sent == nDecoded(first, d.nPacketsInBlock[1])
           data == [i \in 1 .. sent - old |-> first[old + i - 1].data]
           m == max(0, sent - old)
<1>1. extracted(d, rs, first).data = data
  BY DEF extracted
<1>2. m \in Nat /\ 1 .. sent - old = 1 .. m
  BY DEF max
<1>3. DOMAIN data = 1 .. m
  BY <1>2
<1>4. \A i \in 1 .. m : data[i] \in Range(data)
  BY <1>3 DEF Range
<1>5. data = [i \in 1 .. m |-> data[i]]
  BY <1>2
<1> HIDE DEF data, m
<1>6. data \in [1 .. m -> Range(data)]
  BY <1>4, <1>5
<1>7. data \in Seq(Range(data)) /\ Len(data) = m
  BY <1>2, <1>6
<1> QED BY <1>1, <1>7 DEF m

\* handleInCoded hands over what it decodes of the first block and leaves at most
\* this block; the blocks it has end where they ended or at the packet's.
LEMMA HandleInCodedType ==
  ASSUME NEW d, DecoderInv(d), EndOf(d) < BLOCKNO_MOD, NEW rs,
         NEW pkt \in DataPacket, pkt.blockNo + 1 < BLOCKNO_MOD,
         NEW out \in handleInCoded(d, rs, pkt)
  PROVE  /\ DecoderInv(out.dec)
         /\ out.dec.currBlock \in {d.currBlock, d.currBlock + 1}
         /\ EndOf(out.dec) \in {EndOf(d), pkt.blockNo + 1}
         /\ out.data \in Seq(Range(out.data))
         /\ (out.dec.currBlock - d.currBlock) * BLKSIZE + SentOfFirst(out.dec)
              <= SentOfFirst(d) + Len(out.data)
<1> DEFINE a == appended(d, rs, pkt)
           n == a.dec.nPacketsInBlock[1]
           old == a.dec.isSentPacketInBlock[1]
<1>1. /\ DecoderInv(a.dec) /\ a.dec.currBlock = d.currBlock
      /\ EndOf(a.dec) \in {EndOf(d), pkt.blockNo + 1}
      /\ SentOfFirst(a.dec) = SentOfFirst(d)
  BY AppendedType
<1>2. out \in extractData(a.dec, a.rows)
  BY DEF handleInCoded
<1> HIDE DEF a
<1>3. /\ d.currBlock \in Nat /\ SentOfFirst(d) \in Nat
      /\ a.dec.nPacketsInBlock \in Seq(Nat) /\ a.dec.isSentPacketInBlock \in Seq(Nat)
      /\ Len(a.dec.isSentPacketInBlock) = nAllocated(a.dec)
      /\ nAllocated(a.dec) = Len(a.dec.nPacketsInBlock)
  BY <1>1, PacketAssumption
  DEF DecoderInv, DecoderState, BlockNo, SentOfFirst, nAllocated
<1>4. CASE canExtract(a.dec)
  <2>1. PICK first : out = extracted(a.dec, a.rows, first)
    BY <1>2, <1>4 DEF extractData
  <2>2. nAllocated(a.dec) > 0 /\ n \in Nat /\ old \in Nat
    <3>1. nAllocated(a.dec) > 0
      BY <1>4 DEF canExtract
    <3>2. 1 \in 1 .. Len(a.dec.nPacketsInBlock) /\ 1 \in 1 .. Len(a.dec.isSentPacketInBlock)
      BY <1>3, <3>1
    <3> QED BY <1>3, <3>1, <3>2, ElementOfSeq
  <2> DEFINE sent == nDecoded(first, n)
  <2>3. sent \in Nat
    BY <2>2, nDecodedType
  <2>4. out.dec = handOver(a.dec, sent)
    BY <2>1 DEF extracted
  <2>5. HandedOver(a.dec, out.dec, max(0, sent - old))
    BY <1>1, <2>2, <2>3, <2>4, HandOverType
  <2>6. out.data \in Seq(Range(out.data)) /\ Len(out.data) = max(0, sent - old)
    BY <2>1, <2>2, <2>3, ExtractedData
  <2> HIDE DEF sent, n, old
  <2> QED BY <1>1, <2>5, <2>6 DEF HandedOver
<1>5. CASE ~canExtract(a.dec)
  <2>1. out.dec = a.dec /\ out.data = <<>>
    BY <1>2, <1>5 DEF extractData
  <2>2. out.data \in Seq(Range(out.data)) /\ Len(out.data) = 0
    BY <2>1
  <2>3. (out.dec.currBlock - d.currBlock) * BLKSIZE = 0
    BY <1>1, <1>3, <2>1, BlksizeAssumption
  <2> QED BY <1>1, <1>3, <2>1, <2>2, <2>3
<1> QED BY <1>4, <1>5

-----------------------------------------------------------------------------
(* The link *)

\* What the network holds are packets it held or was given.
LEMMA CarryType ==
  ASSUME NEW S, NEW chan \in Seq(S), NEW packets \in Seq(S)
  PROVE  Carry(chan, packets) \in Seq(S)
<1> DEFINE c == chan \o packets
           n == min(Len(c), Capacity)
<1>1. c \in Seq(S)
  BY ConcatProperties
<1> HIDE DEF c
<1>2. n \in 0 .. Len(c)
  BY <1>1, LinkAssumption DEF min
<1> HIDE DEF n
<1>3. SubSeq(c, 1, n) \in Seq(S)
  BY <1>1, <1>2, SubSeqProperties, ElementOfSeq
<1> QED BY <1>3 DEF Carry, c, n

\* Once a packet arrived, the channel holds packets it held.
LEMMA AftersType ==
  ASSUME NEW S, NEW chan \in Seq(S), NEW r, NEW i \in Arrivals(chan, r),
         NEW c \in Afters(chan, i)
  PROVE  c \in Seq(S)
<1>1. i \in 1 .. Len(chan)
  BY DEF Arrivals
<1> QED BY <1>1, RemoveAtType DEF Afters

AcksUpTo(n) == { a \in AckPacket : a.ack_currBlock <= n }

\* LinkInv, with what it says of each component and channel gathered.
LinkShape ==
  /\ EncoderInv(enc)
  /\ phase \in Select .. TcpServed
  /\ nread \in 0 .. Len(Source)
  /\ DecoderInv(dec)
  /\ delivered \in Seq(Range(delivered))
  /\ dataChan \in Seq(PacketsBelow(End(enc)))
  /\ ackChan \in Seq(AcksUpTo(dec.currBlock))
  /\ enc.currBlock <= dec.currBlock
  /\ EndOf(dec) <= End(enc)
  /\ End(enc) <= nread
  /\ Len(delivered) >= dec.currBlock * BLKSIZE + SentOfFirst(dec)

\* Gathered or not, the invariant is the same.
LEMMA LinkShapeIsLinkInv == LinkShape <=> LinkInv
<1>1. ASSUME LinkShape PROVE LinkInv
  <2>1. TypeOK
    <3>1. enc \in EncoderState /\ dec \in DecoderState
      BY <1>1 DEF LinkShape, EncoderInv, DecoderInv
    <3>2. dataChan \in Seq(DataPacket)
      BY <1>1, SeqMonotonic DEF LinkShape, PacketsBelow
    <3>3. ackChan \in Seq(AckPacket)
      BY <1>1, SeqMonotonic DEF LinkShape, AcksUpTo
    <3> QED BY <1>1, <3>1, <3>2, <3>3 DEF LinkShape, DecoderInv, TypeOK
  <2>2. BlocksInStep /\ BlocksAreRead
    BY <1>1 DEF LinkShape, BlocksInStep, BlocksAreRead, End, EndOf
  <2>3. PacketsInStep
    <3>1. \A i \in DOMAIN enc.dataToSend : enc.dataToSend[i] \in PacketsBelow(End(enc))
      BY <1>1 DEF LinkShape, EncoderInv
    <3>2. \A i \in DOMAIN dataChan : dataChan[i] \in PacketsBelow(End(enc))
      BY <1>1 DEF LinkShape
    <3>3. \A i \in DOMAIN ackChan : ackChan[i] \in AcksUpTo(dec.currBlock)
      BY <1>1 DEF LinkShape
    <3> QED BY <3>1, <3>2, <3>3 DEF PacketsInStep, PacketsBelow, AcksUpTo, End
  <2>4. HandedOverIsDelivered
    BY <1>1 DEF LinkShape, DecoderInv, SentOfFirst, HandedOverIsDelivered
  <2> QED BY <2>1, <2>2, <2>3, <2>4 DEF LinkInv
<1>2. ASSUME LinkInv PROVE LinkShape
  <2>1. TypeOK /\ BlocksInStep /\ BlocksAreRead /\ PacketsInStep /\ HandedOverIsDelivered
    BY <1>2 DEF LinkInv
  <2>2. End(enc) <= nread /\ End(enc) < BLOCKNO_MOD
    <3>1. End(enc) \in Nat
      BY <2>1, PacketAssumption DEF TypeOK, EncoderState, End, numBlock, BlockNo
    <3>2. End(enc) <= nread
      BY <2>1 DEF BlocksAreRead, End
    <3> QED BY <2>1, <3>1, <3>2, LinkAssumption, PacketAssumption DEF TypeOK
  <2>3. enc.dataToSend \in Seq(PacketsBelow(End(enc)))
    <3>1. enc.dataToSend \in Seq(DataPacket)
      BY <2>1 DEF TypeOK, EncoderState
    <3>2. \A i \in 1 .. Len(enc.dataToSend) : enc.dataToSend[i] \in PacketsBelow(End(enc))
      BY <2>1, <3>1 DEF PacketsInStep, PacketsBelow, End
    <3> QED BY <3>1, <3>2
  <2>4. dataChan \in Seq(PacketsBelow(End(enc)))
    <3>1. dataChan \in Seq(DataPacket)
      BY <2>1 DEF TypeOK
    <3>2. \A i \in 1 .. Len(dataChan) : dataChan[i] \in PacketsBelow(End(enc))
      BY <2>1, <3>1 DEF PacketsInStep, PacketsBelow, End
    <3> QED BY <3>1, <3>2
  <2>5. ackChan \in Seq(AcksUpTo(dec.currBlock))
    <3>1. ackChan \in Seq(AckPacket)
      BY <2>1 DEF TypeOK
    <3>2. \A i \in 1 .. Len(ackChan) : ackChan[i] \in AcksUpTo(dec.currBlock)
      BY <2>1, <3>1 DEF PacketsInStep, AcksUpTo
    <3> QED BY <3>1, <3>2
  <2>6. EncoderInv(enc)
    BY <2>1, <2>2, <2>3 DEF TypeOK, EncoderInv
  <2>7. DecoderInv(dec)
    BY <2>1 DEF TypeOK, DecoderInv, HandedOverIsDelivered
  <2> QED BY <2>1, <2>2, <2>4, <2>5, <2>6, <2>7
          DEF LinkShape, TypeOK, BlocksInStep, HandedOverIsDelivered, End, EndOf, SentOfFirst
<1> QED BY <1>1, <1>2

\* Two new ends are in step.
LEMMA InitShape == Init => LinkShape
<1> SUFFICES ASSUME Init PROVE LinkShape
  OBVIOUS
<1>1. PICK t \in {"infinite", "armed"} :
        enc = [blocks |-> <<>>, packetSentInfos |-> {}, p |-> NoLoss,
               seqNo_Next |-> 0, seqNo_Una |-> 0, congestionWindow |-> BASE_WINDOW,
               currBlock |-> 0, slowStartMode |-> TRUE, isOutstandingData |-> FALSE,
               nextTimeout |-> t, dataToSend |-> <<>>, exited |-> FALSE]
  BY DEF Init, encoderStateInit
<1>2. \A S : <<>> \in Seq(S)
  OBVIOUS
<1>3. 0 \in BlockNo /\ 0 \in 0 .. MaxSeqNo /\ NoLoss \in LossRatio /\ BASE_WINDOW \in Nat
  BY PacketAssumption, EncoderAssumption DEF BlockNo
<1>4. enc \in EncoderState
  BY <1>1, <1>2, <1>3 DEF EncoderState
<1>5. End(enc) = 0 /\ enc.dataToSend = <<>>
  BY <1>1 DEF End, numBlock
<1>6. EncoderInv(enc)
  BY <1>2, <1>4, <1>5, PacketAssumption DEF EncoderInv
<1>7. dec \in DecoderState /\ nAllocated(dec) = 0 /\ Len(dec.isSentPacketInBlock) = 0
      /\ dec.currBlock = 0
  BY <1>2, <1>3 DEF Init, decoderStateInit, DecoderState, nAllocated
<1>8. DecoderInv(dec) /\ SentOfFirst(dec) = 0 /\ EndOf(dec) = 0
  BY <1>7 DEF DecoderInv, SentOfFirst, EndOf
<1> QED
  BY <1>1, <1>2, <1>5, <1>6, <1>7, <1>8, LinkAssumption, BlksizeAssumption
  DEF Init, LinkShape, Select, TcpServed

\* The end of an encoder's blocks is a number.
LEMMA EndIsNumber ==
  ASSUME NEW e, EncoderInv(e)
  PROVE  End(e) \in Nat /\ e.currBlock \in Nat
BY PacketAssumption DEF EncoderInv, EncoderState, End, numBlock, BlockNo

\* The end of a decoder's blocks is a number, behind its first block.
LEMMA EndOfIsNumber ==
  ASSUME NEW d, DecoderInv(d)
  PROVE  /\ EndOf(d) \in Nat /\ d.currBlock \in Nat /\ d.currBlock <= EndOf(d)
         /\ SentOfFirst(d) \in Nat
BY PacketAssumption
DEF DecoderInv, DecoderState, EndOf, nAllocated, BlockNo, SentOfFirst

\* A step of the sender that leaves the receiver and the channels alone, appends
\* at most what it reads and moves to a block the receiver has reached.
LEMMA SenderStepShape ==
  ASSUME LinkShape, UNCHANGED <<dec, delivered, dataChan>>,
         EncoderInv(enc'), phase' \in Select .. TcpServed,
         nread' \in 0 .. Len(Source), End(enc') \in End(enc) .. nread',
         enc'.currBlock <= dec.currBlock,
         ackChan' \in Seq(AcksUpTo(dec.currBlock))
  PROVE  LinkShape'
<1>1. PacketsBelow(End(enc)) \subseteq PacketsBelow(End(enc'))
  <2>1. End(enc) \in Nat /\ End(enc') \in Nat
    BY EndIsNumber DEF LinkShape
  <2> QED BY <2>1, PacketAssumption DEF PacketsBelow, DataPacket, BlockNo
<1>2. dataChan \in Seq(PacketsBelow(End(enc')))
  BY <1>1, SeqMonotonic DEF LinkShape
<1>3. EndOf(dec) <= End(enc')
  <2>1. End(enc) \in Nat /\ End(enc') \in Nat /\ EndOf(dec) \in Nat
    BY EndIsNumber, EndOfIsNumber DEF LinkShape
  <2> QED BY <2>1 DEF LinkShape
<1> QED BY <1>2, <1>3 DEF LinkShape

\* onTimeOut keeps the ends in step.
LEMMA TimeOutShape == LinkShape /\ TimeOut => LinkShape'
<1> SUFFICES ASSUME LinkShape, TimeOut PROVE LinkShape'
  OBVIOUS
<1>1. Follows(enc, enc') /\ enc'.currBlock = enc.currBlock
  BY OnTimeOutType DEF LinkShape, TimeOut
<1> QED BY <1>1, SenderStepShape, EndIsNumber
        DEF TimeOut, LinkShape, Follows, Select, TimerServed, TcpServed

\* onAck keeps the ends in step: an ACK, however late, names a block the receiver
\* has reached, which the sender still has or has just behind its last one.
LEMMA ReceiveAckShape == LinkShape /\ ReceiveAck => LinkShape'
<1> SUFFICES ASSUME LinkShape, ReceiveAck PROVE LinkShape'
  OBVIOUS
<1>1. PICK i \in Arrivals(ackChan, AckReorder) :
        enc' \in onAck(enc, ackChan[i], Cuts) /\ ackChan' \in Afters(ackChan, i)
  BY DEF ReceiveAck
<1>2. i \in 1 .. Len(ackChan) /\ ackChan \in Seq(AcksUpTo(dec.currBlock))
  BY DEF Arrivals, LinkShape
<1>3. ackChan[i] \in AckPacket /\ ackChan[i].ack_currBlock <= dec.currBlock
  BY <1>2 DEF AcksUpTo
<1>4. /\ enc.currBlock \in Nat /\ dec.currBlock \in Nat /\ End(enc) \in Nat
      /\ ackChan[i].ack_currBlock \in Nat /\ ackChan[i].ack_currBlock <= End(enc)
  <2>1. /\ enc.currBlock \in Nat /\ End(enc) \in Nat
        /\ dec.currBlock \in Nat /\ EndOf(dec) \in Nat /\ dec.currBlock <= EndOf(dec)
    BY EndIsNumber, EndOfIsNumber DEF LinkShape
  <2>2. ackChan[i].ack_currBlock \in Nat
    BY <1>3, PacketAssumption DEF AckPacket, BlockNo
  <2> QED BY <1>3, <2>1, <2>2 DEF LinkShape
<1>5. Follows(enc, enc')
      /\ enc'.currBlock \in {enc.currBlock, max(enc.currBlock, ackChan[i].ack_currBlock)}
  BY <1>1, <1>3, <1>4, OnAckType DEF LinkShape
<1>6. enc'.currBlock <= dec.currBlock
  BY <1>3, <1>4, <1>5 DEF max, LinkShape
<1>7. ackChan' \in Seq(AcksUpTo(dec.currBlock))
  BY <1>1, <1>2, AftersType
<1> QED BY <1>5, <1>6, <1>7, SenderStepShape, EndIsNumber
        DEF ReceiveAck, LinkShape, Follows, Select, UdpServed, TcpServed

\* A read keeps the ends in step: it opens at most as many blocks as packets.
LEMMA ReadTcpShape == LinkShape /\ ReadTcp => LinkShape'
<1> SUFFICES ASSUME LinkShape, ReadTcp PROVE LinkShape'
  OBVIOUS
<1>1. PICK n \in 1 .. min(MaxRead, Len(Source) - nread) :
        /\ enc' \in handleInClear(enc, SubSeq(Source, nread + 1, nread + n), Cuts)
        /\ nread' = nread + n
  BY DEF ReadTcp
<1> DEFINE packets == SubSeq(Source, nread + 1, nread + n)
<1>2. /\ nread \in Nat /\ n \in 1 .. BLKSIZE /\ nread + n <= Len(Source)
      /\ Len(Source) \in Nat
  BY <1>1, LinkAssumption, EncoderAssumption, BlksizeAssumption DEF LinkShape, min
<1>3. packets \in Seq(Symbol) /\ Len(packets) = n
  BY <1>2, LinkAssumption, SubSeqProperties, ElementOfSeq
<1> HIDE DEF packets
<1>4. End(enc) \in Nat /\ End(enc) <= nread
  BY EndIsNumber DEF LinkShape
<1>5. /\ EncoderInv(enc') /\ enc'.currBlock = enc.currBlock
      /\ End(enc') \in End(enc) .. End(enc) + n
  <2>1. End(enc) + Len(packets) < BLOCKNO_MOD /\ Len(packets) \in 0 .. BLKSIZE
    BY <1>2, <1>3, <1>4, LinkAssumption, PacketAssumption
  <2>2. enc' \in handleInClear(enc, packets, Cuts) /\ EncoderInv(enc)
    BY <1>1 DEF LinkShape, packets
  <2> QED BY <1>3, <2>1, <2>2, HandleInClearType
<1>6. nread' \in 0 .. Len(Source) /\ End(enc') \in End(enc) .. nread'
  BY <1>1, <1>2, <1>4, <1>5
<1> QED BY <1>5, <1>6, SenderStepShape
        DEF ReadTcp, LinkShape, Select, TcpServed

\* A failed read stores nothing.
LEMMA ReadTcpFailsShape == LinkShape /\ ReadTcpFails => LinkShape'
<1> SUFFICES ASSUME LinkShape, ReadTcpFails PROVE LinkShape'
  OBVIOUS
<1>1. <<>> \in Seq(Symbol) /\ Len(<<>>) = 0 /\ Len(<<>>) \in 0 .. BLKSIZE
  BY BlksizeAssumption
<1>2. /\ EncoderInv(enc') /\ enc'.currBlock = enc.currBlock
      /\ End(enc') \in End(enc) .. End(enc) + 0
  <2>1. End(enc) + Len(<<>>) < BLOCKNO_MOD
    BY <1>1, EndIsNumber DEF LinkShape, EncoderInv
  <2> QED BY <1>1, <2>1, HandleInClearType DEF ReadTcpFails, LinkShape
<1>3. End(enc') \in End(enc) .. nread
  BY <1>2, EndIsNumber DEF LinkShape
<1> QED BY <1>2, <1>3, SenderStepShape
        DEF ReadTcpFails, LinkShape, Select, TcpServed

\* Packets go from the queue to the network, for the same blocks.
LEMMA FlushShape == LinkShape /\ Flush => LinkShape'
<1> SUFFICES ASSUME LinkShape, Flush PROVE LinkShape'
  OBVIOUS
<1>1. Follows(enc, enc') /\ enc'.currBlock = enc.currBlock
  BY FlushType DEF Flush, LinkShape
<1>2. dataChan' \in Seq(PacketsBelow(End(enc)))
  BY CarryType DEF Flush, LinkShape, EncoderInv
<1> QED BY <1>1, <1>2 DEF Flush, LinkShape, Follows, Select, TcpServed

\* An ACK is for the block the decoder is at.
LEMMA AckForType ==
  ASSUME NEW d, DecoderInv(d), NEW pkt \in DataPacket, NEW loss \in LossRatio
  PROVE  ackFor(d, pkt, loss) \in AcksUpTo(d.currBlock)
<1>1. d.currBlock \in BlockNo /\ d.currBlock \in Nat /\ pkt.seqNo \in SeqNo
  BY EndOfIsNumber DEF DecoderInv, DecoderState, DataPacket
<1>2. ASSUME NEW i \in 1 .. DOFS_LENGTH
      PROVE  (IF i <= nAllocated(d) THEN d.nPacketsInBlock[i] ELSE 0) \in Nat
  BY DEF DecoderInv, DecoderState, nAllocated
<1>3. ackFor(d, pkt, loss) \in AckPacket
  BY <1>1, <1>2 DEF ackFor, AckPacket
<1>4. ackFor(d, pkt, loss).ack_currBlock = d.currBlock
  BY DEF ackFor
<1> QED BY <1>1, <1>3, <1>4 DEF AcksUpTo

\* Writing data after what was delivered.
LEMMA DeliveredType ==
  ASSUME NEW s, s \in Seq(Range(s)), NEW t, t \in Seq(Range(t))
  PROVE  s \o t \in Seq(Range(s \o t)) /\ Len(s \o t) = Len(s) + Len(t)
<1> DEFINE S == Range(s) \cup Range(t)
<1>1. s \in Seq(S) /\ t \in Seq(S)
  BY SeqMonotonic
<1> HIDE DEF S
<1>2. s \o t \in Seq(S) /\ Len(s \o t) = Len(s) + Len(t)
  BY <1>1, ConcatProperties
<1> QED BY <1>2, SeqOfRange

\* handleInCoded keeps the ends in step: the receiver allocates up to the packet's
\* block, leaves a block only with all of it delivered, and acknowledges from there.
LEMMA ReceiveDataShape == LinkShape /\ ReceiveData => LinkShape'
<1> SUFFICES ASSUME LinkShape, ReceiveData PROVE LinkShape'
  OBVIOUS
<1>1. PICK i \in Arrivals(dataChan, DataReorder), loss \in LossRatio :
        \E out \in handleInCoded(dec, rows, dataChan[i]) :
          /\ dec' = out.dec
          /\ delivered' = delivered \o out.data
          /\ ackChan' = Carry(ackChan, <<ackFor(out.dec, dataChan[i], loss)>>)
          /\ dataChan' \in Afters(dataChan, i)
          /\ UNCHANGED <<enc, phase, nread>>
  BY DEF ReceiveData
<1> DEFINE pkt == dataChan[i]
<1>2. PICK out \in handleInCoded(dec, rows, pkt) :
          /\ dec' = out.dec
          /\ delivered' = delivered \o out.data
          /\ ackChan' = Carry(ackChan, <<ackFor(out.dec, pkt, loss)>>)
          /\ dataChan' \in Afters(dataChan, i)
          /\ UNCHANGED <<enc, phase, nread>>
  BY <1>1
<1>3. pkt \in DataPacket /\ pkt.blockNo < End(enc)
  <2>1. i \in 1 .. Len(dataChan) /\ dataChan \in Seq(PacketsBelow(End(enc)))
    BY DEF Arrivals, LinkShape
  <2>2. dataChan[i] \in PacketsBelow(End(enc))
    BY <2>1
  <2> QED BY <2>2 DEF PacketsBelow
<1> HIDE DEF pkt
<1>4. /\ End(enc) \in Nat /\ EndOf(dec) \in Nat /\ dec.currBlock \in Nat
      /\ pkt.blockNo \in Nat /\ SentOfFirst(dec) \in Nat
      /\ End(enc) < BLOCKNO_MOD /\ EndOf(dec) <= End(enc)
  BY <1>3, EndIsNumber, EndOfIsNumber, PacketAssumption
  DEF LinkShape, EncoderInv, DataPacket, BlockNo
<1>5. /\ DecoderInv(dec')
      /\ dec'.currBlock \in {dec.currBlock, dec.currBlock + 1}
      /\ EndOf(dec') \in {EndOf(dec), pkt.blockNo + 1}
      /\ out.data \in Seq(Range(out.data))
      /\ (dec'.currBlock - dec.currBlock) * BLKSIZE + SentOfFirst(dec')
           <= SentOfFirst(dec) + Len(out.data)
  <2>1. DecoderInv(dec) /\ EndOf(dec) < BLOCKNO_MOD /\ pkt.blockNo + 1 < BLOCKNO_MOD
    BY <1>3, <1>4, PacketAssumption DEF LinkShape
  <2> QED BY <1>2, <1>3, <2>1, HandleInCodedType
<1>6. delivered' \in Seq(Range(delivered')) /\ Len(delivered') = Len(delivered) + Len(out.data)
  BY <1>2, <1>5, DeliveredType DEF LinkShape
<1>7. EndOf(dec') <= End(enc') /\ enc'.currBlock <= dec'.currBlock
  <2>1. enc' = enc
    BY <1>2
  <2>2. enc.currBlock \in Nat /\ enc.currBlock <= dec.currBlock
    BY EndIsNumber DEF LinkShape
  <2>3. EndOf(dec') <= End(enc)
    BY <1>3, <1>4, <1>5
  <2>4. enc.currBlock <= dec'.currBlock
    BY <1>4, <1>5, <2>2
  <2> QED BY <2>1, <2>3, <2>4
<1>8. Len(delivered') >= dec'.currBlock * BLKSIZE + SentOfFirst(dec')
  <2>1. /\ Len(delivered) \in Nat /\ Len(out.data) \in Nat /\ SentOfFirst(dec') \in Nat
        /\ Len(delivered) >= dec.currBlock * BLKSIZE + SentOfFirst(dec)
    BY <1>5, EndOfIsNumber DEF LinkShape
  <2>2. CASE dec'.currBlock = dec.currBlock
    <3>1. (dec'.currBlock - dec.currBlock) * BLKSIZE = 0
      BY <1>4, <2>2, BlksizeAssumption
    <3> QED BY <1>4, <1>5, <1>6, <2>1, <2>2, <3>1, BlksizeAssumption
  <2>3. CASE dec'.currBlock = dec.currBlock + 1
    <3>1. (dec'.currBlock - dec.currBlock) * BLKSIZE = BLKSIZE
      BY <1>4, <2>3, BlksizeAssumption
    <3>2. /\ dec.currBlock * BLKSIZE \in Nat
          /\ dec'.currBlock * BLKSIZE = dec.currBlock * BLKSIZE + BLKSIZE
      BY <1>4, <2>3, BlksizeAssumption
    <3>3. BLKSIZE + SentOfFirst(dec') <= SentOfFirst(dec) + Len(out.data)
      BY <1>5, <3>1
    <3>4. SentOfFirst(dec) \in Nat /\ Len(delivered') = Len(delivered) + Len(out.data)
      BY <1>6, EndOfIsNumber DEF LinkShape
    <3> QED BY <2>1, <3>2, <3>3, <3>4, BlksizeAssumption
  <2>4. dec'.currBlock = dec.currBlock \/ dec'.currBlock = dec.currBlock + 1
    BY <1>5
  <2> QED BY <2>2, <2>3, <2>4
<1>9. dataChan' \in Seq(PacketsBelow(End(enc')))
  BY <1>2, AftersType DEF LinkShape
<1>10. ackChan' \in Seq(AcksUpTo(dec'.currBlock))
  <2>1. AcksUpTo(dec.currBlock) \subseteq AcksUpTo(dec'.currBlock)
    BY <1>4, <1>5, PacketAssumption DEF AcksUpTo, AckPacket, BlockNo
  <2>2. ackChan \in Seq(AcksUpTo(dec'.currBlock))
    BY <2>1, SeqMonotonic DEF LinkShape
  <2>3. ackFor(dec', pkt, loss) \in AcksUpTo(dec'.currBlock)
    BY <1>3, <1>5, AckForType
  <2>4. <<ackFor(dec', pkt, loss)>> \in Seq(AcksUpTo(dec'.currBlock))
    BY <2>3
  <2> QED BY <1>2, <2>2, <2>4, CarryType
<1> QED BY <1>2, <1>5, <1>6, <1>7, <1>8, <1>9, <1>10 DEF LinkShape

\* A lost DATA packet breaks nothing.
LEMMA LoseDataShape == LinkShape /\ LoseData => LinkShape'
<1> SUFFICES ASSUME LinkShape, LoseData PROVE LinkShape'
  OBVIOUS
<1>1. dataChan' \in Seq(PacketsBelow(End(enc)))
  BY RemoveAtType DEF LinkShape, LoseData, Arrivals
<1> QED BY <1>1 DEF LinkShape, LoseData

\* A lost ACK breaks nothing.
LEMMA LoseAckShape == LinkShape /\ LoseAck => LinkShape'
<1> SUFFICES ASSUME LinkShape, LoseAck PROVE LinkShape'
  OBVIOUS
<1>1. ackChan' \in Seq(AcksUpTo(dec.currBlock))
  BY RemoveAtType DEF LinkShape, LoseAck, Arrivals
<1> QED BY <1>1 DEF LinkShape, LoseAck

\* The gathered invariant is kept by every step.
LEMMA NextShape == LinkShape /\ [Next]_vars => LinkShape'
<1> SUFFICES ASSUME LinkShape, [Next]_vars PROVE LinkShape'
  OBVIOUS
<1>1. CASE UNCHANGED vars
  BY <1>1 DEF vars, LinkShape
<1>2. CASE Next
  BY <1>2, TimeOutShape, ReceiveAckShape, ReadTcpShape, ReadTcpFailsShape, FlushShape,
     ReceiveDataShape, LoseDataShape, LoseAckShape DEF Next
<1> QED BY <1>1, <1>2

-----------------------------------------------------------------------------
(* The theorems *)

\* Whatever the network does, the two ends stay in step: LinkInv is inductive.
THEOREM LinkInvHolds == Spec => []LinkInv
BY InitShape, NextShape, LinkShapeIsLinkInv, PTL DEF Spec

\* Every variable keeps its type.
THEOREM TypeOKHolds == Spec => []TypeOK
<1>1. LinkInv => TypeOK
  BY DEF LinkInv
<1> QED BY <1>1, LinkInvHolds, PTL

\* The receiver's blocks are within the sender's: onAck frees no block it does
\* not have, and no packet makes the receiver allocate beyond the sender's blocks.
THEOREM BlocksInStepHolds == Spec => []BlocksInStep
<1>1. LinkInv => BlocksInStep
  BY DEF LinkInv
<1> QED BY <1>1, LinkInvHolds, PTL

\* What the sender frees was written to the receiver's TCP socket.
THEOREM FreedOnlyWhenDeliveredHolds == Spec => []FreedOnlyWhenDelivered
<1>1. LinkShape => FreedOnlyWhenDelivered
  <2> SUFFICES ASSUME LinkShape PROVE FreedOnlyWhenDelivered
    OBVIOUS
  <2>1. /\ enc.currBlock \in Nat /\ dec.currBlock \in Nat /\ SentOfFirst(dec) \in Nat
        /\ enc.currBlock <= dec.currBlock /\ Len(delivered) \in Nat
        /\ Len(delivered) >= dec.currBlock * BLKSIZE + SentOfFirst(dec)
    BY EndIsNumber, EndOfIsNumber DEF LinkShape
  <2>2. enc.currBlock * BLKSIZE <= dec.currBlock * BLKSIZE
    BY <2>1, BlksizeAssumption
  <2> QED BY <2>1, <2>2, BlksizeAssumption DEF FreedOnlyWhenDelivered
<1> QED BY <1>1, LinkInvHolds, LinkShapeIsLinkInv, PTL

-----------------------------------------------------------------------------
(* The bounds of what is kept *)

\* SentTableInWindow, of an encoder.
TableInv(e) ==
  /\ \A r \in e.packetSentInfos :
       /\ r.blockNo \in e.currBlock .. End(e) - 1
       /\ r.seqNo < e.seqNo_Next
  /\ \A r, s \in e.packetSentInfos : r.seqNo = s.seqNo => r = s

\* The queue of a loop that is at p: empty before the timer is served, and then
\* within the window the timeout leaves, which an ACK may not go below.
QueueInv(e, p) ==
  /\ Len(e.dataToSend) <= e.congestionWindow
  /\ p = Select => Len(e.dataToSend) = 0
  /\ p = TimerServed => Len(e.dataToSend) <= BASE_WINDOW

BoundsInv ==
  /\ LinkShape
  /\ TableInv(enc)
  /\ QueueInv(enc, phase)
  /\ numBlock(enc) <= MAX_BLOCKS

-----------------------------------------------------------------------------
(* Sending *)

\* An encoder has a number of blocks.
LEMMA NumBlockIsNumber ==
  ASSUME NEW e, EncoderInv(e)
  PROVE  numBlock(e) \in Nat
BY DEF EncoderInv, EncoderState, numBlock

\* The table is in the window of blocks after a change that adds no entry to it.
LEMMA TableKept ==
  ASSUME NEW e, TableInv(e), NEW f,
         f.packetSentInfos \subseteq e.packetSentInfos,
         f.seqNo_Next = e.seqNo_Next,
         \A r \in f.packetSentInfos : r.blockNo \in f.currBlock .. End(f) - 1
  PROVE  TableInv(f)
BY DEF TableInv

\* The entries of a plan are new, and for blocks there are.
LEMMA SendKeepsTable ==
  ASSUME NEW e, EncoderInv(e), TableInv(e), NEW plan \in Seq(DOMAIN e.blocks),
         e.seqNo_Next + Len(plan) <= MaxSeqNo
  PROVE  TableInv(sendFromBlock(e, plan))
<1> DEFINE f == sendFromBlock(e, plan)
<1>1. /\ e \in EncoderState /\ e.blocks \in Seq(Block) /\ e.currBlock \in BlockNo
      /\ e.seqNo_Next \in Nat /\ e.packetSentInfos \subseteq PacketSentInfo
      /\ e.currBlock \in Nat /\ End(e) \in Nat /\ End(e) < BLOCKNO_MOD
  BY EndIsNumber DEF EncoderInv, EncoderState
<1>2. /\ f.packetSentInfos = e.packetSentInfos \cup InfosOf(e, plan)
      /\ f.seqNo_Next = e.seqNo_Next + Len(plan)
      /\ Len(plan) \in Nat
  BY <1>1 DEF sendFromBlock, EncoderState
<1>3. f.currBlock = e.currBlock /\ End(f) = End(e)
  BY SendFromBlockType DEF End
<1> HIDE DEF f
<1>4. ASSUME NEW k \in DOMAIN plan
      PROVE  /\ (e.currBlock + plan[k] - 1) % BLOCKNO_MOD \in e.currBlock .. End(e) - 1
             /\ e.seqNo_Next + k - 1 \in e.seqNo_Next .. f.seqNo_Next - 1
  <2>1. k \in 1 .. Len(plan) /\ plan[k] \in 1 .. Len(e.blocks) /\ Len(e.blocks) \in Nat
    BY <1>1
  <2>2. e.currBlock + plan[k] - 1 \in BlockNo /\ e.currBlock + plan[k] - 1 < End(e)
    BY <1>1, <2>1, BlockInRange DEF End, numBlock
  <2>3. (e.currBlock + plan[k] - 1) % BLOCKNO_MOD = e.currBlock + plan[k] - 1
    BY <1>1, <2>1, <2>2, ModFacts
  <2>4. e.currBlock + plan[k] - 1 \in e.currBlock .. End(e) - 1
    BY <1>1, <2>1, <2>2
  <2>5. e.seqNo_Next + k - 1 \in e.seqNo_Next .. f.seqNo_Next - 1
    BY <1>1, <1>2, <2>1
  <2> QED BY <2>3, <2>4, <2>5
<1>5. ASSUME NEW r \in f.packetSentInfos
      PROVE  r.blockNo \in f.currBlock .. End(f) - 1 /\ r.seqNo < f.seqNo_Next
  <2>1. CASE r \in e.packetSentInfos
    <3>1. r.seqNo \in Int
      BY <1>1, <2>1, PacketAssumption DEF PacketSentInfo, SeqNo
    <3>2. r.seqNo < e.seqNo_Next /\ r.blockNo \in e.currBlock .. End(e) - 1
      BY <2>1 DEF TableInv
    <3> QED BY <1>1, <1>2, <1>3, <3>1, <3>2
  <2>2. CASE r \in InfosOf(e, plan)
    <3>1. PICK k \in DOMAIN plan :
            r = [seqNo |-> e.seqNo_Next + k - 1,
                 blockNo |-> (e.currBlock + plan[k] - 1) % BLOCKNO_MOD]
      BY <2>2 DEF InfosOf
    <3>2. /\ r.seqNo \in e.seqNo_Next .. f.seqNo_Next - 1
          /\ r.blockNo \in e.currBlock .. End(e) - 1
      BY <1>4, <3>1
    <3> QED BY <1>1, <1>2, <1>3, <3>2
  <2> QED BY <1>2, <2>1, <2>2
<1>6. ASSUME NEW r \in f.packetSentInfos, NEW s \in f.packetSentInfos, r.seqNo = s.seqNo
      PROVE  r = s
  <2>1. ASSUME NEW x \in e.packetSentInfos, NEW y \in InfosOf(e, plan)
        PROVE  x.seqNo # y.seqNo
    <3>1. PICK k \in DOMAIN plan : y.seqNo = e.seqNo_Next + k - 1
      BY DEF InfosOf
    <3>2. x.seqNo < e.seqNo_Next /\ x.seqNo \in Int
      BY <1>1, PacketAssumption DEF TableInv, PacketSentInfo, SeqNo
    <3>3. y.seqNo >= e.seqNo_Next /\ y.seqNo \in Int
      BY <1>1, <1>2, <1>4, <3>1
    <3> QED BY <1>1, <3>2, <3>3
  <2>2. ASSUME r \in InfosOf(e, plan), s \in InfosOf(e, plan) PROVE r = s
    <3> DEFINE info(k) == [seqNo |-> e.seqNo_Next + k - 1,
                           blockNo |-> (e.currBlock + plan[k] - 1) % BLOCKNO_MOD]
    <3>1. PICK k \in DOMAIN plan, m \in DOMAIN plan : r = info(k) /\ s = info(m)
      BY <2>2 DEF InfosOf
    <3>2. e.seqNo_Next + k - 1 = e.seqNo_Next + m - 1
      BY <1>6, <3>1
    <3>3. k = m
      BY <1>1, <3>2
    <3> QED BY <3>1, <3>3
  <2>3. ASSUME r \in e.packetSentInfos, s \in e.packetSentInfos PROVE r = s
    BY <1>6, <2>3 DEF TableInv
  <2> QED BY <1>2, <1>6, <2>1, <2>2, <2>3
<1> QED BY <1>5, <1>6 DEF TableInv, f

\* Sending keeps the table in the window of blocks, and never queues beyond the
\* congestion window.
LEMMA OnWindowUpdateBounds ==
  ASSUME NEW e, EncoderInv(e), TableInv(e), NEW cuts, NEW f \in onWindowUpdate(e, cuts)
  PROVE  /\ TableInv(f)
         /\ f.congestionWindow = e.congestionWindow
         /\ numBlock(f) = numBlock(e)
         /\ \A w \in Nat : Len(e.dataToSend) <= w /\ e.congestionWindow <= w
                             => Len(f.dataToSend) <= w
<1>1. CASE ~e.isOutstandingData
  BY <1>1 DEF onWindowUpdate
<1>2. CASE e.isOutstandingData
  <2>1. PICK cut \in cuts : \E plan \in Plans(e, cut) :
          /\ e.seqNo_Next + Len(plan) <= MaxSeqNo
          /\ f = [sendFromBlock(e, plan) EXCEPT
                   !.isOutstandingData = totalInFlight(e, cut) + Len(plan) > 0]
    BY <1>2 DEF onWindowUpdate
  <2>2. PICK plan \in Plans(e, cut) :
          /\ e.seqNo_Next + Len(plan) <= MaxSeqNo
          /\ f = [sendFromBlock(e, plan) EXCEPT
                   !.isOutstandingData = totalInFlight(e, cut) + Len(plan) > 0]
    BY <2>1
  <2>3. e \in EncoderState
    BY DEF EncoderInv
  <2>4. /\ plan \in Seq(DOMAIN e.blocks)
        /\ Len(plan) <= max(0, e.congestionWindow - totalInFlight(e, cut))
    BY <2>3, PlansType
  <2> DEFINE g == sendFromBlock(e, plan)
             more == totalInFlight(e, cut) + Len(plan) > 0
  <2>5. /\ EncoderInv(g) /\ numBlock(g) = numBlock(e) /\ g.currBlock = e.currBlock
        /\ TableInv(g)
    BY <2>2, <2>4, SendFromBlockType, SendKeepsTable
  <2>6. /\ g.congestionWindow = e.congestionWindow
        /\ Len(g.dataToSend) = Len(e.dataToSend) + Len(plan)
    <3>1. g.congestionWindow = e.congestionWindow
          /\ g.dataToSend = e.dataToSend \o PacketsOf(e, plan)
      BY <2>3 DEF sendFromBlock, EncoderState
    <3>2. e.dataToSend \in Seq(DataPacket)
      BY <2>3 DEF EncoderState
    <3>3. /\ DOMAIN plan = 1 .. Len(plan) /\ Len(plan) \in Nat
          /\ \A k \in DOMAIN plan : PacketOf(e, plan, k) \in PacketsBelow(End(e))
      BY <2>2, <2>4, PacketOfType
    <3>4. /\ PacketsOf(e, plan) \in Seq(PacketsBelow(End(e)))
          /\ Len(PacketsOf(e, plan)) = Len(plan)
      BY <3>3 DEF PacketsOf
    <3>5. PacketsOf(e, plan) \in Seq(DataPacket)
      BY <3>4, SeqMonotonic DEF PacketsBelow
    <3> DEFINE q == e.dataToSend
               sent == PacketsOf(e, plan)
    <3> HIDE DEF g, q, sent
    <3>6. q \in Seq(DataPacket) /\ sent \in Seq(DataPacket)
      BY <3>2, <3>5 DEF q, sent
    <3>7. Len(q \o sent) = Len(q) + Len(sent)
      BY <3>6, ConcatProperties
    <3> QED BY <3>1, <3>4, <3>7 DEF q, sent
  <2>7. f = [g EXCEPT !.isOutstandingData = more]
    BY <2>2
  <2> HIDE DEF g, more
  <2>8. /\ f.congestionWindow = g.congestionWindow /\ f.dataToSend = g.dataToSend
        /\ f.blocks = g.blocks /\ f.currBlock = g.currBlock
        /\ f.packetSentInfos = g.packetSentInfos /\ f.seqNo_Next = g.seqNo_Next
    BY <2>5, <2>7 DEF EncoderInv, EncoderState
  <2>9. TableInv(f)
    BY <2>5, <2>8, TableKept DEF TableInv, End, numBlock
  <2>10. ASSUME NEW w \in Nat, Len(e.dataToSend) <= w, e.congestionWindow <= w
         PROVE  Len(f.dataToSend) <= w
    <3>1. /\ totalInFlight(e, cut) \in Nat /\ totalInFlight(e, cut) >= Len(e.dataToSend)
          /\ e.congestionWindow \in Nat /\ Len(e.dataToSend) \in Nat /\ Len(plan) \in Nat
      BY <2>3, <2>4, InFlightIsNumber DEF EncoderState
    <3> QED BY <2>4, <2>6, <2>8, <2>10, <3>1 DEF max
  <2> QED BY <2>5, <2>6, <2>8, <2>9, <2>10 DEF numBlock
<1> QED BY <1>1, <1>2

-----------------------------------------------------------------------------
(* The handlers *)

\* onTimeOut sends from the window it resets, with nothing queued before.
LEMMA TimeOutBounds == BoundsInv /\ TimeOut => BoundsInv'
<1> SUFFICES ASSUME BoundsInv, TimeOut PROVE BoundsInv'
  OBVIOUS
<1>1. LinkShape /\ TableInv(enc) /\ EncoderInv(enc) /\ enc \in EncoderState
      /\ Len(enc.dataToSend) = 0 /\ numBlock(enc) <= MAX_BLOCKS
  BY DEF BoundsInv, LinkShape, EncoderInv, TimeOut, QueueInv
<1> DEFINE g == [enc EXCEPT !.slowStartMode = TRUE, !.congestionWindow = BASE_WINDOW,
                   !.nextTimeout = IF enc.isOutstandingData THEN "armed" ELSE "past"]
<1>2. /\ g \in EncoderState /\ g.blocks = enc.blocks /\ SameTables(enc, g)
      /\ g.congestionWindow = BASE_WINDOW
  BY <1>1, EncoderAssumption DEF SameTables, EncoderState
<1>3. enc' \in onWindowUpdate(g, Cuts)
  BY DEF TimeOut, onTimeOut, ThenSend
<1> HIDE DEF g
<1>4. EncoderInv(g) /\ TableInv(g)
  BY <1>1, <1>2, TableKept DEF SameTables, EncoderInv, TableInv, End, numBlock
<1>5. /\ TableInv(enc') /\ enc'.congestionWindow = BASE_WINDOW
      /\ numBlock(enc') <= MAX_BLOCKS /\ Len(enc'.dataToSend) <= BASE_WINDOW
  <2>1. numBlock(enc') = numBlock(g) /\ numBlock(g) = numBlock(enc)
    BY <1>2, <1>3, <1>4, OnWindowUpdateBounds DEF numBlock
  <2> QED BY <1>1, <1>2, <1>3, <1>4, <2>1, OnWindowUpdateBounds, EncoderAssumption
          DEF SameTables
<1>6. QueueInv(enc', phase')
  BY <1>5 DEF TimeOut, QueueInv, Select, TimerServed
<1> QED BY <1>1, <1>5, <1>6, TimeOutShape DEF BoundsInv

\* The window an ACK leaves is the one before or BASE_WINDOW, at least.
LEMMA WindowsBounded ==
  ASSUME NEW e \in EncoderState, NEW w \in Windows(e)
  PROVE  w \in Nat /\ (w >= e.congestionWindow \/ w >= BASE_WINDOW)
BY EncoderAssumption DEF Windows, EncoderState

\* What onAck changes before it sends: only table entries of the blocks it frees go.
LEMMA AcknowledgedBounds ==
  ASSUME NEW e, EncoderInv(e), TableInv(e), NEW ack \in AckPacket,
         ack.ack_currBlock <= End(e), NEW w \in Windows(e)
  PROVE  /\ TableInv(Acknowledged(e, ack, w))
         /\ Acknowledged(e, ack, w).congestionWindow = w
         /\ Acknowledged(e, ack, w).dataToSend = e.dataToSend
<1> DEFINE acked == max(0, ack.ack_currBlock - e.currBlock)
           f == Acknowledged(e, ack, w)
<1>1. /\ e \in EncoderState /\ e.currBlock \in Nat /\ ack.ack_currBlock \in Nat
      /\ End(e) \in Nat /\ e.packetSentInfos \subseteq PacketSentInfo
  BY EndIsNumber, PacketAssumption DEF EncoderInv, EncoderState, AckPacket, BlockNo
<1>2. /\ f.packetSentInfos = { r \in e.packetSentInfos :
                                 r.blockNo \notin e.currBlock .. e.currBlock + acked - 1 }
      /\ f.seqNo_Next = e.seqNo_Next /\ f.dataToSend = e.dataToSend
      /\ f.congestionWindow = w
  BY <1>1 DEF Acknowledged, AdjustWindow, RaiseDofs, FreeAcked, EncoderState
<1>3. f.currBlock = max(e.currBlock, ack.ack_currBlock) /\ End(f) = End(e)
  BY AcknowledgedType DEF Follows
<1> HIDE DEF f
<1>4. ASSUME NEW r \in f.packetSentInfos PROVE r.blockNo \in f.currBlock .. End(f) - 1
  <2>1. /\ r.blockNo \in e.currBlock .. End(e) - 1
        /\ r.blockNo \notin e.currBlock .. e.currBlock + acked - 1
    BY <1>2 DEF TableInv
  <2>2. max(e.currBlock, ack.ack_currBlock) = e.currBlock + acked
    BY <1>1 DEF max
  <2>3. acked \in Nat
    BY <1>1 DEF max
  <2> HIDE DEF acked
  <2> QED BY <1>1, <1>3, <2>1, <2>2, <2>3
<1> QED BY <1>2, <1>3, <1>4, TableKept DEF f

\* onAck keeps the table in the window of blocks, and what was queued before it
\* with what it sends in the congestion window.
LEMMA OnAckBounds ==
  ASSUME NEW e, EncoderInv(e), TableInv(e), NEW ack \in AckPacket,
         ack.ack_currBlock <= End(e), NEW cuts, NEW f \in onAck(e, ack, cuts),
         Len(e.dataToSend) <= e.congestionWindow, Len(e.dataToSend) <= BASE_WINDOW
  PROVE  TableInv(f) /\ Len(f.dataToSend) <= f.congestionWindow
<1> DEFINE una == [e EXCEPT !.seqNo_Una = ack.ack_seqNo + 1]
           acked(w, exits) == [Acknowledged(e, ack, w) EXCEPT !.exited = exits]
           after(exits) == { acked(w, exits) : w \in { v \in Windows(e) : MayEnd(v, exits) } }
<1>1. e \in EncoderState
  BY DEF EncoderInv
<1>2. \/ f = e
      \/ f = una
      \/ f \in after(TRUE)
      \/ \E g \in ThenSend(after(FALSE), cuts) : f = RearmTimer(g)
  BY DEF onAck
<1>3. CASE f = e
  BY <1>3
<1>4. CASE f = una
  <2>1. SameTables(e, f) /\ f.blocks = e.blocks /\ f.congestionWindow = e.congestionWindow
    BY <1>1, <1>4 DEF SameTables, EncoderState
  <2> QED BY <2>1, TableKept DEF SameTables, TableInv, End, numBlock
<1>5. ASSUME NEW exits \in BOOLEAN, NEW g \in after(exits)
      PROVE  /\ EncoderInv(g) /\ TableInv(g)
             /\ g.dataToSend = e.dataToSend
             /\ Len(e.dataToSend) <= g.congestionWindow
             /\ g.congestionWindow \in Nat
  <2>1. PICK w \in Windows(e) : g = acked(w, exits)
    OBVIOUS
  <2> DEFINE h == Acknowledged(e, ack, w)
  <2>2. /\ EncoderInv(h) /\ TableInv(h)
        /\ h.congestionWindow = w /\ h.dataToSend = e.dataToSend
    BY AcknowledgedType, AcknowledgedBounds DEF Follows
  <2>3. g = [h EXCEPT !.exited = exits]
    BY <2>1
  <2> HIDE DEF h
  <2>4. /\ g \in EncoderState /\ SameTables(h, g) /\ g.blocks = h.blocks
        /\ g.congestionWindow = w
    BY <2>2, <2>3 DEF SameTables, EncoderInv, EncoderState
  <2>5. EncoderInv(g) /\ TableInv(g)
    BY <2>2, <2>4, TableKept DEF SameTables, EncoderInv, TableInv, End, numBlock
  <2>6. w \in Nat /\ Len(e.dataToSend) <= w
    <3>1. /\ Len(e.dataToSend) \in Nat /\ e.congestionWindow \in Nat
          /\ BASE_WINDOW \in Nat
      BY <1>1, EncoderAssumption DEF EncoderState
    <3> QED BY <1>1, <3>1, WindowsBounded
  <2> QED BY <2>2, <2>4, <2>5, <2>6 DEF SameTables
<1>6. CASE f \in after(TRUE)
  BY <1>5, <1>6
<1>7. CASE \E g \in ThenSend(after(FALSE), cuts) : f = RearmTimer(g)
  <2> HIDE DEF after
  <2>1. PICK g \in ThenSend(after(FALSE), cuts) : f = RearmTimer(g)
    BY <1>7
  <2>2. PICK h \in after(FALSE) : g \in onWindowUpdate(h, cuts)
    BY <2>1 DEF ThenSend
  <2>3. /\ EncoderInv(h) /\ TableInv(h) /\ h.dataToSend = e.dataToSend
        /\ Len(e.dataToSend) <= h.congestionWindow /\ h.congestionWindow \in Nat
    BY <1>5
  <2>4. /\ EncoderInv(g) /\ TableInv(g) /\ g.congestionWindow = h.congestionWindow
        /\ Len(g.dataToSend) <= g.congestionWindow
    <3>1. EncoderInv(g)
      BY <2>2, <2>3, OnWindowUpdateType DEF Follows
    <3>2. /\ TableInv(g) /\ g.congestionWindow = h.congestionWindow
          /\ \A w \in Nat : Len(h.dataToSend) <= w /\ h.congestionWindow <= w
                              => Len(g.dataToSend) <= w
      BY <2>2, <2>3, OnWindowUpdateBounds
    <3> QED BY <2>3, <3>1, <3>2
  <2>5. /\ SameTables(g, f) /\ f.blocks = g.blocks
        /\ f.congestionWindow = g.congestionWindow
    BY <2>1, <2>4 DEF RearmTimer, SameTables, EncoderInv, EncoderState
  <2> QED BY <2>4, <2>5, TableKept DEF SameTables, TableInv, End, numBlock
<1> QED BY <1>2, <1>3, <1>4, <1>6, <1>7

\* A late, repeated or new ACK keeps the bounds.
LEMMA ReceiveAckBounds == BoundsInv /\ ReceiveAck => BoundsInv'
<1> SUFFICES ASSUME BoundsInv, ReceiveAck PROVE BoundsInv'
  OBVIOUS
<1>1. PICK i \in Arrivals(ackChan, AckReorder) : enc' \in onAck(enc, ackChan[i], Cuts)
  BY DEF ReceiveAck
<1> DEFINE ack == ackChan[i]
<1>2. LinkShape /\ EncoderInv(enc) /\ TableInv(enc) /\ enc \in EncoderState
      /\ enc.currBlock \in Nat /\ dec.currBlock \in Nat
      /\ End(enc) \in Nat /\ EndOf(dec) \in Nat /\ dec.currBlock <= EndOf(dec)
      /\ EndOf(dec) <= End(enc)
  BY EndIsNumber, EndOfIsNumber DEF BoundsInv, LinkShape, EncoderInv
<1>3. ack \in AckPacket /\ ack.ack_currBlock <= dec.currBlock
  <2>1. i \in 1 .. Len(ackChan) /\ ackChan \in Seq(AcksUpTo(dec.currBlock))
    BY <1>2 DEF Arrivals, LinkShape
  <2> QED BY <2>1 DEF AcksUpTo
<1>4. enc' \in onAck(enc, ack, Cuts)
  BY <1>1
<1> HIDE DEF ack
<1>5. ack.ack_currBlock \in Nat /\ ack.ack_currBlock <= End(enc)
  BY <1>2, <1>3, PacketAssumption DEF AckPacket, BlockNo
<1>6. phase \in {Select, TimerServed}
  BY <1>2 DEF ReceiveAck, Reaches, LinkShape, Select, TimerServed, UdpServed, TcpServed
<1>7. Len(enc.dataToSend) <= enc.congestionWindow /\ Len(enc.dataToSend) <= BASE_WINDOW
  <2>1. Len(enc.dataToSend) \in Nat /\ BASE_WINDOW \in Nat
    BY <1>2, EncoderAssumption DEF EncoderState
  <2> QED BY <1>6, <2>1 DEF BoundsInv, QueueInv
<1>8. TableInv(enc') /\ Len(enc'.dataToSend) <= enc'.congestionWindow
  BY <1>2, <1>3, <1>4, <1>5, <1>7, OnAckBounds
<1>9. numBlock(enc') <= MAX_BLOCKS
  <2>1. /\ Follows(enc, enc')
        /\ enc'.currBlock \in {enc.currBlock, max(enc.currBlock, ack.ack_currBlock)}
    BY <1>2, <1>3, <1>4, <1>5, OnAckType
  <2>2. enc'.currBlock >= enc.currBlock /\ enc'.currBlock \in Nat
    BY <1>2, <1>5, <2>1 DEF max
  <2>3. numBlock(enc) \in Nat /\ numBlock(enc') \in Nat /\ numBlock(enc) <= MAX_BLOCKS
    BY <2>1 DEF BoundsInv, Follows, EncoderInv, EncoderState, LinkShape, numBlock
  <2>4. enc'.currBlock + numBlock(enc') = enc.currBlock + numBlock(enc)
    BY <2>1 DEF Follows, End
  <2> QED BY <1>2, <2>2, <2>3, <2>4, EncoderAssumption
<1>10. QueueInv(enc', phase')
  BY <1>8 DEF ReceiveAck, QueueInv, Select, TimerServed, UdpServed
<1> QED BY <1>2, <1>8, <1>9, <1>10, ReceiveAckShape DEF BoundsInv

\* What a read leaves: one more block at most, and no more queued than the window.
LEMMA HandleInClearBounds ==
  ASSUME NEW e, EncoderInv(e), TableInv(e), NEW packets \in Seq(Symbol),
         Len(packets) \in 0 .. BLKSIZE, End(e) + Len(packets) < BLOCKNO_MOD,
         NEW cuts, NEW f \in handleInClear(e, packets, cuts),
         Len(e.dataToSend) <= e.congestionWindow
  PROVE  /\ TableInv(f)
         /\ Len(f.dataToSend) <= f.congestionWindow
         /\ numBlock(f) <= numBlock(e) + 1
<1>1. PICK g : /\ EncoderInv(g)
               /\ f \in onWindowUpdate(g, cuts)
               /\ SameTables(e, g) /\ g.congestionWindow = e.congestionWindow
               /\ numBlock(g) \in numBlock(e) .. numBlock(e) + 1
               /\ numBlock(g) <= numBlock(e) + Len(packets)
  BY HandleInClearStores
<1>2. /\ e.currBlock \in Nat /\ numBlock(e) \in Nat /\ e.congestionWindow \in Nat
      /\ End(e) = e.currBlock + numBlock(e) /\ End(g) = e.currBlock + numBlock(g)
  BY <1>1, EndIsNumber DEF SameTables, EncoderInv, EncoderState, numBlock, End
<1>3. TableInv(g)
  <2>1. ASSUME NEW r \in g.packetSentInfos PROVE r.blockNo \in g.currBlock .. End(g) - 1
    <3>1. r.blockNo \in e.currBlock .. End(e) - 1
      BY <1>1 DEF SameTables, TableInv
    <3>2. g.currBlock = e.currBlock
      BY <1>1 DEF SameTables
    <3> QED BY <1>1, <1>2, <3>1, <3>2
  <2> QED BY <1>1, <2>1, TableKept DEF SameTables
<1>4. /\ TableInv(f) /\ f.congestionWindow = e.congestionWindow
      /\ numBlock(f) = numBlock(g)
      /\ \A w \in Nat : Len(e.dataToSend) <= w /\ e.congestionWindow <= w
                          => Len(f.dataToSend) <= w
  BY <1>1, <1>3, OnWindowUpdateBounds DEF SameTables
<1> QED BY <1>1, <1>2, <1>4

\* A read opens a block only below MAX_BLOCKS (isMoreDataOk).
LEMMA ReadTcpBounds == BoundsInv /\ ReadTcp => BoundsInv'
<1> SUFFICES ASSUME BoundsInv, ReadTcp PROVE BoundsInv'
  OBVIOUS
<1>1. PICK n \in 1 .. min(MaxRead, Len(Source) - nread) :
        enc' \in handleInClear(enc, SubSeq(Source, nread + 1, nread + n), Cuts)
  BY DEF ReadTcp
<1> DEFINE packets == SubSeq(Source, nread + 1, nread + n)
<1>2. LinkShape /\ EncoderInv(enc) /\ TableInv(enc) /\ QueueInv(enc, phase)
      /\ End(enc) \in Nat /\ End(enc) <= nread /\ nread \in 0 .. Len(Source)
  BY EndIsNumber DEF BoundsInv, LinkShape
<1>3. n \in 1 .. BLKSIZE /\ nread + n <= Len(Source) /\ Len(Source) \in Nat
  BY <1>1, <1>2, LinkAssumption, EncoderAssumption, BlksizeAssumption DEF min
<1>4. packets \in Seq(Symbol) /\ Len(packets) = n
  BY <1>2, <1>3, LinkAssumption, SubSeqProperties, ElementOfSeq
<1>5. enc' \in handleInClear(enc, packets, Cuts)
  BY <1>1
<1> HIDE DEF packets
<1>6. End(enc) + Len(packets) < BLOCKNO_MOD /\ Len(packets) \in 0 .. BLKSIZE
  BY <1>2, <1>3, <1>4, LinkAssumption, PacketAssumption, BlksizeAssumption
<1>7. /\ TableInv(enc') /\ Len(enc'.dataToSend) <= enc'.congestionWindow
      /\ numBlock(enc') <= numBlock(enc) + 1
  BY <1>2, <1>4, <1>5, <1>6, HandleInClearBounds DEF QueueInv
<1>8. LinkShape'
  BY <1>2, ReadTcpShape
<1>9. numBlock(enc') <= MAX_BLOCKS
  <2>1. numBlock(enc) \in Nat /\ numBlock(enc') \in Nat
    BY <1>2, <1>8, NumBlockIsNumber DEF LinkShape
  <2>2. numBlock(enc) < MAX_BLOCKS
    BY DEF ReadTcp, isMoreDataOk
  <2> QED BY <1>7, <2>1, <2>2, EncoderAssumption
<1>10. QueueInv(enc', phase')
  BY <1>7 DEF ReadTcp, QueueInv, Select, TimerServed, TcpServed
<1> QED BY <1>7, <1>8, <1>9, <1>10 DEF BoundsInv

\* A failed read opens no block.
LEMMA ReadTcpFailsBounds == BoundsInv /\ ReadTcpFails => BoundsInv'
<1> SUFFICES ASSUME BoundsInv, ReadTcpFails PROVE BoundsInv'
  OBVIOUS
<1>1. LinkShape /\ EncoderInv(enc) /\ TableInv(enc) /\ QueueInv(enc, phase)
      /\ End(enc) \in Nat /\ End(enc) < BLOCKNO_MOD
  BY EndIsNumber DEF BoundsInv, LinkShape, EncoderInv
<1>2. <<>> \in Seq(Symbol) /\ Len(<<>>) \in 0 .. BLKSIZE
      /\ End(enc) + Len(<<>>) < BLOCKNO_MOD
  BY <1>1, BlksizeAssumption
<1>3. enc' \in handleInClear(enc, <<>>, Cuts)
  BY DEF ReadTcpFails
<1>4. /\ TableInv(enc') /\ Len(enc'.dataToSend) <= enc'.congestionWindow
      /\ numBlock(enc') <= numBlock(enc) + 1
  BY <1>1, <1>2, <1>3, HandleInClearBounds DEF QueueInv
<1>5. LinkShape'
  BY <1>1, ReadTcpFailsShape
<1>6. numBlock(enc') <= MAX_BLOCKS
  <2>1. numBlock(enc) \in Nat /\ numBlock(enc') \in Nat
    BY <1>1, <1>5, NumBlockIsNumber DEF LinkShape
  <2>2. numBlock(enc) < MAX_BLOCKS
    BY DEF ReadTcpFails, isMoreDataOk
  <2> QED BY <1>4, <2>1, <2>2, EncoderAssumption
<1>7. QueueInv(enc', phase')
  BY <1>4 DEF ReadTcpFails, QueueInv, Select, TimerServed, TcpServed
<1> QED BY <1>4, <1>5, <1>6, <1>7 DEF BoundsInv

\* The queue is emptied before the next iteration of the loop.
LEMMA FlushBounds == BoundsInv /\ Flush => BoundsInv'
<1> SUFFICES ASSUME BoundsInv, Flush PROVE BoundsInv'
  OBVIOUS
<1>1. enc' = [enc EXCEPT !.dataToSend = <<>>] /\ phase' = Select
  BY DEF Flush, flush
<1>2. /\ enc \in EncoderState /\ TableInv(enc) /\ numBlock(enc) <= MAX_BLOCKS
      /\ LinkShape /\ enc.congestionWindow \in Nat
  BY DEF BoundsInv, LinkShape, EncoderInv, EncoderState
<1>3. /\ enc'.blocks = enc.blocks /\ enc'.currBlock = enc.currBlock
      /\ enc'.packetSentInfos = enc.packetSentInfos
      /\ enc'.seqNo_Next = enc.seqNo_Next /\ enc'.congestionWindow = enc.congestionWindow
      /\ enc'.dataToSend = <<>>
  BY <1>1, <1>2 DEF EncoderState
<1>4. QueueInv(enc', phase')
  BY <1>1, <1>2, <1>3, EncoderAssumption DEF QueueInv
<1>5. TableInv(enc') /\ numBlock(enc') <= MAX_BLOCKS
  BY <1>2, <1>3 DEF TableInv, End, numBlock
<1> QED BY <1>2, <1>4, <1>5, FlushShape DEF BoundsInv

\* The network and the receiver change neither the sender nor its loop.
LEMMA OthersKeepBounds ==
  ASSUME BoundsInv, LinkShape', UNCHANGED <<enc, phase>>
  PROVE  BoundsInv'
BY DEF BoundsInv, TableInv, QueueInv, End, numBlock

\* The link starts with an empty queue, an empty table and no block.
LEMMA InitBounds == Init => BoundsInv
<1> SUFFICES ASSUME Init PROVE BoundsInv
  OBVIOUS
<1>1. /\ enc.blocks = <<>> /\ enc.packetSentInfos = {} /\ enc.dataToSend = <<>>
      /\ enc.congestionWindow = BASE_WINDOW
  BY DEF Init, encoderStateInit
<1>2. TableInv(enc)
  BY <1>1 DEF TableInv
<1>3. QueueInv(enc, phase) /\ numBlock(enc) <= MAX_BLOCKS
  BY <1>1, EncoderAssumption DEF QueueInv, numBlock
<1> QED BY <1>2, <1>3, InitShape DEF BoundsInv

\* BoundsInv is kept by every step.
LEMMA NextBounds == BoundsInv /\ [Next]_vars => BoundsInv'
<1> SUFFICES ASSUME BoundsInv, [Next]_vars PROVE BoundsInv'
  OBVIOUS
<1>1. LinkShape'
  BY NextShape DEF BoundsInv
<1>2. CASE UNCHANGED vars
  BY <1>1, <1>2, OthersKeepBounds DEF vars
<1>3. CASE ReceiveData
  BY <1>1, <1>3, OthersKeepBounds DEF ReceiveData
<1>4. CASE LoseData \/ LoseAck
  BY <1>1, <1>4, OthersKeepBounds DEF LoseData, LoseAck
<1>5. CASE TimeOut \/ ReceiveAck \/ ReadTcp \/ ReadTcpFails \/ Flush
  BY <1>5, TimeOutBounds, ReceiveAckBounds, ReadTcpBounds, ReadTcpFailsBounds, FlushBounds
<1> QED BY <1>2, <1>3, <1>4, <1>5 DEF Next

-----------------------------------------------------------------------------
(* The theorems *)

\* BoundsInv is an inductive invariant of the link.
THEOREM BoundsInvHolds == Spec => []BoundsInv
BY InitBounds, NextBounds, PTL DEF Spec

\* onWindowUpdate never indexes its array of packets in flight by a block the
\* sender has freed or not filled, and a sequence number has one entry.
THEOREM SentTableInWindowHolds == Spec => []SentTableInWindow
<1>1. BoundsInv => SentTableInWindow
  <2> SUFFICES ASSUME BoundsInv PROVE SentTableInWindow
    OBVIOUS
  <2>1. TableInv(enc) /\ enc.currBlock \in Nat /\ numBlock(enc) \in Nat
    BY EndIsNumber, NumBlockIsNumber DEF BoundsInv, LinkShape
  <2>2. End(enc) - 1 = enc.currBlock + numBlock(enc) - 1
    BY <2>1 DEF End
  <2> QED BY <2>1, <2>2 DEF TableInv, SentTableInWindow
<1> QED BY <1>1, BoundsInvHolds, PTL

\* However timeouts, ACKs and reads follow each other, one iteration of the loop
\* sends no more packets than the congestion window it ends with.
THEOREM BurstWithinWindowHolds == Spec => []BurstWithinWindow
<1>1. BoundsInv => BurstWithinWindow
  BY DEF BoundsInv, QueueInv, BurstWithinWindow
<1> QED BY <1>1, BoundsInvHolds, PTL

\* The receiver counts no blocks, and is bounded by the sender's isMoreDataOk all
\* the same: what it has allocated is among the blocks the sender has.
THEOREM MemoryBoundedHolds == Spec => []MemoryBounded
<1>1. BoundsInv => MemoryBounded
  <2> SUFFICES ASSUME BoundsInv PROVE MemoryBounded
    OBVIOUS
  <2>1. /\ numBlock(enc) \in Nat /\ enc.currBlock \in Nat
        /\ nAllocated(dec) \in Nat /\ dec.currBlock \in Nat
    <3>1. EncoderInv(enc) /\ DecoderInv(dec)
      BY DEF BoundsInv, LinkShape
    <3>2. nAllocated(dec) \in Nat
      BY <3>1 DEF DecoderInv, DecoderState, nAllocated
    <3> QED BY <3>1, <3>2, EndIsNumber, EndOfIsNumber, NumBlockIsNumber
  <2>2. /\ dec.currBlock + nAllocated(dec) <= enc.currBlock + numBlock(enc)
        /\ enc.currBlock <= dec.currBlock /\ numBlock(enc) <= MAX_BLOCKS
    BY DEF BoundsInv, LinkShape, End, EndOf
  <2> QED BY <2>1, <2>2, EncoderAssumption DEF MemoryBounded
<1> QED BY <1>1, BoundsInvHolds, PTL
=============================================================================

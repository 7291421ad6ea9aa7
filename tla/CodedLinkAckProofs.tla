------------------------- MODULE CodedLinkAckProofs -------------------------
(***************************************************************************)
(* What the sender credits was received, when the network keeps the order  *)
(* of ACKs (AckReorder = 0), for every field, window and loss.             *)
(*                                                                         *)
(* An ACK does not name the blocks its counts are for: the sender credits  *)
(* the i-th to its own i-th block, so the order of the ACKs is all that    *)
(* makes them the same blocks.  OrderInv is the inductive invariant: the   *)
(* ACKs under way are for blocks the sender still has, in order, and say   *)
(* of each what was received of it; so does what the sender credited.  The *)
(* network may lose and duplicate: a repeated ACK is still in order.       *)
(***************************************************************************)
EXTENDS CodedLinkStreamProofs

-----------------------------------------------------------------------------
(* What was received *)

\* The degrees of freedom a decoder has, or had, of every block.
Received(d) ==
  [b \in Nat |->
     IF b < d.currBlock THEN BLKSIZE
     ELSE IF b - d.currBlock < nAllocated(d)
     THEN d.nPacketsInBlock[b - d.currBlock + 1] ELSE 0]

LEMMA ReceivedType ==
  ASSUME NEW d, DecoderInv(d)
  PROVE  \A b \in Nat : Received(d)[b] \in Nat
<1>1. ASSUME NEW b \in Nat, ~(b < d.currBlock), b - d.currBlock < nAllocated(d)
      PROVE  d.nPacketsInBlock[b - d.currBlock + 1] \in Nat
  <2>1. b - d.currBlock + 1 \in 1 .. nAllocated(d)
    BY <1>1, DecoderFacts
  <2> QED BY <2>1, DecoderFacts
<1> QED BY <1>1, BlksizeAssumption DEF Received

\* Nothing that was received is forgotten.
Grows(R, S) == \A b \in Nat : R[b] <= S[b]

LEMMA GrowsTwice ==
  ASSUME NEW R, NEW S, NEW T, Grows(R, S), Grows(S, T),
         \A b \in Nat : R[b] \in Nat /\ S[b] \in Nat /\ T[b] \in Nat
  PROVE  Grows(R, T)
<1> SUFFICES ASSUME NEW b \in Nat PROVE R[b] <= T[b]
  BY DEF Grows
<1>1. R[b] <= S[b] /\ S[b] <= T[b]
  BY DEF Grows
<1>2. R[b] \in Nat /\ S[b] \in Nat /\ T[b] \in Nat
  OBVIOUS
<1> QED BY <1>1, <1>2

\* More packets of the same blocks, or more blocks.
LEMMA CountsGrow ==
  ASSUME NEW d, DecoderInv(d), NEW f, DecoderInv(f), f.currBlock = d.currBlock,
         nAllocated(d) <= nAllocated(f),
         \A b \in 1 .. nAllocated(d) : d.nPacketsInBlock[b] <= f.nPacketsInBlock[b]
  PROVE  Grows(Received(d), Received(f))
<1> SUFFICES ASSUME NEW b \in Nat PROVE Received(d)[b] <= Received(f)[b]
  BY DEF Grows
<1>1. /\ d.currBlock \in Nat /\ nAllocated(d) \in Nat /\ nAllocated(f) \in Nat
      /\ Received(f)[b] \in Nat /\ Received(d)[b] \in Nat
  BY DecoderFacts, ReceivedType
<1>2. CASE b < d.currBlock
  BY <1>2, BlksizeAssumption DEF Received
<1>3. CASE ~(b < d.currBlock) /\ b - d.currBlock < nAllocated(d)
  <2>1. b - d.currBlock + 1 \in 1 .. nAllocated(d) /\ b - d.currBlock < nAllocated(f)
    BY <1>1, <1>3
  <2>2. Received(d)[b] = d.nPacketsInBlock[b - d.currBlock + 1]
    BY <1>3 DEF Received
  <2>3. Received(f)[b] = f.nPacketsInBlock[b - d.currBlock + 1]
    BY <1>3, <2>1 DEF Received
  <2> QED BY <2>1, <2>2, <2>3
<1>4. CASE ~(b < d.currBlock) /\ ~(b - d.currBlock < nAllocated(d))
  <2>1. Received(d)[b] = 0
    BY <1>4 DEF Received
  <2> QED BY <1>1, <2>1
<1> QED BY <1>2, <1>3, <1>4

\* Appending counts one packet more or none.
LEMMA AppendedCounts ==
  ASSUME NEW d, DecoderInv(d), NEW rs, NEW pkt \in DataPacket
  PROVE  Grows(Received(d), Received(appended(d, rs, pkt).dec))
<1> DEFINE f == allocate(d, pkt)
           b == pkt.blockNo - d.currBlock + 1
           g == appended(d, rs, pkt).dec
<1>1. DecoderInv(f) /\ f.currBlock = d.currBlock /\ DecoderInv(g) /\ g.currBlock = d.currBlock
  BY AllocateType, AppendedType
<1>2. /\ nAllocated(d) <= nAllocated(f)
      /\ \A i \in 1 .. nAllocated(f) :
           f.nPacketsInBlock[i] = IF i <= nAllocated(d) THEN d.nPacketsInBlock[i] ELSE 0
  BY AllocatedCounts
<1>3. nAllocated(f) \in Nat /\ nAllocated(d) \in Nat
      /\ \A i \in 1 .. nAllocated(f) : f.nPacketsInBlock[i] \in Nat
  BY <1>1, DecoderFacts
<1>4. g = f \/ g = [f EXCEPT !.nPacketsInBlock[b] = @ + 1]
  BY DEF appended
<1> HIDE DEF f, g, b
<1>5. /\ nAllocated(g) = nAllocated(f)
      /\ \A i \in 1 .. nAllocated(f) : f.nPacketsInBlock[i] <= g.nPacketsInBlock[i]
  <2>1. CASE g = f
    BY <1>3, <2>1
  <2>2. CASE g = [f EXCEPT !.nPacketsInBlock[b] = @ + 1]
    <3> DEFINE c == f.nPacketsInBlock
               s == [c EXCEPT ![b] = c[b] + 1]
    <3>1. g.nPacketsInBlock = s
      BY <1>1, <2>2 DEF DecoderInv, DecoderState
    <3>2. c \in Seq(Nat) /\ Len(c) = nAllocated(f) /\ \A i \in 1 .. Len(c) : c[i] \in Nat
      BY <1>1, DecoderFacts
    <3> HIDE DEF c
    <3>3. Len(s) = Len(c) /\ \A i \in 1 .. Len(c) : c[i] <= s[i]
      BY <3>2
    <3> HIDE DEF s
    <3> QED BY <3>1, <3>2, <3>3 DEF nAllocated, c
  <2> QED BY <1>4, <2>1, <2>2
<1>6. \A i \in 1 .. nAllocated(d) : d.nPacketsInBlock[i] <= g.nPacketsInBlock[i]
  <2> TAKE i \in 1 .. nAllocated(d)
  <2>1. i \in 1 .. nAllocated(f) /\ i <= nAllocated(d)
    BY <1>2, <1>3
  <2> QED BY <1>2, <1>5, <2>1
<1>7. nAllocated(d) <= nAllocated(g)
  BY <1>2, <1>5
<1> QED BY <1>1, <1>6, <1>7, CountsGrow DEF g

\* A block that is left was received whole.
LEMMA HandOverCounts ==
  ASSUME NEW d, DecoderInv(d), EndOf(d) < BLOCKNO_MOD, nAllocated(d) > 0,
         NEW sent \in Nat
  PROVE  Grows(Received(d), Received(handOver(d, sent)))
<1> DEFINE f == handOver(d, sent)
           k == d.currBlock
           l == nAllocated(d)
           c == d.nPacketsInBlock
<1>1. /\ k \in Nat /\ l \in Nat /\ c \in Seq(Nat) /\ Len(c) = l /\ BLKSIZE \in Nat
      /\ \A i \in 1 .. l : c[i] \in Nat
  BY DecoderFacts, BlksizeAssumption
<1>2. DecoderInv(f)
  BY HandOverType DEF HandedOver
<1>3. CASE ~isBlockDone(c[1], sent)
  <2>1. f.currBlock = k /\ f.nPacketsInBlock = c /\ nAllocated(f) = l
    BY <1>3 DEF handOver, DecoderInv, DecoderState, nAllocated
  <2> HIDE DEF f
  <2>2. \A i \in 1 .. l : c[i] <= f.nPacketsInBlock[i]
    BY <1>1, <2>1
  <2>3. l <= nAllocated(f)
    BY <1>1, <2>1
  <2>4. Grows(Received(d), Received(f))
    BY <1>2, <2>1, <2>2, <2>3, CountsGrow
  <2> QED BY <2>4 DEF f
<1>4. CASE isBlockDone(c[1], sent)
  <2>1. c[1] = BLKSIZE
    BY <1>4 DEF isBlockDone
  <2>2. (d.currBlock + 1) % BLOCKNO_MOD = d.currBlock + 1
    <3>1. EndOf(d) = k + l
      BY DEF EndOf
    <3>2. k + 1 \in BlockNo /\ k + 1 \in Int
      BY <1>1, <3>1, PacketAssumption DEF BlockNo
    <3> QED BY <3>2, ModFacts
  <2>3. f.currBlock = k + 1 /\ f.nPacketsInBlock = Tail(c)
    BY <1>4, <2>2 DEF handOver
  <2> HIDE DEF f, c, l, k
  <2>4. Len(Tail(c)) = l - 1 /\ \A i \in 1 .. l - 1 : Tail(c)[i] = c[i + 1]
    BY <1>1, EmptySeq, HeadTailProperties DEF l
  <2>5. nAllocated(f) = l - 1
    BY <2>3, <2>4 DEF nAllocated
  <2>6. ASSUME NEW b \in Nat PROVE Received(d)[b] <= Received(f)[b]
    <3>1. Received(d)[b] \in Nat /\ Received(f)[b] \in Nat
      BY <1>2, ReceivedType
    <3>2. Received(d)[b] = IF b < k THEN BLKSIZE
                           ELSE IF b - k < l THEN c[b - k + 1] ELSE 0
      BY DEF Received, k, l, c
    <3>3. Received(f)[b] = IF b < k + 1 THEN BLKSIZE
                           ELSE IF b - (k + 1) < l - 1 THEN Tail(c)[b - (k + 1) + 1] ELSE 0
      BY <2>3, <2>5 DEF Received
    <3>4. CASE b < k
      BY <1>1, <3>2, <3>3, <3>4
    <3>5. CASE b = k
      <4>1. b - k + 1 = 1 /\ b < k + 1 /\ ~(b < k)
        BY <1>1, <3>5
      <4>2. Received(f)[b] = BLKSIZE
        BY <3>3, <4>1
      <4>3. Received(d)[b] = BLKSIZE \/ Received(d)[b] = 0
        BY <2>1, <3>2, <4>1
      <4> QED BY <1>1, <4>2, <4>3
    <3>6. CASE b > k /\ b - k < l
      <4>1. /\ ~(b < k) /\ ~(b < k + 1) /\ b - (k + 1) < l - 1
            /\ b - (k + 1) + 1 = b - k /\ b - k \in 1 .. l - 1
        BY <1>1, <3>6
      <4>2. Received(f)[b] = Tail(c)[b - k]
        BY <3>3, <4>1
      <4>3. Tail(c)[b - k] = c[b - k + 1]
        BY <2>4, <4>1
      <4>4. Received(d)[b] = c[b - k + 1]
        BY <3>2, <3>6, <4>1
      <4>5. Received(d)[b] = Received(f)[b]
        BY <4>2, <4>3, <4>4
      <4> QED BY <3>1, <4>5
    <3>7. CASE b > k /\ ~(b - k < l)
      <4>1. ~(b < k)
        BY <1>1, <3>7
      <4>2. Received(d)[b] = 0
        BY <3>2, <3>7, <4>1
      <4> QED BY <3>1, <4>2
    <3> QED BY <1>1, <3>4, <3>5, <3>6, <3>7
  <2> QED BY <2>6 DEF Grows, f
<1> QED BY <1>3, <1>4

\* A packet adds to what was received, whatever it makes of the decoder.
LEMMA HandleInCodedCounts ==
  ASSUME NEW d, DecoderInv(d), EndOf(d) < BLOCKNO_MOD, NEW rs,
         NEW pkt \in DataPacket, pkt.blockNo + 1 < BLOCKNO_MOD,
         NEW out \in handleInCoded(d, rs, pkt)
  PROVE  Grows(Received(d), Received(out.dec))
<1> DEFINE a == appended(d, rs, pkt)
<1>1. /\ DecoderInv(a.dec) /\ EndOf(a.dec) \in {EndOf(d), pkt.blockNo + 1}
      /\ Grows(Received(d), Received(a.dec))
  BY AppendedType, AppendedCounts
<1>2. out \in extractData(a.dec, a.rows)
  BY DEF handleInCoded
<1> HIDE DEF a
<1>3. CASE canExtract(a.dec)
  <2>1. PICK first : out = extracted(a.dec, a.rows, first)
    BY <1>2, <1>3 DEF extractData
  <2> DEFINE n == a.dec.nPacketsInBlock[1]
             sent == nDecoded(first, n)
  <2>2. nAllocated(a.dec) > 0 /\ n \in Nat
    BY <1>1, <1>3, DecoderFacts DEF canExtract
  <2>3. sent \in Nat
    BY <2>2, nDecodedType
  <2>4. out.dec = handOver(a.dec, sent)
    BY <2>1 DEF extracted
  <2> HIDE DEF sent, n
  <2>5. EndOf(a.dec) < BLOCKNO_MOD
    BY <1>1
  <2>6. /\ Grows(Received(a.dec), Received(out.dec)) /\ DecoderInv(out.dec)
    BY <1>1, <2>2, <2>3, <2>4, <2>5, HandOverCounts, HandOverType DEF HandedOver
  <2>7. \A b \in Nat : /\ Received(d)[b] \in Nat /\ Received(a.dec)[b] \in Nat
                       /\ Received(out.dec)[b] \in Nat
    BY <1>1, <2>6, ReceivedType
  <2> QED BY <1>1, <2>6, <2>7, GrowsTwice
<1>4. CASE ~canExtract(a.dec)
  BY <1>1, <1>2, <1>4 DEF extractData
<1> QED BY <1>3, <1>4

-----------------------------------------------------------------------------
(* What the sender credits *)

\* No block is credited with more than R says was received of it.
SoundDofs(e, R) ==
  \A i \in 1 .. Len(e.blocks) : e.blocks[i].dofs <= R[e.currBlock + (i - 1)]

\* A sender that holds all data transferred was credited all of it.
QuietCredited(e) ==
  ~e.isOutstandingData =>
    \A i \in 1 .. Len(e.blocks) : nPackets(e.blocks[i]) <= e.blocks[i].dofs

CreditInv(e, R) == SoundDofs(e, R) /\ QuietCredited(e) /\ e.congestionWindow >= 1

\* An encoder f with the credits of e, whose blocks may be sent from.
SameCredits(e, f) ==
  /\ f.currBlock = e.currBlock /\ Len(f.blocks) = Len(e.blocks)
  /\ \A i \in 1 .. Len(e.blocks) :
       f.blocks[i].data = e.blocks[i].data /\ f.blocks[i].dofs = e.blocks[i].dofs

LEMMA SameCreditsSound ==
  ASSUME NEW e, NEW f, NEW R, SoundDofs(e, R), SameCredits(e, f)
  PROVE  SoundDofs(f, R)
BY DEF SoundDofs, SameCredits

LEMMA EncoderFacts ==
  ASSUME NEW e, EncoderInv(e)
  PROVE  /\ e \in EncoderState /\ e.currBlock \in Nat
         /\ e.blocks \in Seq(Block) /\ Len(e.blocks) \in Nat
         /\ DOMAIN e.blocks = 1 .. Len(e.blocks)
         /\ \A i \in 1 .. Len(e.blocks) : e.blocks[i] \in Block /\ e.blocks[i].dofs \in Nat
<1> DEFINE bs == e.blocks
<1>1. e \in EncoderState /\ e.currBlock \in Nat /\ bs \in Seq(Block)
  BY PacketAssumption DEF EncoderInv, EncoderState, BlockNo
<1> HIDE DEF bs
<1>2. /\ Len(bs) \in Nat /\ DOMAIN bs = 1 .. Len(bs)
      /\ \A i \in 1 .. Len(bs) : bs[i] \in Block
  BY <1>1
<1>3. \A b \in Block : b.dofs \in Nat
  BY DEF Block
<1> QED BY <1>1, <1>2, <1>3 DEF bs

\* What was received since does not make a credit less sound.
LEMMA SoundDofsGrow ==
  ASSUME NEW e, EncoderInv(e), NEW R, NEW S, Grows(R, S), SoundDofs(e, R),
         \A b \in Nat : R[b] \in Nat /\ S[b] \in Nat
  PROVE  SoundDofs(e, S)
<1> SUFFICES ASSUME NEW i \in 1 .. Len(e.blocks)
             PROVE  e.blocks[i].dofs <= S[e.currBlock + (i - 1)]
  BY DEF SoundDofs
<1> DEFINE x == e.blocks[i].dofs
           b == e.currBlock + (i - 1)
<1>1. x \in Nat /\ e.currBlock \in Nat
  BY EncoderFacts
<1>2. b \in Nat
  BY <1>1
<1>3. x <= R[b] /\ R[b] <= S[b]
  BY <1>2 DEF SoundDofs, Grows
<1> HIDE DEF x, b
<1>4. R[b] \in Nat /\ S[b] \in Nat
  BY <1>2
<1>5. x <= S[b]
  BY <1>1, <1>3, <1>4
<1> QED BY <1>5 DEF x, b

\* With nothing in flight nothing is expected to arrive.
LEMMA NothingArrives ==
  ASSUME NEW p \in LossRatio
  PROVE  ExpectedArrivals(p, 0) = 0
<1> DEFINE t == p.total
           q == (t - 1) \div t
<1>1. t \in Nat /\ t > 0 /\ p.loss \in Nat
  BY LossAssumption
<1>2. (p.total - p.loss) * 0 + p.total - 1 = t - 1
  BY <1>1
<1>3. ExpectedArrivals(p, 0) = q
  BY <1>2 DEF ExpectedArrivals
<1> HIDE DEF t
<1>4. q = 0
  BY <1>1
<1> QED BY <1>3, <1>4

\* A plan that sends nothing, with room in the window and nothing in flight, found
\* no block worth sending from: every block has all its credits.
LEMMA NothingWorthSending ==
  ASSUME NEW e, EncoderInv(e), e.congestionWindow >= 1, NEW cut, NEW plan \in Plans(e, cut),
         Len(plan) = 0, totalInFlight(e, cut) = 0
  PROVE  \A i \in 1 .. Len(e.blocks) : nPackets(e.blocks[i]) <= e.blocks[i].dofs
<1>1. /\ e \in EncoderState /\ e.congestionWindow \in Nat /\ e.p \in LossRatio
      /\ DOMAIN e.blocks = 1 .. Len(e.blocks) /\ Len(e.blocks) \in Nat
      /\ \A i \in 1 .. Len(e.blocks) : e.blocks[i] \in Block
  BY DEF EncoderInv, EncoderState
<1>2. plan = <<>>
  <2>1. plan \in Seq(DOMAIN e.blocks)
    BY <1>1, PlansType
  <2> QED BY <2>1, EmptySeq
<1>3. NextToSend(e, cut, plan) = {}
  <2>1. max(0, e.congestionWindow - totalInFlight(e, cut)) # 0
    BY <1>1 DEF max
  <2>2. Len(plan) = max(0, e.congestionWindow - totalInFlight(e, cut))
          \/ NextToSend(e, cut, plan) = {}
    BY Zenon DEF Plans
  <2> QED BY <2>1, <2>2
<1>4. ASSUME NEW i \in 1 .. Len(e.blocks) PROVE ~WorthSending(e, cut, plan, i)
  <2> DEFINE W == { j \in 1 .. Len(e.blocks) : WorthSending(e, cut, plan, j) }
  <2> SUFFICES ASSUME W # {} PROVE FALSE
    OBVIOUS
  <2>1. W \in SUBSET Nat
    OBVIOUS
  <2>2. PICK n \in W : \A m \in W : n <= m
    <3> HIDE DEF W
    <3> QED BY <2>1, LeastOf
  <2>3. \A j \in 1 .. n - 1 : ~WorthSending(e, cut, plan, j)
    BY <1>1, <2>2
  <2>4. n \in NextToSend(e, cut, plan)
    BY <1>1, <2>2, <2>3 DEF NextToSend
  <2> QED BY <1>3, <2>4
<1>5. InFlight(e, cut) = {}
  <2>1. Cardinality(InFlight(e, cut)) = 0
    <3> DEFINE x == Cardinality(InFlight(e, cut))
               y == Len(e.dataToSend)
    <3>1. x \in Nat /\ y \in Nat
      BY <1>1, InFlightIsNumber DEF EncoderState
    <3>2. max(x, y) = 0
      BY DEF totalInFlight
    <3> HIDE DEF x, y
    <3>3. x = 0
      BY <3>1, <3>2 DEF max
    <3> QED BY <3>3 DEF x
  <2>2. IsFiniteSet(InFlight(e, cut))
    <3>1. InFlight(e, cut) \subseteq PacketSentInfo
      BY <1>1 DEF InFlight, EncoderState
    <3> QED BY <3>1, PacketSentInfoFinite, FS_Subset
  <2> QED BY <2>1, <2>2, FS_EmptySet
<1>6. ASSUME NEW i \in 1 .. Len(e.blocks)
      PROVE  nPackets(e.blocks[i]) <= e.blocks[i].dofs
  <2>1. nPacketsInFlight(e, cut, i) = 0
    <3>1. { r \in InFlight(e, cut) : r.blockNo = e.currBlock + i - 1 } = {}
      BY <1>5
    <3> QED BY <3>1, FS_EmptySet DEF nPacketsInFlight
  <2>2. SentFrom(plan, Len(plan), i) = 0
    <3>1. { j \in 1 .. 0 : plan[j] = i } = {}
      OBVIOUS
    <3> QED BY <3>1, FS_EmptySet DEF SentFrom
  <2>3. ExpectedArrivals(e.p, 0 + 0) = 0
    BY <1>1, NothingArrives
  <2> DEFINE b == e.blocks[i]
  <2>4. ~(0 < nPackets(b) - b.dofs)
    BY <1>4, <2>1, <2>2, <2>3 DEF WorthSending
  <2>5. b \in Block
    BY <1>1
  <2> HIDE DEF b
  <2>6. nPackets(b) \in Nat /\ b.dofs \in Nat
    BY <2>5, BlockFacts DEF Block, Dofs
  <2>7. nPackets(b) <= b.dofs
    BY <2>4, <2>6
  <2> QED BY <2>7 DEF b
<1> QED BY <1>6

\* Sending changes no credit.
LEMMA SendFromBlockCredits ==
  ASSUME NEW e, EncoderInv(e), NEW plan
  PROVE  /\ SameCredits(e, sendFromBlock(e, plan))
         /\ sendFromBlock(e, plan).congestionWindow = e.congestionWindow
<1>1. /\ e \in EncoderState /\ DOMAIN e.blocks = 1 .. Len(e.blocks)
      /\ \A i \in 1 .. Len(e.blocks) : e.blocks[i] \in Block
      /\ Len(e.blocks) \in Nat
  BY DEF EncoderInv, EncoderState
<1> DEFINE bs == Marked(e, plan)
           f == sendFromBlock(e, plan)
<1>2. /\ DOMAIN bs = 1 .. Len(e.blocks)
      /\ \A i \in 1 .. Len(e.blocks) :
           bs[i].data = e.blocks[i].data /\ bs[i].dofs = e.blocks[i].dofs
  BY <1>1 DEF Marked, Block
<1>3. Len(bs) = Len(e.blocks)
  <2> HIDE DEF bs
  <2> QED BY <1>1, <1>2
<1>4. f.blocks = bs /\ f.currBlock = e.currBlock /\ f.congestionWindow = e.congestionWindow
  BY <1>1 DEF sendFromBlock, EncoderState
<1> HIDE DEF f, bs
<1>5. SameCredits(e, f) /\ f.congestionWindow = e.congestionWindow
  BY <1>2, <1>3, <1>4 DEF SameCredits
<1> QED BY <1>5 DEF f

\* What onWindowUpdate holds transferred was credited.
LEMMA OnWindowUpdateCredits ==
  ASSUME NEW e, EncoderInv(e), NEW R, CreditInv(e, R), NEW cuts,
         NEW f \in onWindowUpdate(e, cuts)
  PROVE  CreditInv(f, R)
<1>1. CASE ~e.isOutstandingData
  BY <1>1 DEF onWindowUpdate
<1>2. CASE e.isOutstandingData
  <2>1. PICK cut \in cuts : \E plan \in Plans(e, cut) :
          f = [sendFromBlock(e, plan) EXCEPT
                !.isOutstandingData = totalInFlight(e, cut) + Len(plan) > 0]
    BY <1>2 DEF onWindowUpdate
  <2>2. PICK plan \in Plans(e, cut) :
          f = [sendFromBlock(e, plan) EXCEPT
                !.isOutstandingData = totalInFlight(e, cut) + Len(plan) > 0]
    BY <2>1
  <2> DEFINE g == sendFromBlock(e, plan)
             more == totalInFlight(e, cut) + Len(plan) > 0
  <2>3. SameCredits(e, g) /\ g.congestionWindow = e.congestionWindow
    BY SendFromBlockCredits
  <2>4. DOMAIN g = DOMAIN e /\ "isOutstandingData" \in DOMAIN e /\ e.blocks \in Seq(Block)
    BY DEF sendFromBlock, EncoderInv, EncoderState
  <2>5. f = [g EXCEPT !.isOutstandingData = more]
    BY <2>2
  <2>6. ~more => \A i \in 1 .. Len(e.blocks) : nPackets(e.blocks[i]) <= e.blocks[i].dofs
    <3> SUFFICES ASSUME ~more
                 PROVE  \A i \in 1 .. Len(e.blocks) : nPackets(e.blocks[i]) <= e.blocks[i].dofs
      OBVIOUS
    <3>1. e \in EncoderState
      BY DEF EncoderInv
    <3>2. totalInFlight(e, cut) \in Nat /\ Len(plan) \in Nat
      BY <3>1, InFlightIsNumber, PlansType
    <3>3. totalInFlight(e, cut) = 0 /\ Len(plan) = 0
      BY <3>2
    <3> QED BY <3>3, NothingWorthSending DEF CreditInv
  <2> HIDE DEF g, more
  <2>7. /\ f.blocks = g.blocks /\ f.currBlock = g.currBlock
        /\ f.congestionWindow = g.congestionWindow /\ f.isOutstandingData = more
    BY <2>4, <2>5
  <2>8. SameCredits(e, f)
    BY <2>3, <2>7 DEF SameCredits
  <2>9. SoundDofs(f, R)
    BY <2>8, SameCreditsSound DEF CreditInv
  <2>10. QuietCredited(f)
    BY <2>6, <2>7, <2>8 DEF QuietCredited, SameCredits, nPackets
  <2> QED BY <2>3, <2>7, <2>9, <2>10 DEF CreditInv
<1> QED BY <1>1, <1>2

\* An encoder f with the credits of e, from which it sends, if it does.
LEMMA SameCreditsInv ==
  ASSUME NEW e, NEW f, NEW R, CreditInv(e, R), SameCredits(e, f),
         f.congestionWindow >= 1,
         f.isOutstandingData = e.isOutstandingData \/ f.isOutstandingData
  PROVE  CreditInv(f, R)
<1>1. SoundDofs(f, R)
  BY SameCreditsSound DEF CreditInv
<1>2. QuietCredited(f)
  BY DEF CreditInv, QuietCredited, SameCredits, nPackets
<1> QED BY <1>1, <1>2 DEF CreditInv

LEMMA OnTimeOutCredits ==
  ASSUME NEW e, EncoderInv(e), NEW R, CreditInv(e, R), NEW cuts,
         NEW f \in onTimeOut(e, cuts)
  PROVE  CreditInv(f, R)
<1> DEFINE g == [e EXCEPT !.slowStartMode = TRUE, !.congestionWindow = BASE_WINDOW,
                   !.nextTimeout = IF e.isOutstandingData THEN "armed" ELSE "past"]
<1>1. /\ g \in EncoderState /\ g.currBlock = e.currBlock /\ g.blocks = e.blocks
      /\ g.dataToSend = e.dataToSend /\ g.congestionWindow = BASE_WINDOW
  BY EncoderAssumption DEF EncoderInv, EncoderState
<1>2. g.isOutstandingData = e.isOutstandingData
  BY Zenon DEF EncoderInv, EncoderState
<1>3. f \in onWindowUpdate(g, cuts)
  BY DEF onTimeOut, ThenSend
<1> HIDE DEF g
<1>4. EncoderInv(g)
  BY <1>1 DEF EncoderInv, End, numBlock
<1>5. g.congestionWindow >= 1
  BY <1>1, EncoderAssumption
<1>6. SameCredits(e, g)
  BY <1>1 DEF SameCredits
<1>7. CreditInv(g, R)
  BY <1>2, <1>5, <1>6, SameCreditsInv
<1> QED BY <1>3, <1>4, <1>7, OnWindowUpdateCredits

\* A read changes no credit, and a block it opens has none.
LEMMA StoredCredits ==
  ASSUME NEW blocks \in Seq(Block), NEW packets, NEW bs \in Stored(blocks, packets)
  PROVE  /\ Len(bs) \in Nat
         /\ \A i \in 1 .. Len(bs) :
              bs[i].dofs = IF i <= Len(blocks) THEN blocks[i].dofs ELSE 0
<1> DEFINE known == KnownBlocks(blocks)
           room(j) == min(BLKSIZE - nPackets(known[j]), Len(packets))
           more(j) == SubSeq(packets, 1, room(j))
           filled(j) == [known EXCEPT ![j].data = @ \o more(j)]
           rest(j) == SubSeq(packets, room(j) + 1, Len(packets))
           opened(j) == [blockCreate EXCEPT !.data = rest(j)]
           n == Len(blocks)
<1>1. PICK i \in DOMAIN known :
        bs = IF rest(i) = <<>> THEN filled(i) ELSE Append(filled(i), opened(i))
  BY DEF Stored, KnownBlocks
<1>2. /\ known \in Seq(Block) /\ Len(known) \in n .. n + 1 /\ n \in Nat
      /\ \A j \in 1 .. Len(known) : known[j].dofs = IF j <= n THEN blocks[j].dofs ELSE 0
  <2>1. n \in Nat /\ \A j \in 1 .. n : blocks[j] \in Block
    OBVIOUS
  <2>2. CASE \A j \in DOMAIN blocks : Full(blocks[j])
    <3>1. known = Append(blocks, blockCreate)
      BY <2>2 DEF KnownBlocks
    <3>2. /\ known \in Seq(Block) /\ Len(known) = n + 1 /\ known[n + 1] = blockCreate
          /\ \A j \in 1 .. n : known[j] = blocks[j]
      BY <3>1, BlockCreateFacts, AppendProperties
    <3>3. blockCreate.dofs = 0
      BY DEF blockCreate
    <3> HIDE DEF known, n
    <3>4. \A j \in 1 .. n + 1 : j \in 1 .. n \/ (j = n + 1 /\ ~(j <= n))
      BY <2>1
    <3>5. \A j \in 1 .. n : j <= n
      BY <2>1
    <3> QED BY <2>1, <3>2, <3>3, <3>4, <3>5
  <2>3. CASE ~(\A j \in DOMAIN blocks : Full(blocks[j]))
    BY <2>1, <2>3 DEF KnownBlocks
  <2> QED BY <2>2, <2>3
<1> DEFINE b == [known[i] EXCEPT !.data = @ \o more(i)]
           new == filled(i)
           o == opened(i)
<1>3. new = [known EXCEPT ![i] = b]
  OBVIOUS
<1>4. b.dofs = known[i].dofs /\ i \in 1 .. Len(known)
  <2>1. known[i] \in Block /\ i \in 1 .. Len(known)
    BY <1>1, <1>2
  <2> HIDE DEF known, more
  <2> QED BY <2>1 DEF Block
<1>5. o.dofs = 0
  BY DEF blockCreate
<1>6. bs = new \/ bs = Append(new, o)
  BY <1>1
<1> HIDE DEF known, b, new, o, n, rest, opened, filled, more, room
<1>7. /\ DOMAIN new = 1 .. Len(known) /\ Len(known) \in Nat
      /\ \A j \in 1 .. Len(known) : new[j] = IF j = i THEN b ELSE known[j]
  BY <1>2, <1>3
<1>8. new \in Seq({ new[j] : j \in 1 .. Len(known) } \cup {o}) /\ Len(new) = Len(known)
  <2> DEFINE S == { new[j] : j \in 1 .. Len(known) } \cup {o}
  <2>1. \A j \in 1 .. Len(known) : new[j] \in S
    OBVIOUS
  <2> HIDE DEF S
  <2>2. new = [j \in 1 .. Len(known) |-> new[j]]
    BY <1>3, <1>7
  <2>3. Len(new) = Len(known)
    BY <1>2, <1>3
  <2> QED BY <1>7, <2>1, <2>2, <2>3 DEF S
<1>9. \A j \in 1 .. Len(known) : new[j].dofs = IF j <= n THEN blocks[j].dofs ELSE 0
  BY <1>2, <1>4, <1>7
<1>10. CASE bs = new
  BY <1>2, <1>8, <1>9, <1>10 DEF n
<1>11. CASE bs = Append(new, o)
  <2> DEFINE S == { new[j] : j \in 1 .. Len(known) } \cup {o}
             l == Len(known)
  <2>1. new \in Seq(S) /\ o \in S /\ Len(new) = l
    BY <1>8
  <2> HIDE DEF S, l
  <2>2. /\ Len(bs) = l + 1 /\ bs[l + 1] = o /\ \A j \in 1 .. l : bs[j] = new[j]
    <3>1. /\ Len(Append(new, o)) = l + 1 /\ Append(new, o)[l + 1] = o
          /\ \A j \in 1 .. l : Append(new, o)[j] = new[j]
      BY <2>1, AppendProperties
    <3> QED BY <1>11, <3>1
  <2>3. l \in Nat /\ n \in Nat /\ l >= n
    BY <1>2 DEF l
  <2>4. ASSUME NEW j \in 1 .. l + 1
        PROVE  bs[j].dofs = IF j <= n THEN blocks[j].dofs ELSE 0
    <3>1. CASE j \in 1 .. l
      BY <1>9, <2>2, <3>1 DEF l
    <3>2. CASE j = l + 1
      <4>1. ~(j <= n)
        BY <2>3, <3>2
      <4> QED BY <1>5, <2>2, <3>2, <4>1
    <3> QED BY <2>3, <3>1, <3>2
  <2>5. l + 1 \in Nat
    BY <2>3
  <2> QED BY <2>2, <2>4, <2>5 DEF n
<1> QED BY <1>6, <1>10, <1>11

LEMMA HandleInClearCredits ==
  ASSUME NEW e, EncoderInv(e), NEW R, \A b \in Nat : R[b] \in Nat, CreditInv(e, R),
         NEW packets \in Seq(Symbol), Len(packets) \in 0 .. BLKSIZE,
         End(e) + Len(packets) < BLOCKNO_MOD,
         NEW cuts, NEW f \in handleInClear(e, packets, cuts)
  PROVE  CreditInv(f, R)
<1>1. PICK g : /\ EncoderInv(g)
               /\ f \in onWindowUpdate(g, cuts)
               /\ SameTables(e, g) /\ g.congestionWindow = e.congestionWindow
               /\ g.isOutstandingData = TRUE
               /\ g.blocks \in IF packets = <<>> THEN {e.blocks}
                               ELSE Stored(e.blocks, packets)
  BY HandleInClearStores
<1>2. QuietCredited(g) /\ g.congestionWindow >= 1
  BY <1>1 DEF QuietCredited, CreditInv
<1>3. g.currBlock = e.currBlock /\ SoundDofs(e, R)
  BY <1>1 DEF SameTables, CreditInv
<1>4. SoundDofs(g, R)
  <2>1. CASE packets = <<>>
    <3>1. g.blocks = e.blocks
      BY <1>1, <2>1
    <3> QED BY <1>3, <3>1 DEF SoundDofs
  <2>2. CASE packets # <<>>
    <3>1. g.blocks \in Stored(e.blocks, packets)
      BY <1>1, <2>2
    <3>2. e.blocks \in Seq(Block) /\ e.currBlock \in Nat
      BY EncoderFacts
    <3>3. \A i \in 1 .. Len(g.blocks) :
            g.blocks[i].dofs = IF i <= Len(e.blocks) THEN e.blocks[i].dofs ELSE 0
      BY <3>1, <3>2, StoredCredits
    <3>4. ASSUME NEW i \in 1 .. Len(g.blocks)
          PROVE  g.blocks[i].dofs <= R[e.currBlock + (i - 1)]
      <4>1. i \in Nat /\ i >= 1 /\ Len(e.blocks) \in Nat
        BY <1>1, EncoderFacts
      <4>2. CASE i <= Len(e.blocks)
        <5>1. i \in 1 .. Len(e.blocks) /\ g.blocks[i].dofs = e.blocks[i].dofs
          BY <3>3, <4>1, <4>2
        <5> QED BY <1>3, <5>1 DEF SoundDofs
      <4>3. CASE ~(i <= Len(e.blocks))
        <5>1. g.blocks[i].dofs = 0
          BY <3>3, <4>3
        <5> DEFINE b == e.currBlock + (i - 1)
        <5>2. b \in Nat
          BY <3>2, <4>1
        <5> HIDE DEF b
        <5>3. R[b] \in Nat
          BY <5>2
        <5>4. 0 <= R[b]
          BY <5>3
        <5> QED BY <5>1, <5>4 DEF b
      <4> QED BY <4>2, <4>3
    <3> QED BY <1>3, <3>4 DEF SoundDofs
  <2> QED BY <2>1, <2>2
<1>5. CreditInv(g, R)
  BY <1>2, <1>4 DEF CreditInv
<1> QED BY <1>1, <1>5, OnWindowUpdateCredits

\* The counts of an ACK were received for the blocks from the one it names on.
TrueAck(ack, R) ==
  \A i \in 1 .. DOFS_LENGTH : ack.ack_dofs[i] <= R[ack.ack_currBlock + (i - 1)]

\* Freeing the first blocks changes no credit of the others.
LEMMA FreeAckedCredits ==
  ASSUME NEW e, EncoderInv(e), NEW R, SoundDofs(e, R), QuietCredited(e),
         NEW ack \in AckPacket, ack.ack_currBlock <= End(e)
  PROVE  SoundDofs(FreeAcked(e, ack), R) /\ QuietCredited(FreeAcked(e, ack))
<1> DEFINE f == FreeAcked(e, ack)
           a == f.currBlock - e.currBlock
           n == Len(e.blocks)
<1>1. /\ a \in 0 .. n /\ f.currBlock = e.currBlock + a
      /\ Len(f.blocks) = n - a
      /\ \A i \in 1 .. n - a : f.blocks[i] = e.blocks[a + i]
  BY FreeAckedBlocks
<1>2. f.isOutstandingData = e.isOutstandingData
  BY Zenon DEF FreeAcked, EncoderInv, EncoderState
<1>3. n \in Nat /\ e.currBlock \in Nat
  BY EncoderFacts
<1> HIDE DEF f, a
<1>4. ASSUME NEW i \in 1 .. n - a
      PROVE  /\ a + i \in 1 .. n
             /\ e.currBlock + ((a + i) - 1) = f.currBlock + (i - 1)
  BY <1>1, <1>3
<1> HIDE DEF n
<1>5. ASSUME NEW i \in 1 .. n - a PROVE f.blocks[i].dofs <= R[f.currBlock + (i - 1)]
  <2> DEFINE j == a + i
  <2>1. e.blocks[j].dofs <= R[e.currBlock + (j - 1)]
    BY <1>4 DEF SoundDofs, n
  <2> QED BY <1>1, <1>4, <2>1
<1>6. ASSUME ~e.isOutstandingData, NEW i \in 1 .. n - a
      PROVE  nPackets(f.blocks[i]) <= f.blocks[i].dofs
  <2>1. nPackets(e.blocks[a + i]) <= e.blocks[a + i].dofs
    BY <1>4, <1>6 DEF QuietCredited, n
  <2> QED BY <1>1, <2>1
<1>7. SoundDofs(f, R) /\ QuietCredited(f)
  BY <1>1, <1>2, <1>5, <1>6 DEF SoundDofs, QuietCredited
<1> QED BY <1>7 DEF f

\* The counts of an ACK for the encoder's first block are credited where they belong.
LEMMA RaiseDofsCredits ==
  ASSUME NEW e, EncoderInv(e), NEW R, SoundDofs(e, R), QuietCredited(e),
         NEW ack \in AckPacket, ack.ack_currBlock = e.currBlock, TrueAck(ack, R)
  PROVE  SoundDofs(RaiseDofs(e, ack), R) /\ QuietCredited(RaiseDofs(e, ack))
<1> DEFINE f == RaiseDofs(e, ack)
           bs == Credited(e.blocks, ack.ack_dofs)
           n == Len(e.blocks)
<1>1. /\ e \in EncoderState /\ DOMAIN e.blocks = 1 .. n /\ n \in Nat
      /\ \A i \in 1 .. n : e.blocks[i] \in Block /\ e.blocks[i].dofs \in Nat
  BY EncoderFacts
<1>2. /\ f.blocks = bs /\ f.currBlock = e.currBlock
  BY <1>1 DEF RaiseDofs, EncoderState
<1>3. f.isOutstandingData = e.isOutstandingData
  BY Zenon DEF RaiseDofs, EncoderInv, EncoderState
<1>4. /\ DOMAIN bs = 1 .. n
      /\ \A i \in 1 .. n : bs[i].data = e.blocks[i].data
      /\ \A i \in 1 .. n : bs[i].dofs = IF i <= DOFS_LENGTH
                                        THEN max(e.blocks[i].dofs, ack.ack_dofs[i])
                                        ELSE e.blocks[i].dofs
  BY <1>1 DEF Credited, Block
<1>5. Len(bs) = n
  <2>1. Follows(e, f)
    BY RaiseDofsType
  <2>2. f.currBlock = e.currBlock /\ Len(f.blocks) \in Nat /\ e.currBlock \in Nat
    BY <1>2, <2>1, EncoderFacts DEF Follows
  <2>3. e.currBlock + Len(f.blocks) = e.currBlock + Len(e.blocks)
    BY <2>1, <2>2 DEF Follows, End, numBlock
  <2>4. Len(f.blocks) = n
    BY <1>1, <2>2, <2>3
  <2> QED BY <1>2, <2>4
<1>6. ASSUME NEW i \in 1 .. DOFS_LENGTH PROVE ack.ack_dofs[i] \in Nat
  BY DEF AckPacket
<1> HIDE DEF f, bs, n
<1>7. ASSUME NEW i \in 1 .. n
      PROVE  /\ bs[i].dofs <= R[e.currBlock + (i - 1)]
             /\ e.blocks[i].dofs <= bs[i].dofs
  <2> DEFINE x == e.blocks[i].dofs
             y == ack.ack_dofs[i]
             r == R[e.currBlock + (i - 1)]
             z == bs[i].dofs
  <2>1. x <= r /\ x \in Nat
    BY <1>1 DEF SoundDofs, n
  <2>2. z = IF i <= DOFS_LENGTH THEN max(x, y) ELSE x
    BY <1>4
  <2>3. i <= DOFS_LENGTH => y <= r /\ y \in Nat
    <3> SUFFICES ASSUME i <= DOFS_LENGTH PROVE y <= r /\ y \in Nat
      OBVIOUS
    <3>1. i \in 1 .. DOFS_LENGTH
      BY <1>1, PacketAssumption
    <3> QED BY <1>6, <3>1 DEF TrueAck
  <2> HIDE DEF x, y, r, z
  <2>4. z <= r /\ x <= z
    BY <2>1, <2>2, <2>3 DEF max
  <2> QED BY <2>4 DEF x, r, z
<1>8. SoundDofs(f, R)
  BY <1>2, <1>5, <1>7 DEF SoundDofs
<1>9. QuietCredited(f)
  <2> SUFFICES ASSUME ~e.isOutstandingData, NEW i \in 1 .. n
               PROVE  nPackets(bs[i]) <= bs[i].dofs
    BY <1>2, <1>3, <1>5 DEF QuietCredited
  <2>1. nPackets(bs[i]) = nPackets(e.blocks[i])
    BY <1>4 DEF nPackets
  <2>2. nPackets(e.blocks[i]) <= e.blocks[i].dofs
    BY DEF QuietCredited, n
  <2> DEFINE k == nPackets(e.blocks[i])
             x == e.blocks[i].dofs
             z == bs[i].dofs
  <2>3. k \in Nat /\ x \in Nat
    BY <1>1, BlockFacts DEF Dofs
  <2>4. z \in Nat
    <3>1. \A j \in 1 .. DOFS_LENGTH : ack.ack_dofs[j] \in Nat
      BY <1>6
    <3>2. i <= DOFS_LENGTH => i \in 1 .. DOFS_LENGTH
      BY <1>1, PacketAssumption
    <3> QED BY <1>4, <2>3, <3>1, <3>2 DEF max
  <2>5. k <= x /\ x <= z
    BY <1>7, <2>2
  <2> HIDE DEF k, x, z
  <2>6. k <= z
    BY <2>3, <2>4, <2>5
  <2> QED BY <2>1, <2>6 DEF k, z
<1> QED BY <1>8, <1>9 DEF f

\* An ACK that is not for a block freed already credits what it says.
LEMMA AcknowledgedCredits ==
  ASSUME NEW e, EncoderInv(e), NEW R, CreditInv(e, R),
         NEW ack \in AckPacket, TrueAck(ack, R),
         e.currBlock <= ack.ack_currBlock, ack.ack_currBlock <= End(e),
         NEW w \in Windows(e)
  PROVE  /\ CreditInv(Acknowledged(e, ack, w), R)
<1> DEFINE a == [e EXCEPT !.p = ack.ack_loss]
           b == FreeAcked(a, ack)
           c == RaiseDofs(b, ack)
           d == AdjustWindow(c, w)
           f == [d EXCEPT !.seqNo_Una = ack.ack_seqNo + 1]
<1>1. e \in EncoderState /\ ack.ack_loss \in LossRatio
  BY DEF EncoderInv, AckPacket
<1>2. /\ EncoderInv(a) /\ End(a) = End(e) /\ a.blocks = e.blocks /\ a.currBlock = e.currBlock
  BY <1>1 DEF EncoderInv, EncoderState, End, numBlock
<1>3. a.isOutstandingData = e.isOutstandingData
  BY <1>1, Zenon DEF EncoderState
<1> HIDE DEF a
<1>4. SoundDofs(a, R) /\ QuietCredited(a)
  BY <1>2, <1>3 DEF CreditInv, SoundDofs, QuietCredited
<1>5. SoundDofs(b, R) /\ QuietCredited(b) /\ EncoderInv(b)
  BY <1>2, <1>4, FreeAckedCredits, FreeAckedType DEF Follows
<1>6. b.currBlock = ack.ack_currBlock
  <2>1. b.currBlock = max(a.currBlock, ack.ack_currBlock)
    BY <1>2, FreeAckedType
  <2>2. ack.ack_currBlock \in Nat /\ e.currBlock \in Nat
    BY EncoderFacts, PacketAssumption DEF AckPacket, BlockNo
  <2> HIDE DEF b
  <2> QED BY <1>2, <2>1, <2>2 DEF max
<1> HIDE DEF b
<1>7. SoundDofs(c, R) /\ QuietCredited(c) /\ c \in EncoderState
  BY <1>5, <1>6, RaiseDofsCredits, RaiseDofsType DEF Follows, EncoderInv
<1> HIDE DEF c
<1>8. /\ f.blocks = c.blocks /\ f.currBlock = c.currBlock
      /\ f.congestionWindow = w
  BY <1>7 DEF AdjustWindow, EncoderState
<1>9. f.isOutstandingData = c.isOutstandingData
  BY <1>7, Zenon DEF AdjustWindow, EncoderState
<1>10. w >= 1
  <2>1. e.congestionWindow \in Nat /\ BASE_WINDOW \in Nat /\ BASE_WINDOW >= 1
    BY <1>1, EncoderAssumption DEF EncoderState
  <2> QED BY <2>1 DEF Windows, CreditInv
<1> HIDE DEF d, f
<1>11. SoundDofs(f, R) /\ QuietCredited(f) /\ f.congestionWindow >= 1
  BY <1>7, <1>8, <1>9, <1>10 DEF SoundDofs, QuietCredited
<1>12. CreditInv(f, R)
  BY <1>11 DEF CreditInv
<1> QED BY <1>12 DEF Acknowledged, a, b, c, d, f

LEMMA OnAckCredits ==
  ASSUME NEW e, EncoderInv(e), NEW R, CreditInv(e, R),
         NEW ack \in AckPacket, TrueAck(ack, R),
         e.currBlock <= ack.ack_currBlock, ack.ack_currBlock <= End(e),
         NEW cuts, NEW f \in onAck(e, ack, cuts)
  PROVE  CreditInv(f, R)
<1> DEFINE una == [e EXCEPT !.seqNo_Una = ack.ack_seqNo + 1]
           acked(w, exits) == [Acknowledged(e, ack, w) EXCEPT !.exited = exits]
           after(exits) == { acked(w, exits) : w \in { v \in Windows(e) : MayEnd(v, exits) } }
<1>1. e \in EncoderState
  BY DEF EncoderInv
<1>2. \/ f = e
      \/ f = una
      \/ f \in after(TRUE)
      \/ \E g \in ThenSend(after(FALSE), cuts) : f = RearmTimer(g)
  BY DEF onAck
<1>3. CASE f = una
  <2>1. f.blocks = e.blocks /\ f.currBlock = e.currBlock
        /\ f.congestionWindow = e.congestionWindow
    BY <1>1, <1>3 DEF EncoderState
  <2>2. f.isOutstandingData = e.isOutstandingData
    BY <1>1, <1>3, Zenon DEF EncoderState
  <2>3. SameCredits(e, f) /\ f.congestionWindow >= 1
    BY <2>1 DEF SameCredits, CreditInv
  <2> QED BY <2>2, <2>3, SameCreditsInv
<1>4. ASSUME NEW exits \in BOOLEAN, NEW g \in after(exits)
      PROVE  CreditInv(g, R) /\ EncoderInv(g)
  <2>1. PICK w \in Windows(e) : g = acked(w, exits)
    OBVIOUS
  <2> DEFINE h == Acknowledged(e, ack, w)
  <2>2. CreditInv(h, R) /\ EncoderInv(h)
    BY AcknowledgedCredits, AcknowledgedType DEF Follows
  <2>3. g = [h EXCEPT !.exited = exits]
    BY <2>1
  <2> HIDE DEF h
  <2>4. EncoderInv(g)
    BY <2>2, <2>3 DEF EncoderInv, EncoderState, End, numBlock
  <2>5. /\ g.blocks = h.blocks /\ g.currBlock = h.currBlock
        /\ g.congestionWindow = h.congestionWindow
    BY <2>2, <2>3 DEF EncoderInv, EncoderState
  <2>6. g.isOutstandingData = h.isOutstandingData
    BY <2>2, <2>3, Zenon DEF EncoderInv, EncoderState
  <2>7. SameCredits(h, g) /\ g.congestionWindow >= 1
    BY <2>2, <2>5 DEF SameCredits, CreditInv
  <2> QED BY <2>2, <2>4, <2>6, <2>7, SameCreditsInv
<1>5. CASE f \in after(TRUE)
  BY <1>4, <1>5
<1>6. CASE \E g \in ThenSend(after(FALSE), cuts) : f = RearmTimer(g)
  <2> HIDE DEF after
  <2>1. PICK g \in ThenSend(after(FALSE), cuts) : f = RearmTimer(g)
    BY <1>6
  <2>2. PICK h \in after(FALSE) : g \in onWindowUpdate(h, cuts)
    BY <2>1 DEF ThenSend
  <2>3. CreditInv(h, R) /\ EncoderInv(h)
    BY <1>4, <2>2
  <2>4. CreditInv(g, R) /\ g \in EncoderState
    BY <2>2, <2>3, OnWindowUpdateCredits, OnWindowUpdateType DEF Follows, EncoderInv
  <2>5. /\ f.blocks = g.blocks /\ f.currBlock = g.currBlock
        /\ f.congestionWindow = g.congestionWindow
    BY <2>1, <2>4 DEF RearmTimer, EncoderState
  <2>6. f.isOutstandingData = g.isOutstandingData
    BY <2>1, <2>4, Zenon DEF RearmTimer, EncoderState
  <2>7. SameCredits(g, f) /\ f.congestionWindow >= 1
    BY <2>4, <2>5 DEF SameCredits, CreditInv
  <2> QED BY <2>4, <2>6, <2>7, SameCreditsInv
<1> QED BY <1>2, <1>3, <1>5, <1>6

-----------------------------------------------------------------------------
(* The ACKs under way *)

\* ACKs for no block before c, in order, that say what was received.
AcksOrdered(chan, c, R) ==
  /\ \A i \in 1 .. Len(chan) : c <= chan[i].ack_currBlock /\ TrueAck(chan[i], R)
  /\ \A i, j \in 1 .. Len(chan) :
       i <= j => chan[i].ack_currBlock <= chan[j].ack_currBlock

LEMMA AckFacts ==
  ASSUME NEW ack \in AckPacket
  PROVE  /\ ack.ack_currBlock \in Nat
         /\ \A i \in 1 .. DOFS_LENGTH : ack.ack_dofs[i] \in Nat
BY PacketAssumption DEF AckPacket, BlockNo

\* What is received later does not make an ACK less true.
LEMMA TrueAckGrows ==
  ASSUME NEW ack \in AckPacket, NEW R, NEW S, TrueAck(ack, R), Grows(R, S),
         \A b \in Nat : R[b] \in Nat /\ S[b] \in Nat
  PROVE  TrueAck(ack, S)
<1> SUFFICES ASSUME NEW i \in 1 .. DOFS_LENGTH
             PROVE  ack.ack_dofs[i] <= S[ack.ack_currBlock + (i - 1)]
  BY DEF TrueAck
<1> DEFINE x == ack.ack_dofs[i]
           b == ack.ack_currBlock + (i - 1)
<1>1. x \in Nat /\ ack.ack_currBlock \in Nat /\ i \in Nat /\ i >= 1
  BY AckFacts
<1>2. b \in Nat
  BY <1>1
<1>3. x <= R[b] /\ R[b] <= S[b]
  BY <1>2 DEF TrueAck, Grows
<1> HIDE DEF x, b
<1>4. R[b] \in Nat /\ S[b] \in Nat
  BY <1>2
<1>5. x <= S[b]
  BY <1>1, <1>3, <1>4
<1> QED BY <1>5 DEF x, b

\* An ACK says what the decoder that sends it has received.
LEMMA AckForIsTrue ==
  ASSUME NEW d, DecoderInv(d), NEW pkt, NEW loss
  PROVE  TrueAck(ackFor(d, pkt, loss), Received(d))
<1> DEFINE ack == ackFor(d, pkt, loss)
<1>1. /\ ack.ack_currBlock = d.currBlock
      /\ \A i \in 1 .. DOFS_LENGTH :
           ack.ack_dofs[i] = IF i <= nAllocated(d) THEN d.nPacketsInBlock[i] ELSE 0
  BY DEF ackFor
<1> HIDE DEF ack
<1> SUFFICES ASSUME NEW i \in 1 .. DOFS_LENGTH
             PROVE  ack.ack_dofs[i] <= Received(d)[ack.ack_currBlock + (i - 1)]
  BY DEF TrueAck, ack
<1> DEFINE k == d.currBlock
           b == k + (i - 1)
<1>2. /\ k \in Nat /\ nAllocated(d) \in Nat /\ i \in Nat /\ i >= 1
      /\ \A j \in 1 .. nAllocated(d) : d.nPacketsInBlock[j] \in Nat
  BY DecoderFacts
<1>3. b \in Nat /\ ~(b < k) /\ b - k + 1 = i /\ (b - k < nAllocated(d) <=> i <= nAllocated(d))
  BY <1>2
<1>4. Received(d)[b] = IF b < k THEN BLKSIZE
                       ELSE IF b - k < nAllocated(d) THEN d.nPacketsInBlock[b - k + 1] ELSE 0
  BY <1>3 DEF Received
<1>5. Received(d)[b] = ack.ack_dofs[i]
  BY <1>1, <1>3, <1>4
<1>6. ack.ack_dofs[i] \in Nat
  BY <1>1, <1>2
<1> DEFINE x == ack.ack_dofs[i]
<1>7. x <= x
  BY <1>6
<1> QED BY <1>1, <1>5, <1>7

LEMMA AcksOrderedGrow ==
  ASSUME NEW chan \in Seq(AckPacket), NEW c, NEW R, NEW S, AcksOrdered(chan, c, R),
         Grows(R, S), \A b \in Nat : R[b] \in Nat /\ S[b] \in Nat
  PROVE  AcksOrdered(chan, c, S)
<1>1. \A i \in 1 .. Len(chan) : chan[i] \in AckPacket
  OBVIOUS
<1>2. \A i \in 1 .. Len(chan) : TrueAck(chan[i], S)
  BY <1>1, TrueAckGrows DEF AcksOrdered
<1> QED BY <1>2 DEF AcksOrdered

\* The first ACK arrives, for good or to arrive again.
LEMMA FirstArrives ==
  ASSUME NEW chan \in Seq(AckPacket), Len(chan) > 0, NEW c \in Nat, NEW k \in Nat, NEW R,
         AcksOrdered(chan, c, R), k <= chan[1].ack_currBlock, NEW new \in Afters(chan, 1)
  PROVE  AcksOrdered(new, k, R)
<1> DEFINE l == Len(chan)
<1>1. l \in Nat /\ l > 0 /\ \A i \in 1 .. l : chan[i] \in AckPacket
  OBVIOUS
<1>2. ASSUME NEW i \in 1 .. l
      PROVE  k <= chan[i].ack_currBlock /\ TrueAck(chan[i], R)
  <2>1. 1 \in 1 .. l /\ 1 <= i
    BY <1>1
  <2>2. chan[1].ack_currBlock <= chan[i].ack_currBlock /\ TrueAck(chan[i], R)
    BY <2>1 DEF AcksOrdered
  <2>3. chan[1].ack_currBlock \in Nat /\ chan[i].ack_currBlock \in Nat
    BY <1>1, <2>1, AckFacts
  <2> QED BY <2>2, <2>3
<1>3. CASE new = chan
  BY <1>2, <1>3 DEF AcksOrdered
<1>4. CASE new = RemoveAt(chan, 1)
  <2> DEFINE s == SubSeq(chan, 2, l)
  <2>1. /\ s \in Seq(AckPacket) /\ Len(s) = l - 1
        /\ \A i \in 1 .. l - 1 : s[i] = chan[i + 1]
    <3>1. \A i \in 2 .. l : chan[i] \in AckPacket
      BY <1>1
    <3>2. /\ s \in Seq(AckPacket) /\ Len(s) = IF 2 <= l THEN l - 2 + 1 ELSE 0
          /\ \A i \in 1 .. l - 2 + 1 : s[i] = chan[2 + i - 1]
      BY <1>1, <3>1, SubSeqProperties
    <3> HIDE DEF s, l
    <3>3. Len(s) = l - 1
      BY <1>1, <3>2
    <3>4. ASSUME NEW i \in 1 .. l - 1 PROVE s[i] = chan[i + 1]
      <4>1. i \in 1 .. l - 2 + 1 /\ 2 + i - 1 = i + 1
        BY <1>1
      <4> QED BY <3>2, <4>1
    <3> QED BY <3>2, <3>3, <3>4
  <2>2. new = s
    <3>1. SubSeq(chan, 1, 0) = <<>>
      BY SubSeqEmpty
    <3>2. new = <<>> \o s
      BY <1>4, <3>1 DEF RemoveAt
    <3> HIDE DEF s
    <3> QED BY <2>1, <3>2, ConcatEmptySeq
  <2> HIDE DEF s, l
  <2>3. ASSUME NEW i \in 1 .. l - 1 PROVE i + 1 \in 1 .. l
    BY <1>1
  <2>4. \A i \in 1 .. l - 1 : k <= s[i].ack_currBlock /\ TrueAck(s[i], R)
    BY <1>2, <2>1, <2>3
  <2>5. ASSUME NEW i \in 1 .. l - 1, NEW j \in 1 .. l - 1, i <= j
        PROVE  s[i].ack_currBlock <= s[j].ack_currBlock
    <3>1. i + 1 <= j + 1
      BY <2>5
    <3>2. chan[i + 1].ack_currBlock <= chan[j + 1].ack_currBlock
      BY <2>3, <3>1 DEF AcksOrdered, l
    <3> QED BY <2>1, <3>2
  <2> QED BY <2>1, <2>2, <2>4, <2>5 DEF AcksOrdered
<1> QED BY <1>3, <1>4 DEF Afters

\* An ACK is sent after the others.
LEMMA LastIsSent ==
  ASSUME NEW chan \in Seq(AckPacket), NEW c \in Nat, NEW R, AcksOrdered(chan, c, R),
         NEW ack \in AckPacket, TrueAck(ack, R), c <= ack.ack_currBlock,
         \A i \in 1 .. Len(chan) : chan[i].ack_currBlock <= ack.ack_currBlock
  PROVE  AcksOrdered(Carry(chan, <<ack>>), c, R)
<1> DEFINE s == chan \o <<ack>>
           l == Len(chan)
           n == min(Len(s), Capacity)
           t == SubSeq(s, 1, n)
<1>1. l \in Nat /\ \A i \in 1 .. l : chan[i] \in AckPacket
  OBVIOUS
<1>2. /\ s \in Seq(AckPacket) /\ Len(s) = l + 1
      /\ \A i \in 1 .. l + 1 : s[i] = IF i <= l THEN chan[i] ELSE ack
  <2>1. /\ <<ack>> \in Seq(AckPacket) /\ Len(<<ack>>) = 1 /\ <<ack>>[1] = ack
    OBVIOUS
  <2> DEFINE a == <<ack>>
  <2> HIDE DEF a
  <2>2. /\ chan \o a \in Seq(AckPacket) /\ Len(chan \o a) = l + Len(a)
        /\ \A i \in 1 .. l + Len(a) : (chan \o a)[i] = IF i <= l THEN chan[i] ELSE a[i - l]
    BY <2>1, ConcatProperties DEF a
  <2>3. Len(a) = 1 /\ a[1] = ack
    BY <2>1 DEF a
  <2>4. ASSUME NEW i \in 1 .. l + 1 PROVE (chan \o a)[i] = IF i <= l THEN chan[i] ELSE ack
    <3>1. ~(i <= l) => i - l = 1
      BY <1>1
    <3> QED BY <2>2, <2>3, <3>1
  <2>5. /\ chan \o a \in Seq(AckPacket) /\ Len(chan \o a) = l + 1
        /\ \A i \in 1 .. l + 1 : (chan \o a)[i] = IF i <= l THEN chan[i] ELSE ack
    BY <2>2, <2>3, <2>4
  <2> QED BY <2>5 DEF a
<1> HIDE DEF s, l
<1>3. n \in 0 .. l + 1 /\ n \in Nat
  <2>1. Capacity \in Nat /\ n = min(l + 1, Capacity)
    BY <1>2, LinkAssumption
  <2> HIDE DEF n
  <2> QED BY <1>1, <2>1 DEF min
<1> HIDE DEF n
<1>4. t \in Seq(AckPacket) /\ Len(t) = n /\ \A i \in 1 .. n : t[i] = s[i]
  <2>1. \A i \in 1 .. n : s[i] \in AckPacket
    BY <1>1, <1>2, <1>3
  <2>2. /\ t \in Seq(AckPacket) /\ Len(t) = IF 1 <= n THEN n - 1 + 1 ELSE 0
        /\ \A i \in 1 .. n - 1 + 1 : t[i] = s[1 + i - 1]
    BY <1>3, <2>1, SubSeqProperties
  <2> HIDE DEF t
  <2>3. Len(t) = n
    BY <1>3, <2>2
  <2>4. ASSUME NEW i \in 1 .. n PROVE t[i] = s[i]
    <3>1. i \in 1 .. n - 1 + 1 /\ 1 + i - 1 = i
      BY <1>3
    <3> QED BY <2>2, <3>1
  <2> QED BY <2>2, <2>3, <2>4
<1>5. Carry(chan, <<ack>>) = t
  BY DEF Carry, t, n, s
<1> HIDE DEF t
<1>6. \A i \in 1 .. n : t[i] = IF i <= l THEN chan[i] ELSE ack
  BY <1>2, <1>3, <1>4
<1>7. ASSUME NEW i \in 1 .. n
      PROVE  c <= t[i].ack_currBlock /\ TrueAck(t[i], R)
  <2>1. CASE i <= l
    <3>1. i \in 1 .. Len(chan)
      BY <1>1, <2>1 DEF l
    <3> QED BY <1>6, <2>1, <3>1 DEF AcksOrdered
  <2>2. CASE ~(i <= l)
    BY <1>6, <2>2
  <2> QED BY <2>1, <2>2
<1>8. ASSUME NEW i \in 1 .. n, NEW j \in 1 .. n, i <= j
      PROVE  t[i].ack_currBlock <= t[j].ack_currBlock
  <2>1. CASE j <= l
    <3>1. i \in 1 .. Len(chan) /\ j \in 1 .. Len(chan) /\ i <= l
      BY <1>1, <1>8, <2>1 DEF l
    <3> QED BY <1>6, <1>8, <2>1, <3>1 DEF AcksOrdered
  <2>2. CASE ~(j <= l) /\ i <= l
    <3>1. i \in 1 .. Len(chan)
      BY <1>1, <2>2 DEF l
    <3> QED BY <1>6, <2>2, <3>1
  <2>3. CASE ~(j <= l) /\ ~(i <= l)
    <3>1. ack.ack_currBlock <= ack.ack_currBlock
      BY AckFacts
    <3> QED BY <1>6, <2>3, <3>1
  <2> QED BY <2>1, <2>2, <2>3
<1> QED BY <1>4, <1>5, <1>7, <1>8 DEF AcksOrdered

-----------------------------------------------------------------------------
(* The invariant *)

OrderInv ==
  /\ AckReorder = 0
  /\ LinkShape
  /\ CreditInv(enc, Received(dec))
  /\ AcksOrdered(ackChan, enc.currBlock, Received(dec))

LEMMA OrderFacts ==
  ASSUME OrderInv
  PROVE  /\ EncoderInv(enc) /\ DecoderInv(dec)
         /\ \A b \in Nat : Received(dec)[b] \in Nat
         /\ ackChan \in Seq(AckPacket)
         /\ enc.currBlock \in Nat /\ dec.currBlock \in Nat /\ nread \in Nat
         /\ Len(Source) < BLOCKNO_MOD /\ Len(Source) \in Nat /\ nread <= Len(Source)
<1>1. EncoderInv(enc) /\ DecoderInv(dec)
  BY DEF OrderInv, LinkShape
<1>2. ackChan \in Seq(AckPacket)
  BY SeqMonotonic DEF OrderInv, LinkShape, AcksUpTo
<1> QED BY <1>1, <1>2, ReceivedType, EncoderFacts, DecoderFacts, LinkAssumption
        DEF OrderInv, LinkShape

LEMMA InitOrder == Init /\ AckReorder = 0 => OrderInv
<1> SUFFICES ASSUME Init, AckReorder = 0 PROVE OrderInv
  OBVIOUS
<1>1. LinkShape
  BY InitShape
<1>2. /\ enc.blocks = <<>> /\ enc.congestionWindow = BASE_WINDOW /\ ackChan = <<>>
  BY DEF Init, encoderStateInit
<1>3. Len(enc.blocks) = 0 /\ Len(ackChan) = 0 /\ enc.congestionWindow >= 1
  BY <1>2, EncoderAssumption
<1>4. CreditInv(enc, Received(dec))
  BY <1>3 DEF CreditInv, SoundDofs, QuietCredited
<1>5. AcksOrdered(ackChan, enc.currBlock, Received(dec))
  BY <1>3 DEF AcksOrdered
<1> QED BY <1>1, <1>4, <1>5 DEF OrderInv

\* A step of the sender that leaves the receiver, the ACKs and its first block.
LEMMA SenderStepOrder ==
  ASSUME OrderInv, LinkShape', UNCHANGED <<dec, ackChan>>,
         CreditInv(enc', Received(dec)), enc'.currBlock = enc.currBlock
  PROVE  OrderInv'
BY DEF OrderInv, CreditInv, SoundDofs, QuietCredited, AcksOrdered, TrueAck, Received, nAllocated

LEMMA TimeOutOrder == OrderInv /\ TimeOut => OrderInv'
<1> SUFFICES ASSUME OrderInv, TimeOut PROVE OrderInv'
  OBVIOUS
<1>1. enc' \in onTimeOut(enc, Cuts) /\ UNCHANGED <<dec, ackChan>>
  BY DEF TimeOut
<1>2. CreditInv(enc', Received(dec))
  BY <1>1, OrderFacts, OnTimeOutCredits DEF OrderInv
<1>3. enc'.currBlock = enc.currBlock
  BY <1>1, OrderFacts, OnTimeOutType
<1>4. LinkShape'
  BY TimeOutShape DEF OrderInv
<1> QED BY <1>1, <1>2, <1>3, <1>4, SenderStepOrder

LEMMA ReadTcpOrder == OrderInv /\ ReadTcp => OrderInv'
<1> SUFFICES ASSUME OrderInv, ReadTcp PROVE OrderInv'
  OBVIOUS
<1>1. PICK n \in 1 .. min(MaxRead, Len(Source) - nread) :
        enc' \in handleInClear(enc, SubSeq(Source, nread + 1, nread + n), Cuts)
  BY DEF ReadTcp
<1> DEFINE packets == SubSeq(Source, nread + 1, nread + n)
<1>2. /\ n \in 1 .. Len(Source) - nread /\ n <= BLKSIZE /\ n \in Nat /\ BLKSIZE \in Nat
  BY OrderFacts, BlksizeAssumption, EncoderAssumption DEF min
<1>3. packets \in Seq(Symbol) /\ Len(packets) = n
  <2>1. \A i \in nread + 1 .. nread + n : Source[i] \in Symbol
    BY <1>2, OrderFacts, LinkAssumption
  <2>2. Len(packets) = IF nread + 1 <= nread + n THEN (nread + n) - (nread + 1) + 1 ELSE 0
    BY <1>2, <2>1, OrderFacts, SubSeqProperties
  <2>3. packets \in Seq(Symbol)
    BY <1>2, <2>1, OrderFacts, SubSeqProperties
  <2> HIDE DEF packets
  <2>4. Len(packets) = n
    BY <1>2, <2>2, OrderFacts
  <2> QED BY <2>3, <2>4
<1>4. enc' \in handleInClear(enc, packets, Cuts)
  BY <1>1
<1> HIDE DEF packets
<1>5. End(enc) + Len(packets) < BLOCKNO_MOD
  <2>1. End(enc) <= nread /\ End(enc) \in Nat
    BY OrderFacts, EndIsNumber DEF OrderInv, LinkShape
  <2> QED BY <1>2, <1>3, <2>1, OrderFacts, PacketAssumption
<1>6. Len(packets) \in 0 .. BLKSIZE
  BY <1>2, <1>3
<1>7. CreditInv(enc', Received(dec))
  BY <1>3, <1>4, <1>5, <1>6, OrderFacts, HandleInClearCredits DEF OrderInv
<1>8. enc'.currBlock = enc.currBlock
  BY <1>3, <1>4, <1>5, <1>6, OrderFacts, HandleInClearType
<1>9. LinkShape' /\ UNCHANGED <<dec, ackChan>>
  BY ReadTcpShape DEF OrderInv, ReadTcp
<1> QED BY <1>7, <1>8, <1>9, SenderStepOrder

LEMMA ReadTcpFailsOrder == OrderInv /\ ReadTcpFails => OrderInv'
<1> SUFFICES ASSUME OrderInv, ReadTcpFails PROVE OrderInv'
  OBVIOUS
<1>1. enc' \in handleInClear(enc, <<>>, Cuts) /\ UNCHANGED <<dec, ackChan>>
  BY DEF ReadTcpFails
<1> DEFINE packets == <<>>
<1>2. packets \in Seq(Symbol) /\ Len(packets) = 0 /\ Len(packets) \in 0 .. BLKSIZE
  BY BlksizeAssumption
<1>3. End(enc) + Len(packets) < BLOCKNO_MOD
  <2>1. End(enc) \in Nat /\ End(enc) < BLOCKNO_MOD
    BY OrderFacts, EndIsNumber DEF EncoderInv
  <2> QED BY <1>2, <2>1
<1>4. enc' \in handleInClear(enc, packets, Cuts)
  BY <1>1
<1> HIDE DEF packets
<1>5. CreditInv(enc', Received(dec))
  BY <1>2, <1>3, <1>4, OrderFacts, HandleInClearCredits DEF OrderInv
<1>6. enc'.currBlock = enc.currBlock
  BY <1>2, <1>3, <1>4, OrderFacts, HandleInClearType
<1>7. LinkShape'
  BY ReadTcpFailsShape DEF OrderInv
<1> QED BY <1>1, <1>5, <1>6, <1>7, SenderStepOrder

LEMMA FlushOrder == OrderInv /\ Flush => OrderInv'
<1> SUFFICES ASSUME OrderInv, Flush PROVE OrderInv'
  OBVIOUS
<1>1. enc' = flush(enc) /\ UNCHANGED <<dec, ackChan>>
  BY DEF Flush
<1>2. enc \in EncoderState
  BY OrderFacts, EncoderFacts
<1>3. /\ enc'.blocks = enc.blocks /\ enc'.currBlock = enc.currBlock
      /\ enc'.congestionWindow = enc.congestionWindow
  BY <1>1, <1>2 DEF flush, EncoderState
<1>4. enc'.isOutstandingData = enc.isOutstandingData
  BY <1>1, <1>2, Zenon DEF flush, EncoderState
<1>5. SameCredits(enc, enc') /\ enc'.congestionWindow >= 1
  BY <1>3 DEF SameCredits, CreditInv, OrderInv
<1>6. CreditInv(enc', Received(dec))
  BY <1>4, <1>5, SameCreditsInv DEF OrderInv
<1>7. LinkShape'
  BY FlushShape DEF OrderInv
<1> QED BY <1>1, <1>3, <1>6, <1>7, SenderStepOrder

\* The ACK served is the first under way.
LEMMA ReceiveAckOrder == OrderInv /\ ReceiveAck => OrderInv'
<1> SUFFICES ASSUME OrderInv, ReceiveAck PROVE OrderInv'
  OBVIOUS
<1>1. PICK i \in Arrivals(ackChan, AckReorder) :
        enc' \in onAck(enc, ackChan[i], Cuts) /\ ackChan' \in Afters(ackChan, i)
  BY DEF ReceiveAck
<1>2. i = 1 /\ Len(ackChan) > 0 /\ 1 \in 1 .. Len(ackChan)
  <2>1. i \in 1 .. Len(ackChan) /\ i <= 0 + 1 /\ Len(ackChan) \in Nat
    BY OrderFacts DEF Arrivals, OrderInv
  <2> QED BY <2>1
<1> DEFINE ack == ackChan[1]
<1>3. ack \in AckPacket /\ ack.ack_currBlock <= dec.currBlock
  <2>1. ackChan \in Seq(AcksUpTo(dec.currBlock))
    BY DEF OrderInv, LinkShape
  <2>2. ackChan[1] \in AcksUpTo(dec.currBlock)
    BY <1>2, <2>1
  <2> QED BY <2>2 DEF AcksUpTo
<1>4. enc' \in onAck(enc, ack, Cuts) /\ ackChan' \in Afters(ackChan, 1)
  BY <1>1, <1>2
<1>5. enc.currBlock <= ack.ack_currBlock /\ TrueAck(ack, Received(dec))
  BY <1>2 DEF OrderInv, AcksOrdered
<1> HIDE DEF ack
<1>6. ack.ack_currBlock <= End(enc) /\ ack.ack_currBlock \in Nat
  <2>1. /\ ack.ack_currBlock \in Nat /\ dec.currBlock \in Nat
        /\ EndOf(dec) \in Nat /\ dec.currBlock <= EndOf(dec) /\ End(enc) \in Nat
        /\ EndOf(dec) <= End(enc)
    BY <1>3, OrderFacts, EndIsNumber, EndOfIsNumber, AckFacts DEF OrderInv, LinkShape
  <2> QED BY <1>3, <2>1
<1>7. CreditInv(enc', Received(dec))
  BY <1>3, <1>4, <1>5, <1>6, OrderFacts, OnAckCredits DEF OrderInv
<1>8. enc'.currBlock \in Nat /\ enc'.currBlock <= ack.ack_currBlock
  <2>1. enc'.currBlock \in {enc.currBlock, max(enc.currBlock, ack.ack_currBlock)}
    BY <1>3, <1>4, <1>6, OrderFacts, OnAckType
  <2>2. enc.currBlock \in Nat
    BY OrderFacts
  <2> QED BY <1>5, <1>6, <2>1, <2>2 DEF max
<1>9. AcksOrdered(ackChan', enc'.currBlock, Received(dec))
  <2>1. AcksOrdered(ackChan, enc.currBlock, Received(dec))
    BY DEF OrderInv
  <2> QED BY <1>2, <1>4, <1>8, <2>1, OrderFacts, FirstArrives DEF ack
<1>10. LinkShape' /\ dec' = dec
  BY ReceiveAckShape DEF OrderInv, ReceiveAck
<1>11. Received(dec') = Received(dec)
  BY <1>10
<1> QED BY <1>7, <1>9, <1>10, <1>11 DEF OrderInv

\* The ACK sent is the last under way and says at least what the others do.
LEMMA ReceiveDataOrder == OrderInv /\ ReceiveData => OrderInv'
<1> SUFFICES ASSUME OrderInv, ReceiveData PROVE OrderInv'
  OBVIOUS
<1>1. PICK i \in Arrivals(dataChan, DataReorder), loss \in LossRatio :
        \E out \in handleInCoded(dec, rows, dataChan[i]) :
          /\ dec' = out.dec
          /\ ackChan' = Carry(ackChan, <<ackFor(out.dec, dataChan[i], loss)>>)
          /\ UNCHANGED enc
  BY DEF ReceiveData
<1> DEFINE pkt == dataChan[i]
           R == Received(dec)
           S == Received(dec')
<1>2. PICK out \in handleInCoded(dec, rows, pkt) :
          /\ dec' = out.dec
          /\ ackChan' = Carry(ackChan, <<ackFor(out.dec, pkt, loss)>>)
          /\ UNCHANGED enc
  BY <1>1
<1>3. pkt \in DataPacket /\ pkt.blockNo < End(enc) /\ pkt.blockNo \in Nat
  <2>1. i \in 1 .. Len(dataChan) /\ dataChan \in Seq(PacketsBelow(End(enc)))
    BY DEF Arrivals, OrderInv, LinkShape
  <2>2. dataChan[i] \in PacketsBelow(End(enc))
    BY <2>1
  <2> QED BY <2>2, PacketAssumption DEF PacketsBelow, DataPacket, BlockNo
<1> HIDE DEF pkt
<1>4. EndOf(dec) < BLOCKNO_MOD /\ pkt.blockNo + 1 < BLOCKNO_MOD
  <2>1. /\ End(enc) \in Nat /\ EndOf(dec) \in Nat /\ End(enc) < BLOCKNO_MOD
        /\ EndOf(dec) <= End(enc)
    BY OrderFacts, EndIsNumber, EndOfIsNumber DEF OrderInv, LinkShape, EncoderInv
  <2> QED BY <1>3, <2>1, PacketAssumption
<1>5. /\ DecoderInv(dec') /\ dec'.currBlock \in {dec.currBlock, dec.currBlock + 1}
  BY <1>2, <1>3, <1>4, OrderFacts, HandleInCodedType
<1>6. Grows(R, S)
  BY <1>2, <1>3, <1>4, OrderFacts, HandleInCodedCounts
<1>7. \A b \in Nat : R[b] \in Nat /\ S[b] \in Nat
  BY <1>5, OrderFacts, ReceivedType
<1> HIDE DEF R, S
<1>8. CreditInv(enc, S)
  <2>1. CreditInv(enc, R)
    BY DEF OrderInv, R
  <2>2. SoundDofs(enc, S)
    BY <1>6, <1>7, <2>1, OrderFacts, SoundDofsGrow DEF CreditInv
  <2> QED BY <2>1, <2>2 DEF CreditInv
<1> DEFINE ack == ackFor(dec', pkt, loss)
<1>9. ack \in AckPacket /\ ack.ack_currBlock = dec'.currBlock /\ TrueAck(ack, S)
  <2>1. ack \in AcksUpTo(dec'.currBlock)
    BY <1>3, <1>5, AckForType
  <2>2. TrueAck(ack, S)
    BY <1>5, AckForIsTrue DEF S
  <2>3. ack.ack_currBlock = dec'.currBlock
    BY DEF ackFor
  <2> QED BY <2>1, <2>2, <2>3 DEF AcksUpTo
<1>10. ackChan' = Carry(ackChan, <<ack>>)
  BY <1>2
<1> HIDE DEF ack
<1>11. dec.currBlock <= ack.ack_currBlock /\ enc.currBlock <= ack.ack_currBlock
  <2>1. dec.currBlock \in Nat /\ enc.currBlock \in Nat /\ enc.currBlock <= dec.currBlock
    BY OrderFacts DEF OrderInv, LinkShape
  <2> QED BY <1>5, <1>9, <2>1
<1>12. ASSUME NEW j \in 1 .. Len(ackChan)
       PROVE  ackChan[j].ack_currBlock <= ack.ack_currBlock
  <2>1. ackChan[j] \in AcksUpTo(dec.currBlock)
    BY DEF OrderInv, LinkShape
  <2>2. ackChan[j] \in AckPacket /\ ackChan[j].ack_currBlock <= dec.currBlock
    BY <2>1 DEF AcksUpTo
  <2>3. ackChan[j].ack_currBlock \in Nat /\ dec.currBlock \in Nat /\ ack.ack_currBlock \in Nat
    BY <1>9, <2>2, AckFacts, OrderFacts
  <2> QED BY <1>11, <2>2, <2>3
<1>13. AcksOrdered(ackChan, enc.currBlock, S)
  <2>1. AcksOrdered(ackChan, enc.currBlock, R)
    BY DEF OrderInv, R
  <2> QED BY <1>6, <1>7, <2>1, OrderFacts, AcksOrderedGrow
<1>14. AcksOrdered(ackChan', enc.currBlock, S)
  BY <1>9, <1>10, <1>11, <1>12, <1>13, OrderFacts, LastIsSent
<1>15. LinkShape' /\ enc' = enc
  BY <1>2, ReceiveDataShape DEF OrderInv
<1> QED BY <1>8, <1>14, <1>15 DEF OrderInv, S

LEMMA LoseDataOrder == OrderInv /\ LoseData => OrderInv'
<1> SUFFICES ASSUME OrderInv, LoseData PROVE OrderInv'
  OBVIOUS
<1>1. LinkShape' /\ enc' = enc /\ UNCHANGED <<dec, ackChan>>
  BY LoseDataShape DEF OrderInv, LoseData
<1>2. CreditInv(enc', Received(dec))
  BY <1>1 DEF OrderInv
<1> QED BY <1>1, <1>2, SenderStepOrder

LEMMA LoseAckOrder == OrderInv /\ LoseAck => OrderInv'
<1> SUFFICES ASSUME OrderInv, LoseAck PROVE OrderInv'
  OBVIOUS
<1>1. PICK i \in Arrivals(ackChan, AckReorder) : ackChan' = RemoveAt(ackChan, i)
  BY DEF LoseAck
<1>2. i = 1 /\ Len(ackChan) > 0 /\ 1 \in 1 .. Len(ackChan)
  <2>1. i \in 1 .. Len(ackChan) /\ i <= 0 + 1 /\ Len(ackChan) \in Nat
    BY OrderFacts DEF Arrivals, OrderInv
  <2> QED BY <2>1
<1>3. ackChan' \in Afters(ackChan, 1)
  BY <1>1, <1>2 DEF Afters
<1>4. AcksOrdered(ackChan', enc.currBlock, Received(dec))
  <2>1. enc.currBlock <= ackChan[1].ack_currBlock
    BY <1>2 DEF OrderInv, AcksOrdered
  <2>2. AcksOrdered(ackChan, enc.currBlock, Received(dec))
    BY DEF OrderInv
  <2> QED BY <1>2, <1>3, <2>1, <2>2, OrderFacts, FirstArrives
<1>5. LinkShape' /\ enc' = enc /\ dec' = dec
  BY LoseAckShape DEF OrderInv, LoseAck
<1>6. Received(dec') = Received(dec)
  BY <1>5
<1> QED BY <1>4, <1>5, <1>6 DEF OrderInv

LEMMA NextOrder == OrderInv /\ [Next]_vars => OrderInv'
<1> SUFFICES ASSUME OrderInv, [Next]_vars PROVE OrderInv'
  OBVIOUS
<1>1. CASE UNCHANGED vars
  <2>1. LinkShape' /\ enc' = enc /\ UNCHANGED <<dec, ackChan>>
    BY <1>1, NextShape DEF OrderInv, vars
  <2>2. CreditInv(enc', Received(dec))
    BY <2>1 DEF OrderInv
  <2> QED BY <2>1, <2>2, SenderStepOrder
<1>2. CASE Next
  BY <1>2, TimeOutOrder, ReceiveAckOrder, ReadTcpOrder, ReadTcpFailsOrder, FlushOrder,
     ReceiveDataOrder, LoseDataOrder, LoseAckOrder DEF Next
<1> QED BY <1>1, <1>2

LEMMA OrderInvHolds == Spec /\ AckReorder = 0 => []OrderInv
BY InitOrder, NextOrder, PTL DEF Spec

\* DegreesOfFreedom counts what the receiver has of a block.
LEMMA DegreesAreReceived ==
  \A b \in Nat : DegreesOfFreedom(b) = Received(dec)[b]
BY DEF DegreesOfFreedom, Received

\* When the network keeps the order of ACKs, what the sender credits to a block
\* was received for that block ("Already received degrees of freedom for the
\* block", encoding.h line 53), whatever is lost or repeated: an ACK's counts are
\* credited by position (onAck), and only the order makes the positions agree.
THEOREM DofsSoundHolds == Spec /\ AckReorder = 0 => []DofsSound
<1>1. ASSUME OrderInv PROVE DofsSound
  <2> SUFFICES ASSUME NEW i \in DOMAIN enc.blocks
               PROVE  enc.blocks[i].dofs <= DegreesOfFreedom(enc.currBlock + i - 1)
    BY DEF DofsSound
  <2> DEFINE b == enc.currBlock + (i - 1)
  <2>1. enc.currBlock \in Nat /\ i \in 1 .. Len(enc.blocks) /\ i \in Nat /\ i >= 1
    BY <1>1, OrderFacts, EncoderFacts
  <2>2. b \in Nat /\ enc.currBlock + i - 1 = b
    BY <2>1
  <2>3. enc.blocks[i].dofs <= Received(dec)[b]
    BY <1>1, <2>1 DEF OrderInv, CreditInv, SoundDofs
  <2> HIDE DEF b
  <2>4. DegreesOfFreedom(b) = Received(dec)[b]
    BY <2>2, DegreesAreReceived
  <2> QED BY <2>2, <2>3, <2>4
<1> QED BY <1>1, OrderInvHolds, PTL

\* When the network keeps the order of ACKs, a sender that holds all its data
\* transferred (onWindowUpdate found nothing in flight and nothing worth sending)
\* has a receiver that can decode all of it: it does not fall silent on data that
\* is lost.
THEOREM QuietMeansReceivedHolds == Spec /\ AckReorder = 0 => []QuietMeansReceived
<1>1. ASSUME OrderInv PROVE QuietMeansReceived
  <2> SUFFICES ASSUME ~enc.isOutstandingData, NEW i \in DOMAIN enc.blocks
               PROVE  nPackets(enc.blocks[i]) <= DegreesOfFreedom(enc.currBlock + i - 1)
    BY DEF QuietMeansReceived
  <2> DEFINE b == enc.currBlock + (i - 1)
             n == nPackets(enc.blocks[i])
             x == enc.blocks[i].dofs
             r == Received(dec)[b]
  <2>1. /\ enc.currBlock \in Nat /\ i \in 1 .. Len(enc.blocks) /\ i \in Nat /\ i >= 1
        /\ x \in Nat /\ enc.blocks[i] \in Block
    BY <1>1, OrderFacts, EncoderFacts
  <2>2. b \in Nat /\ enc.currBlock + i - 1 = b
    BY <2>1
  <2>3. x <= r /\ n <= x
    BY <1>1, <2>1 DEF OrderInv, CreditInv, SoundDofs, QuietCredited
  <2>4. n \in Nat
    <3> DEFINE k == enc.blocks[i]
    <3>1. k \in Block
      BY <2>1
    <3> HIDE DEF k
    <3>2. nPackets(k) \in Nat
      BY <3>1, BlockFacts DEF Dofs
    <3> QED BY <3>2 DEF k
  <2>5. r \in Nat
    BY <1>1, <2>2, OrderFacts
  <2>6. DegreesOfFreedom(b) = r
    BY <2>2, DegreesAreReceived
  <2> HIDE DEF b, n, x, r
  <2>7. n <= r
    BY <2>1, <2>3, <2>4, <2>5
  <2> QED BY <2>2, <2>6, <2>7 DEF n
<1> QED BY <1>1, OrderInvHolds, PTL

=============================================================================

------------------------ MODULE CodedLinkStreamProofs ------------------------
(***************************************************************************)
(* The link is a reliable stream, for every field, block size, window and  *)
(* network.                                                                *)
(*                                                                         *)
(* StreamInv is the inductive invariant: LinkInv, which says that the two  *)
(* ends are in step, and that whatever either end or the network holds is  *)
(* true of the source: the sender's blocks hold what it read (HoldsRead),  *)
(* the row of every packet, queued or under way, and every row of the      *)
(* receiver is a true equation of its block (Equations), and what was      *)
(* delivered is a prefix of the source.                                    *)
(***************************************************************************)
EXTENDS CodedLinkProofs

-----------------------------------------------------------------------------
(* The source, in blocks *)

\* The packets of the source before block k.
Start(k) == k * BLKSIZE

\* The packets of block k, nothing beyond the end of the source.
Packets(k) ==
  [x \in Column |-> IF Start(k) + x + 1 <= Len(Source) THEN Source[Start(k) + x + 1] ELSE 0]

\* The true rows of block k when m packets of the source were read.
Equations(k, m) == TrueRows(Packets(k), m - Start(k))

LEMMA StartFacts ==
  ASSUME NEW k \in Nat
  PROVE  /\ Start(k) \in Nat /\ Start(0) = 0
         /\ Start(k + 1) = Start(k) + BLKSIZE
         /\ k > 0 => Start(k) = Start(k - 1) + BLKSIZE
BY BlksizeAssumption DEF Start

LEMMA StartGrows ==
  ASSUME NEW j \in Nat, NEW k \in Nat, j <= k
  PROVE  Start(j) <= Start(k)
BY BlksizeAssumption DEF Start

LEMMA PacketsType ==
  ASSUME NEW k \in Nat
  PROVE  Packets(k) \in Data
<1>1. ASSUME NEW x \in Column, Start(k) + x + 1 <= Len(Source)
      PROVE  Source[Start(k) + x + 1] \in Field
  <2>1. Start(k) \in Nat /\ x \in Nat
    BY StartFacts, ColumnIsNat
  <2>2. Start(k) + x + 1 \in 1 .. Len(Source)
    BY <1>1, <2>1, LinkAssumption
  <2> HIDE DEF Start
  <2>3. Source[Start(k) + x + 1] \in Symbol
    BY <2>2, LinkAssumption
  <2> QED BY <2>3, PacketAssumption
<1> QED BY <1>1, Halves DEF Packets, Data

LEMMA EquationsAreSpace ==
  ASSUME NEW k \in Nat, NEW m \in Nat
  PROVE  IsSpace(Equations(k, m))
BY PacketsType, StartFacts, TrueRowsAreSpace DEF Equations

\* What is true stays true when more is read.
LEMMA EquationsGrow ==
  ASSUME NEW k \in Nat, NEW m \in Nat, NEW n \in Nat, m <= n
  PROVE  Equations(k, m) \subseteq Equations(k, n)
<1>1. Start(k) \in Nat
  BY StartFacts
<1> HIDE DEF Start
<1> QED BY <1>1, TrueRowsGrow DEF Equations

-----------------------------------------------------------------------------
(* The sender's blocks *)

\* Block k holds the first of its packets, of the m that were read.
HoldsBlock(b, k, m) ==
  /\ Start(k) + nPackets(b) <= m
  /\ \A x \in Column : x < nPackets(b) => b.data[x + 1] = Packets(k)[x]

\* Blocks from c on hold what was read: all full but the last, which ends there.
HoldsRead(blocks, c, m) ==
  /\ \A i \in 1 .. Len(blocks) : HoldsBlock(blocks[i], c + (i - 1), m)
  /\ \A i \in 1 .. Len(blocks) - 1 : nPackets(blocks[i]) = BLKSIZE
  /\ Len(blocks) > 0 => Start(c + (Len(blocks) - 1)) + nPackets(blocks[Len(blocks)]) = m
  /\ Len(blocks) = 0 => Start(c) = m

\* The packets whose row is true when m packets were read.
SoundPackets(m) == { q \in DataPacket : RowOf(q) \in Equations(q.blockNo, m) }

SenderHolds(e, m) ==
  /\ HoldsRead(e.blocks, e.currBlock, m)
  /\ e.dataToSend \in Seq(SoundPackets(m))

LEMMA HoldsBlockGrows ==
  ASSUME NEW b \in Block, NEW k \in Nat, NEW m \in Nat, NEW n \in Nat, m <= n,
         HoldsBlock(b, k, m)
  PROVE  HoldsBlock(b, k, n)
<1>1. nPackets(b) \in Nat /\ Start(k) \in Nat
  BY BlockFacts, StartFacts DEF Dofs
<1> HIDE DEF Start
<1> QED BY <1>1 DEF HoldsBlock

LEMMA SoundPacketsGrow ==
  ASSUME NEW m \in Nat, NEW n \in Nat, m <= n
  PROVE  SoundPackets(m) \subseteq SoundPackets(n)
<1>1. \A q \in DataPacket : q.blockNo \in Nat
  BY PacketAssumption DEF DataPacket, BlockNo
<1> QED BY <1>1, EquationsGrow DEF SoundPackets

\* What only depends on the data of the blocks and on the queue.
LEMMA SameDataHolds ==
  ASSUME NEW e, NEW f, NEW m, SenderHolds(e, m), Len(e.blocks) \in Nat,
         f.currBlock = e.currBlock, f.dataToSend = e.dataToSend,
         Len(f.blocks) = Len(e.blocks),
         \A i \in 1 .. Len(e.blocks) : f.blocks[i].data = e.blocks[i].data
  PROVE  SenderHolds(f, m)
<1>1. \A i \in 1 .. Len(e.blocks) : nPackets(f.blocks[i]) = nPackets(e.blocks[i])
  BY DEF nPackets
<1>2. \A i \in 1 .. Len(e.blocks) :
        HoldsBlock(f.blocks[i], f.currBlock + (i - 1), m)
  BY <1>1 DEF SenderHolds, HoldsRead, HoldsBlock
<1>3. Len(e.blocks) > 0 => Len(e.blocks) \in 1 .. Len(e.blocks)
  OBVIOUS
<1>4. HoldsRead(f.blocks, f.currBlock, m)
  BY <1>1, <1>2, <1>3 DEF SenderHolds, HoldsRead
<1> QED BY <1>4 DEF SenderHolds

-----------------------------------------------------------------------------
(* Sending *)

\* What sendFromBlock makes is true of the block it comes from.
LEMMA PacketOfIsSound ==
  ASSUME NEW e, EncoderInv(e), NEW m \in Nat, SenderHolds(e, m),
         NEW plan \in Seq(DOMAIN e.blocks), e.seqNo_Next + Len(plan) <= MaxSeqNo,
         NEW j \in DOMAIN plan
  PROVE  PacketOf(e, plan, j) \in SoundPackets(m)
<1> DEFINE i   == plan[j]
           b   == e.blocks[i]
           n   == b.isSentPacket + SentFrom(plan, j - 1, plan[j])
           seq == e.seqNo_Next + j - 1
           k   == e.currBlock + (i - 1)
           q   == PacketOf(e, plan, j)
<1>1. q \in DataPacket
  BY PacketOfType DEF PacketsBelow
<1>2. /\ e.blocks \in Seq(Block) /\ e.currBlock \in BlockNo /\ e.currBlock \in Nat
      /\ j \in 1 .. Len(plan) /\ i \in 1 .. Len(e.blocks) /\ Len(e.blocks) \in Nat
      /\ e.currBlock + Len(e.blocks) < BLOCKNO_MOD
  BY PacketAssumption DEF EncoderInv, EncoderState, BlockNo, End, numBlock
<1>3. b \in Block /\ HoldsBlock(b, k, m) /\ k \in Nat
  <2> HIDE DEF i
  <2>1. k \in Nat /\ b \in Block
    BY <1>2
  <2> QED BY <1>2, <2>1 DEF SenderHolds, HoldsRead
<1>4. (e.currBlock + plan[j] - 1) % BLOCKNO_MOD = k
  <2>1. e.currBlock + i - 1 \in BlockNo
    <3> HIDE DEF i
    <3> QED BY <1>2, BlockInRange
  <2>2. e.currBlock + plan[j] - 1 = k /\ e.currBlock + plan[j] - 1 \in Int
    <3>1. i \in Int /\ i = plan[j]
      BY <1>2
    <3> HIDE DEF i
    <3> QED BY <1>2, <3>1
  <2> HIDE DEF k
  <2> QED BY <2>1, <2>2, ModFacts
<1>5. n \in Nat
  <2>1. b.isSentPacket \in Nat
    BY <1>3 DEF Block
  <2> HIDE DEF b
  <2> QED BY <1>2, <2>1, SentFromType
<1> DEFINE L == nPackets(b)
           data == b.data
<1>6. /\ L \in 0 .. BLKSIZE /\ data \in [1 .. L -> Field]
      /\ Start(k) + L <= m /\ \A x \in Column : x < L => Packets(k)[x] = data[x + 1]
  <2>1. L \in Dofs /\ data \in Seq(Symbol) /\ Len(data) = L
    BY <1>3, BlockFacts DEF nPackets
  <2>2. data \in [1 .. L -> Field]
    BY <2>1, PacketAssumption
  <2> QED BY <1>3, <2>1, <2>2 DEF HoldsBlock, Dofs
<1>7. Packets(k) \in Data /\ Start(k) \in Nat /\ BLKSIZE \in Nat
  BY <1>3, PacketsType, StartFacts, BlksizeAssumption
<1>8. q = IF n < L
          THEN [blockNo |-> k, flag |-> FLAG_CLEAR, packetNumber |-> n,
                seqNo |-> seq, payload |-> data[n + 1]]
          ELSE [blockNo |-> k, flag |-> FLAG_CODED, packetNumber |-> L,
                seqNo |-> seq, payload |-> mMul(random[seq], data)]
  BY <1>4 DEF PacketOf
<1> HIDE DEF i, b, n, seq, k, q, L, data, Start
<1>9. CASE n < L
  <2>1. n \in Column /\ n < m - Start(k)
    BY <1>5, <1>6, <1>7, <1>9 DEF Column
  <2>2. /\ q.blockNo = k /\ q.flag = FLAG_CLEAR /\ q.packetNumber = n
        /\ q.payload = data[n + 1]
    BY <1>8, <1>9
  <2>3. q.payload = Packets(k)[n]
    BY <1>6, <1>9, <2>1, <2>2
  <2>4. RowOf(q) \in TrueRows(Packets(k), m - Start(k))
    BY <1>7, <2>1, <2>2, <2>3, ClearRowIsTrue
  <2> QED BY <1>1, <2>2, <2>4 DEF SoundPackets, Equations, q
<1>10. CASE ~(n < L)
  <2>1. /\ q.blockNo = k /\ q.flag = FLAG_CODED /\ q.packetNumber = L /\ q.seqNo = seq
        /\ q.payload = mMul(random[seq], data)
    BY <1>8, <1>10
  <2>2. q.seqNo \in SeqNo
    BY <1>1 DEF DataPacket
  <2>3. L <= m - Start(k) /\ m - Start(k) \in Int
    BY <1>6, <1>7
  <2>4. RowOf(q) \in TrueRows(Packets(k), m - Start(k))
    BY <1>6, <1>7, <2>1, <2>2, <2>3, CodedRowIsTrue
  <2> QED BY <1>1, <2>1, <2>4 DEF SoundPackets, Equations, q
<1> QED BY <1>9, <1>10

LEMMA SendFromBlockHolds ==
  ASSUME NEW e, EncoderInv(e), NEW m \in Nat, SenderHolds(e, m),
         NEW plan \in Seq(DOMAIN e.blocks), e.seqNo_Next + Len(plan) <= MaxSeqNo
  PROVE  SenderHolds(sendFromBlock(e, plan), m)
<1> DEFINE f == sendFromBlock(e, plan)
           queued == PacketsOf(e, plan)
<1>1. /\ e \in EncoderState /\ e.blocks \in Seq(Block) /\ Len(e.blocks) \in Nat
      /\ DOMAIN e.blocks = 1 .. Len(e.blocks)
      /\ e.dataToSend \in Seq(SoundPackets(m))
  BY DEF EncoderInv, EncoderState, SenderHolds
<1>2. f.currBlock = e.currBlock /\ f.blocks = Marked(e, plan)
      /\ f.dataToSend = e.dataToSend \o queued
  BY <1>1 DEF sendFromBlock, EncoderState
<1>3. Len(f.blocks) = Len(e.blocks)
  BY SendFromBlockType DEF numBlock
<1>4. \A i \in 1 .. Len(e.blocks) : Marked(e, plan)[i].data = e.blocks[i].data
  BY <1>1 DEF Marked, Block
<1>5. queued \in Seq(SoundPackets(m))
  <2>1. DOMAIN plan = 1 .. Len(plan) /\ Len(plan) \in Nat
    OBVIOUS
  <2>2. \A j \in 1 .. Len(plan) : PacketOf(e, plan, j) \in SoundPackets(m)
    BY <2>1, PacketOfIsSound
  <2> QED BY <2>1, <2>2 DEF PacketsOf
<1> HIDE DEF f, queued
<1>6. f.dataToSend \in Seq(SoundPackets(m))
  BY <1>1, <1>2, <1>5, ConcatProperties
<1>7. \A i \in 1 .. Len(e.blocks) : nPackets(f.blocks[i]) = nPackets(e.blocks[i])
                                    /\ f.blocks[i].data = e.blocks[i].data
  BY <1>2, <1>4 DEF nPackets
<1>8. HoldsRead(f.blocks, f.currBlock, m)
  <2>1. \A i \in 1 .. Len(e.blocks) :
          HoldsBlock(f.blocks[i], f.currBlock + (i - 1), m)
    BY <1>2, <1>7 DEF SenderHolds, HoldsRead, HoldsBlock
  <2>2. Len(e.blocks) > 0 => Len(e.blocks) \in 1 .. Len(e.blocks)
    BY <1>1
  <2> QED BY <1>2, <1>3, <1>7, <2>1, <2>2 DEF SenderHolds, HoldsRead
<1> QED BY <1>6, <1>8 DEF SenderHolds, f

LEMMA OnWindowUpdateHolds ==
  ASSUME NEW e, EncoderInv(e), NEW m \in Nat, SenderHolds(e, m), NEW cuts,
         NEW f \in onWindowUpdate(e, cuts)
  PROVE  SenderHolds(f, m)
<1>1. CASE ~e.isOutstandingData
  BY <1>1 DEF onWindowUpdate
<1>2. CASE e.isOutstandingData
  <2>1. PICK cut \in cuts : \E plan \in Plans(e, cut) :
          /\ e.seqNo_Next + Len(plan) <= MaxSeqNo
          /\ f = [sendFromBlock(e, plan) EXCEPT
                   !.isOutstandingData = totalInFlight(e, cut) + Len(plan) > 0]
    BY <1>2 DEF onWindowUpdate
  <2>2. PICK plan \in Plans(e, cut) :
          /\ e.seqNo_Next + Len(plan) <= MaxSeqNo
          /\ f = [sendFromBlock(e, plan) EXCEPT
                   !.isOutstandingData = totalInFlight(e, cut) + Len(plan) > 0]
    BY <2>1
  <2>3. plan \in Seq(DOMAIN e.blocks)
    BY PlansType DEF EncoderInv
  <2> DEFINE g == sendFromBlock(e, plan)
             more == totalInFlight(e, cut) + Len(plan) > 0
  <2>4. SenderHolds(g, m) /\ EncoderInv(g)
    BY <2>2, <2>3, SendFromBlockHolds, SendFromBlockType
  <2>5. f = [g EXCEPT !.isOutstandingData = more]
    BY <2>2
  <2> HIDE DEF g, more
  <2>6. /\ f.dataToSend = g.dataToSend /\ f.blocks = g.blocks
        /\ f.currBlock = g.currBlock
    BY <2>4, <2>5 DEF EncoderInv, EncoderState
  <2> QED BY <2>4, <2>6 DEF SenderHolds
<1> QED BY <1>1, <1>2

LEMMA OnTimeOutHolds ==
  ASSUME NEW e, EncoderInv(e), NEW m \in Nat, SenderHolds(e, m), NEW cuts,
         NEW f \in onTimeOut(e, cuts)
  PROVE  SenderHolds(f, m)
<1> DEFINE g == [e EXCEPT !.slowStartMode = TRUE, !.congestionWindow = BASE_WINDOW,
                   !.nextTimeout = IF e.isOutstandingData THEN "armed" ELSE "past"]
<1>1. g \in EncoderState /\ g.currBlock = e.currBlock /\ g.blocks = e.blocks
      /\ g.dataToSend = e.dataToSend
  BY EncoderAssumption DEF EncoderInv, EncoderState
<1>2. EncoderInv(g) /\ SenderHolds(g, m)
  BY <1>1 DEF EncoderInv, End, numBlock, SenderHolds
<1>3. f \in onWindowUpdate(g, cuts)
  BY DEF onTimeOut, ThenSend
<1> HIDE DEF g
<1> QED BY <1>2, <1>3, OnWindowUpdateHolds

-----------------------------------------------------------------------------
(* Reading *)

\* s is what comes after m packets of the source.
ReadAfter(s, m) ==
  /\ s \in Seq(Symbol)
  /\ m + Len(s) <= Len(Source)
  /\ \A j \in 1 .. Len(s) : s[j] = Source[m + j]

AllFull(blocks) == \A i \in 1 .. Len(blocks) : nPackets(blocks[i]) = BLKSIZE

LEMMA ReadAfterPart ==
  ASSUME NEW m \in Nat, NEW s, ReadAfter(s, m), NEW r \in 0 .. Len(s)
  PROVE  /\ ReadAfter(SubSeq(s, 1, r), m) /\ Len(SubSeq(s, 1, r)) = r
         /\ ReadAfter(SubSeq(s, r + 1, Len(s)), m + r)
         /\ Len(SubSeq(s, r + 1, Len(s))) = Len(s) - r
<1>1. s \in Seq(Symbol) /\ Len(s) \in Nat /\ Len(Source) \in Nat
  BY LinkAssumption DEF ReadAfter
<1>2. /\ SubSeq(s, 1, r) \in Seq(Symbol) /\ Len(SubSeq(s, 1, r)) = r
      /\ \A j \in 1 .. r : SubSeq(s, 1, r)[j] = s[j]
  BY <1>1, SubSeqProperties, ElementOfSeq
<1>3. /\ SubSeq(s, r + 1, Len(s)) \in Seq(Symbol)
      /\ Len(SubSeq(s, r + 1, Len(s))) = Len(s) - r
      /\ \A j \in 1 .. Len(s) - r : SubSeq(s, r + 1, Len(s))[j] = s[r + j]
  BY <1>1, SubSeqProperties, ElementOfSeq
<1>4. ReadAfter(SubSeq(s, 1, r), m)
  <2>1. \A j \in 1 .. r : j \in 1 .. Len(s)
    BY <1>1
  <2> QED BY <1>1, <1>2, <2>1 DEF ReadAfter
<1>5. ReadAfter(SubSeq(s, r + 1, Len(s)), m + r)
  <2> DEFINE t == SubSeq(s, r + 1, Len(s))
  <2>1. t \in Seq(Symbol) /\ Len(t) = Len(s) - r
        /\ \A j \in 1 .. Len(s) - r : t[j] = s[r + j]
    BY <1>3
  <2> HIDE DEF t
  <2>2. m + r + Len(t) <= Len(Source)
    BY <1>1, <2>1 DEF ReadAfter
  <2>3. ASSUME NEW j \in 1 .. Len(t) PROVE t[j] = Source[m + r + j]
    <3>1. j \in 1 .. Len(s) - r /\ r + j \in 1 .. Len(s)
      BY <1>1, <2>1
    <3>2. s[r + j] = Source[m + (r + j)] /\ m + (r + j) = m + r + j
      BY <3>1 DEF ReadAfter
    <3> QED BY <2>1, <3>1, <3>2
  <2> QED BY <2>1, <2>2, <2>3 DEF ReadAfter, t
<1> QED BY <1>2, <1>3, <1>4, <1>5

\* When the blocks are full the next one starts where the reading is.
LEMMA NextBlockStarts ==
  ASSUME NEW blocks \in Seq(Block), NEW c \in Nat, NEW m \in Nat,
         HoldsRead(blocks, c, m), AllFull(blocks)
  PROVE  Start(c + Len(blocks)) = m
<1> DEFINE n == Len(blocks)
<1>1. n \in Nat
  OBVIOUS
<1> HIDE DEF n
<1>2. CASE n = 0
  BY <1>2 DEF HoldsRead, n
<1>3. CASE n > 0
  <2>1. n \in 1 .. n /\ c + (n - 1) \in Nat /\ c + (n - 1) + 1 = c + n
    BY <1>1, <1>3
  <2>2. Start(c + (n - 1)) + nPackets(blocks[n]) = m /\ nPackets(blocks[n]) = BLKSIZE
    BY <1>3, <2>1 DEF HoldsRead, AllFull, n
  <2>3. Start(c + n) = Start(c + (n - 1)) + BLKSIZE
    BY <2>1, StartFacts
  <2> QED BY <2>2, <2>3 DEF n
<1> QED BY <1>1, <1>2, <1>3

\* Blocks that hold what was read, put together.
LEMMA HoldsReadIs ==
  ASSUME NEW blocks, NEW c, NEW m, NEW n \in Nat, n = Len(blocks), n > 0,
         \A i \in 1 .. n : HoldsBlock(blocks[i], c + (i - 1), m),
         \A i \in 1 .. n - 1 : nPackets(blocks[i]) = BLKSIZE,
         Start(c + (n - 1)) + nPackets(blocks[n]) = m
  PROVE  HoldsRead(blocks, c, m)
BY DEF HoldsRead

\* A new block holds what is read once the others are full.
LEMMA OpenedHolds ==
  ASSUME NEW blocks \in Seq(Block), NEW c \in Nat, NEW m \in Nat,
         HoldsRead(blocks, c, m), AllFull(blocks),
         NEW b \in Block, ReadAfter(b.data, m)
  PROVE  HoldsRead(Append(blocks, b), c, m + nPackets(b))
<1> DEFINE n == Len(blocks)
           new == Append(blocks, b)
           k == c + n
           r == nPackets(b)
<1>1. n \in Nat /\ k \in Nat /\ r \in 0 .. BLKSIZE /\ BLKSIZE \in Nat
      /\ Len(b.data) = r /\ Len(Source) \in Nat
  BY BlockFacts, BlksizeAssumption, LinkAssumption DEF Dofs, nPackets
<1>2. Start(k) = m
  BY NextBlockStarts
<1>3. /\ Len(new) = n + 1 /\ new[n + 1] = b
      /\ \A i \in 1 .. n : new[i] = blocks[i] /\ blocks[i] \in Block
  BY AppendProperties
<1> HIDE DEF new, n, r
<1>4. HoldsBlock(b, k, m + r)
  <2>1. ASSUME NEW x \in Column, x < r PROVE b.data[x + 1] = Packets(k)[x]
    <3>1. x \in Nat /\ x + 1 \in 1 .. r /\ m + (x + 1) = m + x + 1 /\ m + x + 1 <= Len(Source)
      BY <1>1, <2>1, ColumnIsNat DEF ReadAfter
    <3>2. b.data[x + 1] = Source[m + x + 1]
      BY <1>1, <3>1 DEF ReadAfter
    <3>3. Packets(k)[x] = Source[m + x + 1]
      BY <1>2, <3>1 DEF Packets
    <3> QED BY <3>2, <3>3
  <2> QED BY <1>1, <1>2, <2>1 DEF HoldsBlock, r
<1>5. ASSUME NEW i \in 1 .. n PROVE HoldsBlock(blocks[i], c + (i - 1), m + r)
  <2>1. HoldsBlock(blocks[i], c + (i - 1), m) /\ c + (i - 1) \in Nat /\ blocks[i] \in Block
    BY <1>1, <1>3 DEF HoldsRead, n
  <2> QED BY <1>1, <2>1, HoldsBlockGrows
<1>6. ASSUME NEW i \in 1 .. n + 1 PROVE HoldsBlock(new[i], c + (i - 1), m + r)
  <2>1. CASE i = n + 1
    <3>1. c + (i - 1) = k
      BY <1>1, <2>1 DEF n
    <3> QED BY <1>3, <1>4, <2>1, <3>1
  <2>2. CASE i \in 1 .. n
    BY <1>3, <1>5, <2>2
  <2> QED BY <1>1, <2>1, <2>2
<1> DEFINE z == n + 1
<1>7. z \in Nat /\ z > 0 /\ z = Len(new) /\ z - 1 = n
  <2>1. n \in Nat /\ Len(new) = n + 1
    BY <1>1, <1>3
  <2> HIDE DEF k
  <2> QED BY <2>1
<1> HIDE DEF z
<1>8. \A i \in 1 .. z - 1 : nPackets(new[i]) = BLKSIZE
  BY <1>3, <1>7 DEF AllFull, n
<1>9. Start(c + (z - 1)) + nPackets(new[z]) = m + r
  <2>1. c + (z - 1) = k
    BY <1>7
  <2> QED BY <1>2, <1>3, <2>1 DEF r, z
<1> HIDE DEF k
<1>10. \A i \in 1 .. z : HoldsBlock(new[i], c + (i - 1), m + r)
  BY <1>6 DEF z
<1>11. HoldsRead(new, c, m + r)
  BY <1>7, <1>8, <1>9, <1>10, HoldsReadIs
<1> QED BY <1>11 DEF new, r

\* The blocks with s added to the last one, the n-th, which becomes b.
IsFilled(blocks, n, s, b, new) ==
  /\ n = Len(blocks) /\ n > 0
  /\ nPackets(blocks[n]) + Len(s) <= BLKSIZE
  /\ b \in Block /\ b.data = blocks[n].data \o s
  /\ Len(new) = n /\ new[n] = b /\ \A i \in 1 .. n - 1 : new[i] = blocks[i]

\* The last block, prolonged with what is read.
LEMMA FilledHolds ==
  ASSUME NEW blocks \in Seq(Block), NEW c \in Nat, NEW m \in Nat,
         HoldsRead(blocks, c, m), NEW n, NEW s, ReadAfter(s, m), NEW b, NEW new,
         IsFilled(blocks, n, s, b, new), NEW r \in Nat, r = Len(s)
  PROVE  HoldsRead(new, c, m + r)
<1>1. /\ n = Len(blocks) /\ n > 0
      /\ nPackets(blocks[n]) + Len(s) <= BLKSIZE
      /\ b \in Block /\ b.data = blocks[n].data \o s
      /\ Len(new) = n /\ new[n] = b /\ \A i \in 1 .. n - 1 : new[i] = blocks[i]
  BY DEF IsFilled
<1> DEFINE k == c + (n - 1)
           old == blocks[n]
           p == nPackets(old)
<1>2. n \in Nat /\ n \in 1 .. n /\ k \in Nat /\ s \in Seq(Symbol) /\ r \in Nat
      /\ Len(Source) \in Nat /\ BLKSIZE \in Nat
  BY <1>1, LinkAssumption, BlksizeAssumption DEF ReadAfter
<1>3. old \in Block /\ p \in Nat /\ old.data \in Seq(Symbol) /\ Len(old.data) = p
  <2>1. old \in Block
    BY <1>1, <1>2
  <2> HIDE DEF old
  <2> QED BY <2>1, BlockFacts DEF Dofs, nPackets
<1>4. /\ HoldsBlock(old, k, m) /\ Start(k) + p = m
      /\ \A i \in 1 .. n - 1 : nPackets(blocks[i]) = BLKSIZE
  BY <1>1, <1>2 DEF HoldsRead
<1>5. Start(k) \in Nat
  BY <1>2, StartFacts
<1>6. /\ Len(new) = n /\ new[n] = b
      /\ \A i \in 1 .. n - 1 : new[i] = blocks[i] /\ blocks[i] \in Block
  BY <1>1, <1>2
<1>7. m + r <= Len(Source)
  BY DEF ReadAfter
<1> HIDE DEF k, old, p
<1>8. /\ nPackets(b) = p + r
      /\ \A j \in 1 .. p : b.data[j] = old.data[j]
      /\ \A j \in 1 .. r : b.data[p + j] = s[j]
  <2>1. b.data = old.data \o s
    BY <1>1 DEF old
  <2>2. /\ Len(old.data \o s) = p + r
        /\ \A j \in 1 .. p + r : (old.data \o s)[j] = IF j <= p THEN old.data[j] ELSE s[j - p]
    BY <1>2, <1>3, ConcatProperties
  <2>3. ASSUME NEW j \in 1 .. r PROVE b.data[p + j] = s[j]
    <3> DEFINE h == p + j
    <3>1. h \in 1 .. p + r /\ ~(h <= p) /\ h - p = j
      BY <1>2, <1>3
    <3> HIDE DEF h
    <3>2. b.data[h] = s[h - p]
      BY <2>1, <2>2, <3>1
    <3> QED BY <3>1, <3>2 DEF h
  <2>4. ASSUME NEW j \in 1 .. p PROVE b.data[j] = old.data[j]
    <3>1. j \in 1 .. p + r /\ j <= p
      BY <1>2, <1>3
    <3> QED BY <2>1, <2>2, <3>1
  <2> QED BY <2>1, <2>2, <2>3, <2>4 DEF nPackets
<1>9. HoldsBlock(b, k, m + r)
  <2>1. ASSUME NEW x \in Column, x < p + r PROVE b.data[x + 1] = Packets(k)[x]
    <3>1. x \in Nat
      BY ColumnIsNat
    <3>2. CASE x < p
      <4>1. x + 1 \in 1 .. p
        BY <1>3, <3>1, <3>2
      <4> QED BY <1>4, <1>8, <3>2, <4>1 DEF HoldsBlock, p
    <3>3. CASE x >= p
      <4>1. /\ x + 1 - p \in 1 .. r /\ p + (x + 1 - p) = x + 1
            /\ m + (x + 1 - p) = Start(k) + x + 1
        <5>1. Start(k) + p = m
          BY <1>4
        <5> DEFINE a == Start(k)
        <5>2. a \in Nat /\ a + p = m
          BY <1>5, <5>1
        <5> HIDE DEF a
        <5>3. m + (x + 1 - p) = a + x + 1
          BY <1>2, <1>3, <3>1, <5>2
        <5> QED BY <1>2, <1>3, <2>1, <3>1, <3>3, <5>3 DEF a
      <4>2. Start(k) + x + 1 <= Len(Source)
        BY <1>7, <1>2, <1>5, <4>1
      <4>3. s[x + 1 - p] = Source[Start(k) + x + 1]
        <5>1. s[x + 1 - p] = Source[m + (x + 1 - p)]
          BY <4>1 DEF ReadAfter
        <5> QED BY <4>1, <5>1
      <4>4. b.data[x + 1] = s[x + 1 - p]
        <5>1. b.data[p + (x + 1 - p)] = s[x + 1 - p]
          BY <1>8, <4>1
        <5> QED BY <4>1, <5>1
      <4>5. Packets(k)[x] = Source[Start(k) + x + 1]
        BY <4>2 DEF Packets
      <4> QED BY <4>3, <4>4, <4>5
    <3>4. x < p \/ x >= p
      BY <1>3, <3>1
    <3> QED BY <3>2, <3>3, <3>4
  <2>2. Start(k) + (p + r) <= m + r
    <3>1. Start(k) + p = m
      BY <1>4
    <3> QED BY <1>2, <1>3, <1>5, <3>1
  <2> QED BY <1>8, <2>1, <2>2 DEF HoldsBlock
<1>10. ASSUME NEW i \in 1 .. n PROVE HoldsBlock(new[i], c + (i - 1), m + r)
  <2>1. CASE i = n
    BY <1>6, <1>9, <2>1 DEF k
  <2>2. CASE i \in 1 .. n - 1
    <3>1. /\ HoldsBlock(blocks[i], c + (i - 1), m) /\ c + (i - 1) \in Nat
          /\ blocks[i] \in Block
      BY <1>1, <1>2, <1>6, <2>2 DEF HoldsRead
    <3>2. m + r \in Nat /\ m <= m + r
      BY <1>2
    <3> QED BY <1>6, <2>2, <3>1, <3>2, HoldsBlockGrows
  <2> QED BY <1>2, <2>1, <2>2
<1>11. \A i \in 1 .. n - 1 : nPackets(new[i]) = BLKSIZE
  BY <1>4, <1>6
<1>12. Start(c + (n - 1)) + nPackets(new[n]) = m + r
  <2>1. Start(k) + (p + r) = m + r
    <3>1. Start(k) + p = m
      BY <1>4
    <3> DEFINE a == Start(k)
    <3>2. a \in Nat /\ a + p = m
      BY <1>5, <3>1
    <3> HIDE DEF a
    <3>3. a + (p + r) = m + r
      BY <1>2, <1>3, <3>2
    <3> QED BY <3>3 DEF a
  <2> QED BY <1>6, <1>8, <2>1 DEF k
<1>13. HoldsRead(new, c, m + r)
  BY <1>1, <1>2, <1>6, <1>10, <1>11, <1>12, HoldsReadIs
<1> QED BY <1>13

-----------------------------------------------------------------------------
(* handleInClear *)

LEMMA FullIs == \A b \in Block : Full(b) <=> nPackets(b) = BLKSIZE
<1> TAKE b \in Block
<1>1. nPackets(b) \in 0 .. BLKSIZE /\ BLKSIZE \in Nat
  BY BlockFacts, BlksizeAssumption DEF Dofs
<1> QED BY <1>1 DEF Full

LEMMA BlockCreateFacts ==
  blockCreate \in Block /\ nPackets(blockCreate) = 0 /\ blockCreate.data = <<>>
<1>1. <<>> \in Seq(Symbol) /\ Len(<<>>) = 0 /\ 0 \in Dofs
  BY BlksizeAssumption DEF Dofs
<1>2. <<>> \in BlockData
  BY <1>1, BlockDataIsSeq
<1> QED BY <1>2 DEF blockCreate, Block, nPackets

\* The blocks a read is stored in: the last one has room.
KnownBlocks(blocks) ==
  IF \A i \in DOMAIN blocks : Full(blocks[i]) THEN Append(blocks, blockCreate) ELSE blocks

LEMMA KnownBlocksHold ==
  ASSUME NEW blocks \in Seq(Block), NEW c \in Nat, NEW m \in Nat, m <= Len(Source),
         HoldsRead(blocks, c, m)
  PROVE  LET known == KnownBlocks(blocks) IN
         /\ known \in Seq(Block) /\ HoldsRead(known, c, m)
         /\ \A i \in DOMAIN known : ~Full(known[i]) => i = Len(known)
<1> DEFINE known == KnownBlocks(blocks)
           n == Len(blocks)
<1>1. n \in Nat /\ DOMAIN blocks = 1 .. n /\ \A i \in 1 .. n : blocks[i] \in Block
  OBVIOUS
<1>2. CASE \A i \in DOMAIN blocks : Full(blocks[i])
  <2>1. known = Append(blocks, blockCreate)
    BY <1>2 DEF KnownBlocks
  <2>2. /\ known \in Seq(Block) /\ Len(known) = n + 1 /\ DOMAIN known = 1 .. n + 1
        /\ \A i \in 1 .. n : known[i] = blocks[i]
    BY <2>1, BlockCreateFacts, AppendProperties
  <2>3. AllFull(blocks)
    BY <1>1, <1>2, FullIs DEF AllFull
  <2>4. ReadAfter(blockCreate.data, m)
    BY BlockCreateFacts, LinkAssumption DEF ReadAfter
  <2>5. HoldsRead(known, c, m + 0)
    BY <2>1, <2>3, <2>4, BlockCreateFacts, OpenedHolds
  <2>6. \A i \in 1 .. n : Full(known[i])
    BY <1>1, <1>2, <2>2
  <2>7. m + 0 = m
    OBVIOUS
  <2> HIDE DEF known
  <2>8. \A i \in DOMAIN known : ~Full(known[i]) => i = n + 1
    BY <1>1, <2>2, <2>6
  <2>9. HoldsRead(known, c, m)
    BY <2>5, <2>7
  <2> QED BY <2>2, <2>8, <2>9 DEF known
<1>3. CASE ~(\A i \in DOMAIN blocks : Full(blocks[i]))
  <2>1. known = blocks
    BY <1>3 DEF KnownBlocks
  <2>2. \A i \in 1 .. n - 1 : Full(blocks[i])
    BY <1>1, FullIs DEF HoldsRead
  <2>3. \A i \in DOMAIN blocks : ~Full(blocks[i]) => i = n
    BY <1>1, <2>2
  <2> QED BY <2>1, <2>3
<1> QED BY <1>2, <1>3

\* A read of TCP data is stored in order after what was read before.
LEMMA StoredHolds ==
  ASSUME NEW blocks \in Seq(Block), NEW c \in Nat, NEW m \in Nat,
         HoldsRead(blocks, c, m), NEW packets, ReadAfter(packets, m),
         Len(packets) \in 1 .. BLKSIZE, NEW bs \in Stored(blocks, packets)
  PROVE  HoldsRead(bs, c, m + Len(packets))
<1> DEFINE known == KnownBlocks(blocks)
           room(j) == min(BLKSIZE - nPackets(known[j]), Len(packets))
           filled(j) == [known EXCEPT ![j].data = @ \o SubSeq(packets, 1, room(j))]
           rest(j) == SubSeq(packets, room(j) + 1, Len(packets))
           opened(j) == [blockCreate EXCEPT !.data = rest(j)]
<1>1. PICK i \in DOMAIN known :
        /\ ~Full(known[i])
        /\ bs = IF rest(i) = <<>> THEN filled(i) ELSE Append(filled(i), opened(i))
  BY DEF Stored, KnownBlocks
<1>2. /\ packets \in Seq(Symbol) /\ m + Len(packets) <= Len(Source)
      /\ Len(packets) \in Nat /\ Len(Source) \in Nat /\ BLKSIZE \in Nat
  BY LinkAssumption, BlksizeAssumption DEF ReadAfter
<1>3. known \in Seq(Block) /\ HoldsRead(known, c, m) /\ i = Len(known)
  BY <1>1, <1>2, KnownBlocksHold
<1> DEFINE old == known[i]
           p == nPackets(old)
           r == room(i)
           part == SubSeq(packets, 1, r)
           left == rest(i)
           b == [old EXCEPT !.data = @ \o part]
           new == filled(i)
<1> HIDE DEF known
<1>4. old \in Block /\ i \in Nat /\ i > 0
  BY <1>1, <1>3
<1>5. /\ p \in Nat /\ p < BLKSIZE /\ old.data \in Seq(Symbol) /\ Len(old.data) = p
  <2>1. ~Full(old)
    BY <1>1
  <2> HIDE DEF old
  <2>2. p \in 0 .. BLKSIZE /\ old.data \in Seq(Symbol)
    BY <1>4, BlockFacts DEF Dofs
  <2> QED BY <1>2, <2>1, <2>2 DEF Full, nPackets
<1>6. r = IF BLKSIZE - p > Len(packets) THEN Len(packets) ELSE BLKSIZE - p
  BY <1>2, <1>5 DEF min
<1>7. left = SubSeq(packets, r + 1, Len(packets))
  OBVIOUS
<1>8. bs = IF left = <<>> THEN new ELSE Append(new, [blockCreate EXCEPT !.data = left])
  BY <1>1
<1>9. new = [known EXCEPT ![i] = b]
  OBVIOUS
<1> HIDE DEF r, left, new, old, p, room, rest, filled, opened
<1>10. /\ r \in 0 .. Len(packets) /\ r \in Nat /\ p + r <= BLKSIZE
       /\ r < Len(packets) => p + r = BLKSIZE
  BY <1>2, <1>5, <1>6
<1>11. /\ ReadAfter(part, m) /\ Len(part) = r
       /\ ReadAfter(left, m + r) /\ Len(left) = Len(packets) - r
       /\ part \in Seq(Symbol) /\ left \in Seq(Symbol)
  <2>1. /\ ReadAfter(SubSeq(packets, 1, r), m) /\ Len(SubSeq(packets, 1, r)) = r
        /\ ReadAfter(left, m + r) /\ Len(left) = Len(packets) - r
    BY <1>7, <1>10, ReadAfterPart
  <2>2. ReadAfter(part, m) /\ Len(part) = r
    BY <2>1
  <2> HIDE DEF part
  <2> QED BY <2>1, <2>2 DEF ReadAfter
<1> HIDE DEF part
<1>12. b \in Block /\ b.data = old.data \o part /\ nPackets(b) = p + r
  <2>1. /\ old.data \o part \in Seq(Symbol)
        /\ Len(old.data \o part) = p + r
    BY <1>5, <1>11, ConcatProperties
  <2>2. p + r \in Dofs
    BY <1>2, <1>5, <1>10 DEF Dofs
  <2>3. old.data \o part \in BlockData
    BY <2>1, <2>2, BlockDataIsSeq
  <2> QED BY <1>4, <2>1, <2>3 DEF Block, nPackets
<1> HIDE DEF b
<1>13. HoldsRead(new, c, m + r)
  <2>1. nPackets(known[i]) + Len(part) <= BLKSIZE /\ b.data = known[i].data \o part
    BY <1>10, <1>11, <1>12 DEF p, old
  <2>2. Len(new) = i /\ new[i] = b /\ \A j \in 1 .. i - 1 : new[j] = known[j]
    BY <1>3, <1>4, <1>9, <1>12, ExceptSeq
  <2>3. IsFilled(known, i, part, b, new)
    BY <1>3, <1>4, <1>12, <2>1, <2>2 DEF IsFilled
  <2>4. r \in Nat /\ r = Len(part)
    BY <1>10, <1>11
  <2> QED BY <1>3, <1>11, <2>3, <2>4, FilledHolds
<1>14. CASE left = <<>>
  <2>1. r = Len(packets)
    BY <1>2, <1>10, <1>11, <1>14, EmptySeq
  <2> QED BY <1>8, <1>13, <1>14, <2>1
<1>15. CASE left # <<>>
  <2> DEFINE o == [blockCreate EXCEPT !.data = left]
  <2>1. Len(left) \in Nat /\ Len(left) # 0
    BY <1>11, <1>15, EmptySeq
  <2>2. p + r = BLKSIZE /\ Len(left) \in Dofs
    BY <1>2, <1>5, <1>10, <1>11, <2>1 DEF Dofs
  <2>3. o \in Block /\ o.data = left
    BY <1>11, <2>2, BlockCreateFacts, BlockDataIsSeq DEF Block
  <2>4. /\ new \in Seq(Block) /\ Len(new) = i /\ new[i] = b
        /\ \A j \in 1 .. i - 1 : new[j] = known[j]
    BY <1>3, <1>4, <1>9, <1>12, ExceptSeq
  <2>5. AllFull(new)
    <3>1. \A j \in 1 .. i - 1 : nPackets(new[j]) = BLKSIZE
      BY <1>3, <1>4, <2>4 DEF HoldsRead
    <3>2. nPackets(new[i]) = BLKSIZE
      BY <1>12, <2>2, <2>4
    <3>3. \A j \in 1 .. i : j = i \/ j \in 1 .. i - 1
      BY <1>4
    <3> QED BY <2>4, <3>1, <3>2, <3>3 DEF AllFull
  <2>6. ReadAfter(o.data, m + r) /\ m + r \in Nat
    BY <1>10, <1>11, <2>3
  <2> HIDE DEF o
  <2>7. HoldsRead(Append(new, o), c, (m + r) + nPackets(o))
    BY <1>13, <2>3, <2>4, <2>5, <2>6, OpenedHolds
  <2>8. (m + r) + nPackets(o) = m + Len(packets)
    <3>1. nPackets(o) = Len(packets) - r
      BY <1>11, <2>3 DEF nPackets
    <3>2. (m + r) + (Len(packets) - r) = m + Len(packets)
      BY <1>2, <1>10
    <3> QED BY <3>1, <3>2
  <2>9. bs = Append(new, o)
    BY <1>8, <1>15 DEF o
  <2>10. HoldsRead(Append(new, o), c, m + Len(packets))
    BY <2>7, <2>8
  <2> QED BY <2>9, <2>10
<1> QED BY <1>14, <1>15

LEMMA HandleInClearHolds ==
  ASSUME NEW e, EncoderInv(e), NEW m \in Nat, SenderHolds(e, m), m <= Len(Source),
         NEW packets, ReadAfter(packets, m), Len(packets) \in 0 .. BLKSIZE,
         End(e) + Len(packets) < BLOCKNO_MOD,
         NEW cuts, NEW f \in handleInClear(e, packets, cuts)
  PROVE  SenderHolds(f, m + Len(packets))
<1>1. packets \in Seq(Symbol) /\ Len(packets) \in Nat /\ BLKSIZE \in Nat
  BY BlksizeAssumption DEF ReadAfter
<1>2. PICK g : /\ EncoderInv(g)
               /\ f \in onWindowUpdate(g, cuts)
               /\ SameTables(e, g)
               /\ g.blocks \in IF packets = <<>> THEN {e.blocks}
                               ELSE Stored(e.blocks, packets)
  BY <1>1, HandleInClearStores
<1>3. e.blocks \in Seq(Block) /\ e.currBlock \in Nat
  BY PacketAssumption DEF EncoderInv, EncoderState, BlockNo
<1>4. HoldsRead(g.blocks, g.currBlock, m + Len(packets))
  <2>1. HoldsRead(e.blocks, e.currBlock, m) /\ g.currBlock = e.currBlock
    BY <1>2 DEF SenderHolds, SameTables
  <2>2. CASE packets = <<>>
    <3>1. Len(packets) = 0 /\ m + 0 = m
      BY <2>2
    <3>2. g.blocks = e.blocks
      BY <1>2, <2>2
    <3> QED BY <2>1, <3>1, <3>2
  <2>3. CASE packets # <<>>
    <3>1. Len(packets) \in 1 .. BLKSIZE
      BY <1>1, <2>3, EmptySeq
    <3>2. g.blocks \in Stored(e.blocks, packets)
      BY <1>2, <2>3
    <3> QED BY <1>3, <2>1, <3>1, <3>2, StoredHolds
  <2> QED BY <2>2, <2>3
<1>5. g.dataToSend \in Seq(SoundPackets(m + Len(packets)))
  <2>1. SoundPackets(m) \subseteq SoundPackets(m + Len(packets))
    BY <1>1, SoundPacketsGrow
  <2> QED BY <1>2, <2>1, SeqMonotonic DEF SenderHolds, SameTables
<1>6. SenderHolds(g, m + Len(packets))
  BY <1>4, <1>5 DEF SenderHolds
<1>7. m + Len(packets) \in Nat
  BY <1>1
<1> QED BY <1>2, <1>6, <1>7, OnWindowUpdateHolds

-----------------------------------------------------------------------------
(* onAck *)

\* new is blocks without its first a.
IsDropped(blocks, a, new) ==
  /\ a \in 0 .. Len(blocks) /\ Len(new) = Len(blocks) - a
  /\ \A i \in 1 .. Len(blocks) - a : new[i] = blocks[a + i]

\* Blocks that end before what was read can be dropped from the front.
LEMMA DroppedHolds ==
  ASSUME NEW blocks \in Seq(Block), NEW c \in Nat, NEW m \in Nat,
         HoldsRead(blocks, c, m), NEW k \in Nat, Start(k) <= m,
         NEW a \in Nat, k = c + a, NEW new, IsDropped(blocks, a, new)
  PROVE  HoldsRead(new, k, m)
<1> DEFINE n == Len(blocks)
           left == n - a
<1>1. /\ n \in Nat /\ left \in Nat /\ a \in 0 .. n /\ left = n - a /\ n = Len(blocks)
      /\ Len(new) = left /\ \A i \in 1 .. left : new[i] = blocks[a + i]
  BY DEF IsDropped
<1> HIDE DEF n, left
<1>2. CASE left > 0
  <2>1. ASSUME NEW i \in 1 .. left
        PROVE  /\ HoldsBlock(new[i], k + (i - 1), m)
               /\ i < left => nPackets(new[i]) = BLKSIZE
    <3> DEFINE h == a + i
    <3>1. h \in 1 .. n /\ c + (h - 1) = k + (i - 1) /\ i < left => h \in 1 .. n - 1
      BY <1>1
    <3>2. new[i] = blocks[h]
      BY <1>1
    <3>3. h \in 1 .. n /\ c + (h - 1) = k + (i - 1)
      BY <1>1
    <3> HIDE DEF h
    <3>4. HoldsBlock(blocks[h], c + (h - 1), m)
      BY <1>1, <3>3 DEF HoldsRead
    <3>5. i < left => nPackets(blocks[h]) = BLKSIZE
      BY <1>1, <3>1, <3>3 DEF HoldsRead
    <3> QED BY <3>2, <3>3, <3>4, <3>5
  <2>2. \A i \in 1 .. left - 1 : i \in 1 .. left /\ i < left
    BY <1>1
  <2>3. \A i \in 1 .. left - 1 : nPackets(new[i]) = BLKSIZE
    BY <2>1, <2>2
  <2>4. Start(k + (left - 1)) + nPackets(new[left]) = m
    <3>1. k + (left - 1) = c + (n - 1) /\ left \in 1 .. left /\ a + left = n /\ n > 0
      BY <1>1, <1>2
    <3>2. new[left] = blocks[n]
      BY <1>1, <3>1
    <3> QED BY <1>1, <3>1, <3>2 DEF HoldsRead
  <2> QED BY <1>1, <1>2, <2>1, <2>3, <2>4, HoldsReadIs
<1>3. CASE left = 0
  <2>1. k = c + n
    <3>1. a = n
      BY <1>1, <1>3
    <3> QED BY <3>1
  <2>2. Start(k) = m
    <3>1. CASE n = 0
      <4>1. k = c /\ Len(blocks) = 0
        BY <1>1, <2>1, <3>1
      <4> QED BY <4>1 DEF HoldsRead
    <3>2. CASE n > 0
      <4> DEFINE j == c + (n - 1)
                 p == nPackets(blocks[n])
      <4>1. j \in Nat /\ k = j + 1 /\ n \in 1 .. n
        <5>1. n \in Nat /\ k = c + n /\ n > 0
          BY <1>1, <2>1, <3>2
        <5>2. c + n = c + (n - 1) + 1 /\ c + (n - 1) \in Nat
          BY <5>1
        <5> HIDE DEF j
        <5>3. n \in 1 .. n
          BY <5>1
        <5> QED BY <5>1, <5>2, <5>3 DEF j
      <4>2. Start(j) + p = m /\ blocks[n] \in Block
        BY <1>1, <3>2, <4>1 DEF HoldsRead
      <4>3. p \in 0 .. BLKSIZE /\ BLKSIZE \in Nat
        BY <4>2, BlockFacts, BlksizeAssumption DEF Dofs
      <4>4. Start(j) \in Nat /\ Start(k) = Start(j) + BLKSIZE
        BY <4>1, StartFacts
      <4> DEFINE s == Start(j)
                 t == Start(k)
      <4>5. s \in Nat /\ t = s + BLKSIZE /\ s + p = m /\ t <= m
        BY <4>2, <4>4
      <4> HIDE DEF s, t, p, j
      <4>6. t = m
        BY <4>3, <4>5
      <4> QED BY <4>6 DEF t
    <3> QED BY <1>1, <3>1, <3>2
  <2> QED BY <1>1, <1>3, <2>2 DEF HoldsRead
<1> QED BY <1>1, <1>2, <1>3

\* What FreeAcked leaves of the blocks.
LEMMA FreeAckedBlocks ==
  ASSUME NEW e, EncoderInv(e), NEW ack \in AckPacket, ack.ack_currBlock <= End(e)
  PROVE  LET f == FreeAcked(e, ack)
             a == f.currBlock - e.currBlock
         IN  /\ a \in 0 .. Len(e.blocks) /\ f.currBlock = e.currBlock + a
             /\ Len(f.blocks) = Len(e.blocks) - a
             /\ \A i \in 1 .. Len(e.blocks) - a : f.blocks[i] = e.blocks[a + i]
             /\ f.dataToSend = e.dataToSend
<1> DEFINE f == FreeAcked(e, ack)
           acked == max(0, ack.ack_currBlock - e.currBlock)
           kept == SubSeq(e.blocks, acked + 1, Len(e.blocks))
           n == Len(e.blocks)
<1>1. /\ e \in EncoderState /\ e.blocks \in Seq(Block) /\ e.currBlock \in Nat
      /\ ack.ack_currBlock \in Nat /\ n \in Nat
  BY PacketAssumption DEF EncoderInv, EncoderState, AckPacket, BlockNo
<1>2. acked \in 0 .. n /\ max(e.currBlock, ack.ack_currBlock) = e.currBlock + acked
  BY <1>1 DEF max, End, numBlock
<1>3. f.currBlock = max(e.currBlock, ack.ack_currBlock) /\ f.blocks = kept
      /\ f.dataToSend = e.dataToSend
  BY <1>1 DEF FreeAcked, EncoderState
<1> HIDE DEF f, acked
<1>4. /\ Len(kept) = n - acked
      /\ \A i \in 1 .. n - acked : kept[i] = e.blocks[acked + i]
  <2>1. /\ Len(kept) = n - acked
        /\ \A i \in 1 .. n - (acked + 1) + 1 : kept[i] = e.blocks[acked + 1 + i - 1]
    BY <1>1, <1>2, SubSeqProperties, ElementOfSeq
  <2>2. ASSUME NEW i \in 1 .. n - acked PROVE kept[i] = e.blocks[acked + i]
    <3>1. i \in 1 .. n - (acked + 1) + 1 /\ acked + 1 + i - 1 = acked + i
      BY <1>1, <1>2
    <3> HIDE DEF kept, n
    <3>2. kept[i] = e.blocks[acked + 1 + i - 1]
      BY <2>1, <3>1
    <3> QED BY <3>1, <3>2
  <2> QED BY <2>1, <2>2
<1> HIDE DEF kept
<1>5. f.currBlock - e.currBlock = acked
  BY <1>1, <1>2, <1>3
<1>6. f.currBlock = e.currBlock + acked
  BY <1>2, <1>3
<1>7. LET a == acked IN
      /\ a \in 0 .. Len(e.blocks) /\ f.currBlock = e.currBlock + a
      /\ Len(f.blocks) = Len(e.blocks) - a
      /\ \A i \in 1 .. Len(e.blocks) - a : f.blocks[i] = e.blocks[a + i]
      /\ f.dataToSend = e.dataToSend
  BY <1>2, <1>3, <1>4, <1>6
<1> QED BY <1>5, <1>7 DEF f

LEMMA FreeAckedHolds ==
  ASSUME NEW e, EncoderInv(e), NEW m \in Nat, SenderHolds(e, m),
         NEW ack \in AckPacket, ack.ack_currBlock <= End(e), Start(ack.ack_currBlock) <= m
  PROVE  SenderHolds(FreeAcked(e, ack), m)
<1> DEFINE f == FreeAcked(e, ack)
           a == f.currBlock - e.currBlock
           n == Len(e.blocks)
<1>1. e.blocks \in Seq(Block) /\ n \in Nat /\ e.currBlock \in Nat
      /\ ack.ack_currBlock \in Nat
  BY PacketAssumption DEF EncoderInv, EncoderState, AckPacket, BlockNo
<1>2. /\ a \in 0 .. n /\ f.currBlock = e.currBlock + a
      /\ Len(f.blocks) = n - a
      /\ \A i \in 1 .. n - a : f.blocks[i] = e.blocks[a + i]
      /\ f.dataToSend = e.dataToSend
  BY FreeAckedBlocks
<1>3. f.currBlock = max(e.currBlock, ack.ack_currBlock)
  BY FreeAckedType
<1> HIDE DEF f
<1>4. f.currBlock \in Nat
  BY <1>1, <1>2
<1>5. Start(f.currBlock) <= m
  <2>1. CASE f.currBlock = ack.ack_currBlock
    BY <2>1
  <2>2. CASE f.currBlock = e.currBlock
    <3>1. CASE n = 0
      BY <1>1, <2>2, <3>1, StartFacts DEF SenderHolds, HoldsRead
    <3>2. CASE n > 0
      <4>1. /\ HoldsBlock(e.blocks[1], e.currBlock + (1 - 1), m) /\ e.blocks[1] \in Block
        BY <1>1, <3>2 DEF SenderHolds, HoldsRead
      <4>2. e.currBlock + (1 - 1) = e.currBlock
        BY <1>1
      <4>3. Start(e.currBlock) + nPackets(e.blocks[1]) <= m
        BY <4>1, <4>2 DEF HoldsBlock
      <4>4. nPackets(e.blocks[1]) \in Nat /\ Start(e.currBlock) \in Nat
        <5> DEFINE b == e.blocks[1]
        <5>1. b \in Block
          BY <4>1
        <5> HIDE DEF b
        <5>2. nPackets(b) \in Nat
          BY <5>1, BlockFacts DEF Dofs
        <5> QED BY <1>1, <5>2, StartFacts DEF b
      <4>5. Start(e.currBlock) <= m
        BY <4>3, <4>4
      <4> QED BY <2>2, <4>5
    <3> QED BY <1>1, <3>1, <3>2
  <2> QED BY <1>3, <2>1, <2>2 DEF max
<1>6. IsDropped(e.blocks, a, f.blocks) /\ a \in Nat
  BY <1>2 DEF IsDropped
<1> HIDE DEF a, n
<1>7. HoldsRead(e.blocks, e.currBlock, m)
  BY DEF SenderHolds
<1>8. HoldsRead(f.blocks, f.currBlock, m)
  BY <1>1, <1>2, <1>4, <1>5, <1>6, <1>7, DroppedHolds
<1>9. SenderHolds(f, m)
  BY <1>2, <1>8 DEF SenderHolds
<1> QED BY <1>9 DEF f

LEMMA AcknowledgedHolds ==
  ASSUME NEW e, EncoderInv(e), NEW m \in Nat, SenderHolds(e, m),
         NEW ack \in AckPacket, ack.ack_currBlock <= End(e), Start(ack.ack_currBlock) <= m,
         NEW w
  PROVE  SenderHolds(Acknowledged(e, ack, w), m)
<1> DEFINE a == [e EXCEPT !.p = ack.ack_loss]
           b == FreeAcked(a, ack)
           c == RaiseDofs(b, ack)
           d == AdjustWindow(c, w)
           f == [d EXCEPT !.seqNo_Una = ack.ack_seqNo + 1]
<1>1. e \in EncoderState /\ ack.ack_loss \in LossRatio
  BY DEF EncoderInv, AckPacket
<1>2. /\ EncoderInv(a) /\ End(a) = End(e) /\ a.blocks = e.blocks
      /\ a.currBlock = e.currBlock /\ a.dataToSend = e.dataToSend
  BY <1>1 DEF EncoderInv, EncoderState, End, numBlock
<1>3. SenderHolds(a, m)
  BY <1>2 DEF SenderHolds
<1> HIDE DEF a
<1>4. SenderHolds(b, m) /\ EncoderInv(b)
  BY <1>2, <1>3, FreeAckedHolds, FreeAckedType DEF Follows
<1> HIDE DEF b
<1>5. /\ b \in EncoderState /\ Len(b.blocks) \in Nat /\ DOMAIN b.blocks = 1 .. Len(b.blocks)
      /\ \A i \in 1 .. Len(b.blocks) : b.blocks[i] \in Block
  BY <1>4 DEF EncoderInv, EncoderState
<1> DEFINE bs == Credited(b.blocks, ack.ack_dofs)
<1>6. /\ bs \in Seq(Block) /\ Len(bs) = Len(b.blocks)
      /\ \A i \in 1 .. Len(b.blocks) : bs[i].data = b.blocks[i].data
  <2>1. /\ DOMAIN bs = 1 .. Len(b.blocks)
        /\ \A i \in 1 .. Len(b.blocks) : bs[i].data = b.blocks[i].data
    BY <1>5 DEF Credited, Block
  <2>2. Follows(b, RaiseDofs(b, ack)) /\ RaiseDofs(b, ack).blocks = bs
    BY <1>4, <1>5, RaiseDofsType DEF RaiseDofs, EncoderState
  <2>3. bs \in Seq(Block)
    BY <2>2 DEF Follows, EncoderInv, EncoderState
  <2> QED BY <1>5, <2>1, <2>3
<1>7. c.blocks = bs /\ c.currBlock = b.currBlock /\ c.dataToSend = b.dataToSend
  BY <1>5 DEF RaiseDofs, EncoderState
<1>8. f.blocks = c.blocks /\ f.currBlock = c.currBlock /\ f.dataToSend = c.dataToSend
  <2>1. c \in EncoderState
    BY <1>4, RaiseDofsType DEF Follows, EncoderInv
  <2> HIDE DEF c
  <2> QED BY <2>1 DEF AdjustWindow, EncoderState
<1> HIDE DEF f, c, bs
<1>9. SenderHolds(f, m)
  BY <1>4, <1>5, <1>6, <1>7, <1>8, SameDataHolds
<1> QED BY <1>9 DEF Acknowledged, a, b, c, d, f

LEMMA OnAckHolds ==
  ASSUME NEW e, EncoderInv(e), NEW m \in Nat, SenderHolds(e, m),
         NEW ack \in AckPacket, ack.ack_currBlock <= End(e), Start(ack.ack_currBlock) <= m,
         NEW cuts, NEW f \in onAck(e, ack, cuts)
  PROVE  SenderHolds(f, m)
<1> DEFINE una == [e EXCEPT !.seqNo_Una = ack.ack_seqNo + 1]
           acked(w, exits) == [Acknowledged(e, ack, w) EXCEPT !.exited = exits]
           after(exits) == { acked(w, exits) : w \in { v \in Windows(e) : MayEnd(v, exits) } }
<1>1. e \in EncoderState
  BY DEF EncoderInv
<1>2. \/ f = e
      \/ f = una
      \/ f \in after(TRUE)
      \/ \E g \in ThenSend(after(FALSE), cuts) : f = RearmTimer(g)
  BY DEF onAck
<1>3. CASE f = una
  BY <1>1, <1>3 DEF SenderHolds, EncoderState
<1>4. ASSUME NEW exits \in BOOLEAN, NEW g \in after(exits)
      PROVE  SenderHolds(g, m) /\ EncoderInv(g)
  <2>1. PICK w \in Windows(e) : g = acked(w, exits)
    OBVIOUS
  <2> DEFINE h == Acknowledged(e, ack, w)
  <2>2. SenderHolds(h, m) /\ EncoderInv(h)
    BY AcknowledgedHolds, AcknowledgedType DEF Follows
  <2>3. g = [h EXCEPT !.exited = exits]
    BY <2>1
  <2> HIDE DEF h
  <2> QED BY <2>2, <2>3 DEF SenderHolds, EncoderInv, EncoderState, End, numBlock
<1>5. CASE f \in after(TRUE)
  BY <1>4, <1>5
<1>6. CASE \E g \in ThenSend(after(FALSE), cuts) : f = RearmTimer(g)
  <2> HIDE DEF after
  <2>1. PICK g \in ThenSend(after(FALSE), cuts) : f = RearmTimer(g)
    BY <1>6
  <2>2. PICK h \in after(FALSE) : g \in onWindowUpdate(h, cuts)
    BY <2>1 DEF ThenSend
  <2>3. SenderHolds(h, m) /\ EncoderInv(h)
    BY <1>4, <2>2
  <2>4. SenderHolds(g, m) /\ g \in EncoderState
    BY <2>2, <2>3, OnWindowUpdateHolds, OnWindowUpdateType DEF Follows, EncoderInv
  <2> QED BY <2>1, <2>4 DEF SenderHolds, RearmTimer, EncoderState
<1> QED BY <1>2, <1>3, <1>5, <1>6

-----------------------------------------------------------------------------
(* The receiver's rows *)

\* The rows of a matrix that hold something.
Taken(matrix) == { x \in Column : ~isEmptyRow(matrix[x]) }

\* A matrix of n true equations, of which sent were handed over.
HoldsRows(matrix, G, n, sent) ==
  /\ IsMatrix(G, matrix)
  /\ n \in Nat /\ sent \in Nat
  /\ Cardinality(Taken(matrix)) = n
  /\ sent <= nDecoded(matrix, n)

Matrices == [Column -> Row]

\* Every matrix of a receiver is one of true equations of its block.
DecoderHolds(d, rs, m) ==
  /\ rs \in Seq(Matrices) /\ Len(rs) = nAllocated(d)
  /\ \A b \in 1 .. nAllocated(d) :
       HoldsRows(rs[b], Equations(d.currBlock + (b - 1), m),
                 d.nPacketsInBlock[b], d.isSentPacketInBlock[b])

LEMMA TakenFacts ==
  ASSUME NEW matrix
  PROVE  IsFiniteSet(Taken(matrix)) /\ Cardinality(Taken(matrix)) \in 0 .. BLKSIZE
<1>1. IsFiniteSet(Column) /\ Cardinality(Column) = BLKSIZE
  <2>1. BLKSIZE - 1 \in Int /\ 0 \in Int /\ 0 <= BLKSIZE - 1 /\ BLKSIZE - 1 - 0 + 1 = BLKSIZE
    BY BlksizeAssumption
  <2> QED BY <2>1, FS_Interval DEF Column
<1>2. Taken(matrix) \subseteq Column
  BY DEF Taken
<1>3. /\ IsFiniteSet(Taken(matrix)) /\ Cardinality(Taken(matrix)) <= Cardinality(Column)
      /\ Cardinality(Taken(matrix)) \in Nat
  BY <1>1, <1>2, FS_Subset, FS_CardinalityType
<1> QED BY <1>1, <1>3, BlksizeAssumption

LEMMA HoldsRowsFacts ==
  ASSUME NEW G, NEW matrix, NEW n, NEW sent, HoldsRows(matrix, G, n, sent)
  PROVE  n \in 0 .. BLKSIZE /\ nDecoded(matrix, n) \in 0 .. n /\ sent \in 0 .. n
<1>1. n \in Nat /\ n \in 0 .. BLKSIZE /\ sent \in Nat /\ sent <= nDecoded(matrix, n)
  BY TakenFacts DEF HoldsRows
<1>2. nDecoded(matrix, n) \in 0 .. n
  BY <1>1, NDecodedIsFirst DEF IsFirstCoded
<1> QED BY <1>1, <1>2

LEMMA EmptyMatrixHolds ==
  ASSUME NEW G, IsSpace(G)
  PROVE  HoldsRows(EmptyMatrix, G, 0, 0)
<1>1. \A x \in Column : EmptyMatrix[x] = EmptyRow /\ isEmptyRow(EmptyMatrix[x])
  BY DEF EmptyMatrix, EmptyRow, isEmptyRow
<1>2. IsMatrix(G, EmptyMatrix)
  BY <1>1 DEF IsMatrix, IsReduced, IsSpace, EmptyMatrix
<1>3. Cardinality(Taken(EmptyMatrix)) = 0
  <2>1. Taken(EmptyMatrix) = {}
    BY <1>1 DEF Taken
  <2> QED BY <2>1, FS_EmptySet
<1>4. nDecoded(EmptyMatrix, 0) >= 0
  BY NDecodedIsFirst DEF IsFirstCoded
<1> QED BY <1>2, <1>3, <1>4 DEF HoldsRows

\* Appending an innovative row adds one row and undoes none that was decoded.
LEMMA AppendedRowsHold ==
  ASSUME NEW G, IsSpace(G), NEW matrix, NEW n, NEW sent, HoldsRows(matrix, G, n, sent),
         NEW row \in G, isInnovative(matrix, row)
  PROVE  HoldsRows(appendCodedPayload(matrix, row), G, n + 1, sent)
<1> DEFINE new == appendCodedPayload(matrix, row)
           f == nDecoded(matrix, n)
<1>1. /\ IsMatrix(G, matrix) /\ n \in Nat /\ sent \in Nat
      /\ Cardinality(Taken(matrix)) = n /\ sent <= f
  BY DEF HoldsRows
<1>2. PICK index \in Column :
           /\ isEmptyRow(matrix[index]) /\ ~isEmptyRow(new[index])
           /\ \A x \in Column : x # index => new[x] = matrix[x]
           /\ IsMatrix(G, new)
  BY <1>1, AppendFillsRow
<1> HIDE DEF new
<1>3. Cardinality(Taken(new)) = n + 1
  <2>1. Taken(new) = Taken(matrix) \cup {index} /\ index \notin Taken(matrix)
    BY <1>2 DEF Taken
  <2>2. Cardinality(Taken(matrix) \cup {index}) = Cardinality(Taken(matrix)) + 1
    BY <2>1, TakenFacts, FS_AddElement
  <2> QED BY <1>1, <2>1, <2>2
<1>4. IsFirstCoded(matrix, n, f) /\ f \in 0 .. n /\ n \in 0 .. BLKSIZE
  <2>1. n \in 0 .. BLKSIZE
    BY HoldsRowsFacts
  <2> QED BY <1>1, <2>1, NDecodedIsFirst DEF IsFirstCoded
<1> HIDE DEF f
<1>5. ASSUME NEW j \in 0 .. f - 1 PROVE IsUnit(new, j)
  <2>1. j \in Column
    BY <1>4, BlksizeAssumption DEF Column
  <2>2. isZeroAndOneAt(matrix[j], j)
    BY <1>4 DEF IsFirstCoded, IsUnit
  <2>3. matrix[j].coeffs[j] = 1
    BY <2>1, <2>2 DEF isZeroAndOneAt
  <2>4. ~isEmptyRow(matrix[j])
    BY <2>1, <2>3 DEF isEmptyRow
  <2>5. new[j] = matrix[j]
    BY <1>2, <2>1, <2>4
  <2> QED BY <2>2, <2>5 DEF IsUnit
<1>6. n + 1 \in Nat /\ f \in 0 .. n + 1
  BY <1>1, <1>4
<1>7. nDecoded(new, n + 1) >= f
  BY <1>5, <1>6, NDecodedAtLeast
<1>8. nDecoded(new, n + 1) \in Nat
  BY <1>6, NDecodedIsFirst DEF IsFirstCoded
<1>9. sent <= nDecoded(new, n + 1)
  <2>1. sent <= f
    BY <1>1 DEF f
  <2> QED BY <1>1, <1>4, <1>7, <1>8, <2>1
<1> QED BY <1>1, <1>2, <1>3, <1>6, <1>9 DEF HoldsRows, new

\* Extracting keeps the equations, and can decode no further.
LEMMA ExtractedRowsHold ==
  ASSUME NEW G, IsSpace(G), NEW matrix, NEW n, NEW sent, HoldsRows(matrix, G, n, sent)
  PROVE  LET first == Extracted(matrix, n) IN
         /\ HoldsRows(first, G, n, nDecoded(first, n))
         /\ ExtractStep(first, n) = first
         /\ nDecoded(first, n) \in sent .. n
<1> DEFINE first == Extracted(matrix, n)
<1>1. /\ IsMatrix(G, matrix) /\ n \in 0 .. BLKSIZE /\ n \in Nat
      /\ Cardinality(Taken(matrix)) = n /\ sent \in Nat /\ sent <= nDecoded(matrix, n)
      /\ nDecoded(matrix, n) \in 0 .. n
  BY HoldsRowsFacts DEF HoldsRows
<1>2. IsMatrix(G, first) /\ SameRows(matrix, first, n) /\ ExtractStep(first, n) = first
  BY <1>1, ExtractedIsFixed
<1> HIDE DEF first
<1>3. Taken(first) = Taken(matrix)
  BY <1>2 DEF Taken, SameRows
<1>4. nDecoded(first, n) \in 0 .. n
  BY <1>1, NDecodedIsFirst DEF IsFirstCoded
<1>5. nDecoded(first, n) >= nDecoded(matrix, n)
  BY <1>2 DEF SameRows
<1>6. HoldsRows(first, G, n, nDecoded(first, n))
  BY <1>1, <1>2, <1>3, <1>4 DEF HoldsRows
<1>7. nDecoded(first, n) \in sent .. n
  BY <1>1, <1>4, <1>5
<1> QED BY <1>2, <1>6, <1>7 DEF first

\* The matrices prolonged with empty ones, up to n of them.
LEMMA GrownRows ==
  ASSUME NEW s \in Seq(Matrices), NEW n \in Nat, n >= Len(s)
  PROVE  LET z == EmptyMatrix IN
         /\ Grown(s, n, z) \in Seq(Matrices)
         /\ Len(Grown(s, n, z)) = n
         /\ \A i \in 1 .. n : Grown(s, n, z)[i] = IF i <= Len(s) THEN s[i] ELSE z
<1> DEFINE z == EmptyMatrix
           S == Matrices
<1>1. z \in S
  <2>1. Equations(0, 0) \subseteq Row /\ IsSpace(Equations(0, 0))
    BY EquationsAreSpace DEF IsSpace
  <2> QED BY <2>1, EmptyMatrixHolds DEF HoldsRows, IsMatrix, Matrices
<1> HIDE DEF z, S
<1> DEFINE t == [i \in 1 .. n - Len(s) |-> z]
<1>2. t \in Seq(S) /\ Len(t) = n - Len(s) /\ \A i \in 1 .. Len(t) : t[i] = z
  BY <1>1
<1> HIDE DEF t
<1>3. Grown(s, n, z) = s \o t
  BY DEF Grown, t
<1>4. /\ s \o t \in Seq(S) /\ Len(s \o t) = n
      /\ \A i \in 1 .. n : (s \o t)[i] = IF i <= Len(s) THEN s[i] ELSE t[i - Len(s)]
  BY <1>2, ConcatProperties DEF S
<1>5. ASSUME NEW i \in 1 .. n PROVE (s \o t)[i] = IF i <= Len(s) THEN s[i] ELSE z
  <2>1. i > Len(s) => i - Len(s) \in 1 .. Len(t)
    BY <1>2
  <2>2. i > Len(s) => t[i - Len(s)] = z
    BY <1>2, <2>1
  <2> QED BY <1>4, <2>2
<1> QED BY <1>3, <1>4, <1>5 DEF z, S

\* What is known of every decoder: its counters, one of each per block.
LEMMA DecoderFacts ==
  ASSUME NEW d, DecoderInv(d)
  PROVE  /\ d.currBlock \in Nat /\ d.currBlock \in BlockNo
         /\ nAllocated(d) \in Nat /\ nAllocated(d) = Len(d.nPacketsInBlock)
         /\ d.nPacketsInBlock \in Seq(Nat) /\ d.isSentPacketInBlock \in Seq(Nat)
         /\ Len(d.isSentPacketInBlock) = nAllocated(d)
         /\ \A b \in 1 .. nAllocated(d) :
              d.nPacketsInBlock[b] \in Nat /\ d.isSentPacketInBlock[b] \in Nat
BY PacketAssumption DEF DecoderInv, DecoderState, BlockNo, nAllocated

\* The counters once blocks were allocated for a packet.
LEMMA AllocatedCounts ==
  ASSUME NEW d, DecoderInv(d), NEW pkt \in DataPacket
  PROVE  /\ nAllocated(allocate(d, pkt)) \in Nat
         /\ nAllocated(d) <= nAllocated(allocate(d, pkt))
         /\ \A b \in 1 .. nAllocated(allocate(d, pkt)) :
              /\ allocate(d, pkt).nPacketsInBlock[b]
                   = IF b <= nAllocated(d) THEN d.nPacketsInBlock[b] ELSE 0
              /\ allocate(d, pkt).isSentPacketInBlock[b]
                   = IF b <= nAllocated(d) THEN d.isSentPacketInBlock[b] ELSE 0
<1> DEFINE n == nAllocatedFor(d, pkt)
           f == allocate(d, pkt)
           l == nAllocated(d)
           c == d.nPacketsInBlock
           s == d.isSentPacketInBlock
<1>1. nAllocated(f) = n /\ n >= l /\ DecoderInv(f)
  BY AllocateType
<1>2. /\ c \in Seq(Nat) /\ s \in Seq(Nat) /\ Len(c) = l /\ Len(s) = l /\ l \in Nat
      /\ n \in Nat
  <2>1. nAllocated(f) \in Nat
    BY <1>1, DecoderFacts
  <2> QED BY <1>1, <2>1, DecoderFacts
<1>3. f.nPacketsInBlock = Grown(c, n, 0) /\ f.isSentPacketInBlock = Grown(s, n, 0)
  BY DEF allocate, DecoderInv, DecoderState
<1> HIDE DEF f, n, l, c, s
<1>4. /\ \A b \in 1 .. n : Grown(c, n, 0)[b] = IF b <= l THEN c[b] ELSE 0
      /\ \A b \in 1 .. n : Grown(s, n, 0)[b] = IF b <= l THEN s[b] ELSE 0
  <2>1. n >= Len(c) /\ n >= Len(s) /\ n \in Nat /\ 0 \in Nat
        /\ c \in Seq(Nat) /\ s \in Seq(Nat)
    BY <1>1, <1>2
  <2>2. \A b \in 1 .. n : Grown(c, n, 0)[b] = IF b <= Len(c) THEN c[b] ELSE 0
    BY <2>1, GrownType
  <2>3. \A b \in 1 .. n : Grown(s, n, 0)[b] = IF b <= Len(s) THEN s[b] ELSE 0
    BY <2>1, GrownType
  <2> QED BY <1>2, <2>2, <2>3
<1>5. \A b \in 1 .. n : /\ f.nPacketsInBlock[b] = IF b <= l THEN c[b] ELSE 0
                        /\ f.isSentPacketInBlock[b] = IF b <= l THEN s[b] ELSE 0
  BY <1>3, <1>4
<1> QED BY <1>1, <1>2, <1>5 DEF f, l, c, s

LEMMA AllocatedHolds ==
  ASSUME NEW d, DecoderInv(d), NEW m \in Nat, NEW rs, DecoderHolds(d, rs, m),
         NEW pkt \in DataPacket
  PROVE  DecoderHolds(allocate(d, pkt), allocateRows(d, rs, pkt), m)
<1> DEFINE n == nAllocatedFor(d, pkt)
           f == allocate(d, pkt)
           l == nAllocated(d)
           g == allocateRows(d, rs, pkt)
<1>1. nAllocated(f) = n /\ n >= l /\ f.currBlock = d.currBlock
  BY AllocateType
<1>2. n \in Nat /\ l \in Nat /\ d.currBlock \in Nat
  BY <1>1, AllocatedCounts, DecoderFacts
<1>3. \A b \in 1 .. n :
        /\ f.nPacketsInBlock[b] = IF b <= l THEN d.nPacketsInBlock[b] ELSE 0
        /\ f.isSentPacketInBlock[b] = IF b <= l THEN d.isSentPacketInBlock[b] ELSE 0
  BY <1>1, AllocatedCounts
<1>4. rs \in Seq(Matrices) /\ Len(rs) = l
  BY DEF DecoderHolds
<1>6. /\ g \in Seq(Matrices) /\ Len(g) = n
      /\ \A b \in 1 .. n : g[b] = IF b <= l THEN rs[b] ELSE EmptyMatrix
  <2>2. g = Grown(rs, n, EmptyMatrix)
    BY DEF allocateRows
  <2> HIDE DEF n, g, l, f
  <2>1. n >= Len(rs) /\ n \in Nat
    BY <1>1, <1>2, <1>4
  <2>3. /\ Grown(rs, n, EmptyMatrix) \in Seq(Matrices) /\ Len(Grown(rs, n, EmptyMatrix)) = n
        /\ \A b \in 1 .. n : Grown(rs, n, EmptyMatrix)[b]
                               = IF b <= Len(rs) THEN rs[b] ELSE EmptyMatrix
    BY <1>4, <2>1, GrownRows
  <2> QED BY <1>4, <2>2, <2>3
<1> HIDE DEF f, g, n, l
<1>7. ASSUME NEW b \in 1 .. n
      PROVE  HoldsRows(g[b], Equations(d.currBlock + (b - 1), m),
                       f.nPacketsInBlock[b], f.isSentPacketInBlock[b])
  <2>1. CASE b <= l
    <3>1. b \in 1 .. l
      BY <1>2, <2>1
    <3> QED BY <1>3, <1>6, <2>1, <3>1 DEF DecoderHolds, l
  <2>2. CASE ~(b <= l)
    <3>1. d.currBlock + (b - 1) \in Nat
      BY <1>2
    <3>2. IsSpace(Equations(d.currBlock + (b - 1), m))
      BY <3>1, EquationsAreSpace
    <3> QED BY <1>3, <1>6, <2>2, <3>2, EmptyMatrixHolds
  <2> QED BY <2>1, <2>2
<1>8. DecoderHolds(f, g, m)
  BY <1>1, <1>6, <1>7 DEF DecoderHolds
<1> QED BY <1>8 DEF f, g

\* A packet whose row is true keeps every matrix true.
LEMMA AppendedHolds ==
  ASSUME NEW d, DecoderInv(d), NEW m \in Nat, NEW rs, DecoderHolds(d, rs, m),
         NEW pkt \in SoundPackets(m)
  PROVE  DecoderHolds(appended(d, rs, pkt).dec, appended(d, rs, pkt).rows, m)
<1> DEFINE f == allocate(d, pkt)
           g == allocateRows(d, rs, pkt)
           b == pkt.blockNo - d.currBlock + 1
           c == f.nPacketsInBlock
           e == [f EXCEPT !.nPacketsInBlock[b] = @ + 1]
           h == [g EXCEPT ![b] = appendCodedPayload(@, RowOf(pkt))]
<1>1. pkt \in DataPacket /\ RowOf(pkt) \in Equations(pkt.blockNo, m)
  BY DEF SoundPackets
<1>2. /\ DecoderHolds(f, g, m) /\ DecoderInv(f) /\ f.currBlock = d.currBlock
      /\ nAllocated(f) = nAllocatedFor(d, pkt)
  BY <1>1, AllocatedHolds, AllocateType
<1>3. CASE ~isAppended(d, rs, pkt)
  BY <1>2, <1>3 DEF appended
<1>4. CASE isAppended(d, rs, pkt)
  <2>1. /\ appended(d, rs, pkt).dec = e /\ appended(d, rs, pkt).rows = h
        /\ pkt.blockNo >= d.currBlock /\ isInnovative(g[b], RowOf(pkt))
    BY <1>4 DEF appended, isAppended
  <2>2. /\ d.currBlock \in Nat /\ pkt.blockNo \in Nat /\ nAllocated(d) \in Nat
        /\ b \in 1 .. nAllocated(f) /\ d.currBlock + (b - 1) = pkt.blockNo
        /\ nAllocated(f) \in Nat /\ nAllocated(f) = Len(c) /\ c \in Seq(Nat)
    <3>1. d.currBlock \in Nat /\ pkt.blockNo \in Nat /\ nAllocated(d) \in Nat
      BY <1>1, DecoderFacts, PacketAssumption DEF DataPacket, BlockNo
    <3>2. nAllocated(f) \in Nat /\ nAllocated(f) = Len(c) /\ c \in Seq(Nat)
      BY <1>2, DecoderFacts
    <3>3. nAllocated(f) = max(nAllocated(d), b)
      BY <1>2 DEF nAllocatedFor
    <3>4. b \in 1 .. max(nAllocated(d), b) /\ d.currBlock + (b - 1) = pkt.blockNo
      BY <2>1, <3>1 DEF max
    <3> HIDE DEF b, c, f
    <3> QED BY <3>1, <3>2, <3>3, <3>4
  <2> DEFINE G == Equations(pkt.blockNo, m)
             new == appendCodedPayload(g[b], RowOf(pkt))
             S == Matrices
  <2>3. IsSpace(G) /\ G \subseteq Row
    BY <2>2, EquationsAreSpace DEF IsSpace
  <2>4. HoldsRows(g[b], G, c[b], f.isSentPacketInBlock[b])
    <3>1. HoldsRows(g[b], Equations(f.currBlock + (b - 1), m), c[b],
                    f.isSentPacketInBlock[b])
      BY <1>2, <2>2 DEF DecoderHolds
    <3> HIDE DEF b, f, g
    <3>2. f.currBlock + (b - 1) = pkt.blockNo
      BY <1>2, <2>2
    <3> QED BY <3>1, <3>2
  <2>5. HoldsRows(new, G, c[b] + 1, f.isSentPacketInBlock[b])
    BY <1>1, <2>1, <2>3, <2>4, AppendedRowsHold
  <2>6. g \in Seq(S) /\ Len(g) = nAllocated(f) /\ new \in S
    BY <1>2, <2>3, <2>5 DEF DecoderHolds, HoldsRows, IsMatrix, Matrices
  <2>7. h = [g EXCEPT ![b] = new]
    OBVIOUS
  <2>8. /\ h \in Seq(S) /\ Len(h) = nAllocated(f)
        /\ \A j \in 1 .. nAllocated(f) : h[j] = IF j = b THEN new ELSE g[j]
    <3> HIDE DEF h, g, new, S, b, f
    <3> QED BY <2>2, <2>6, <2>7, ExceptSeq
  <2>9. /\ e.currBlock = f.currBlock /\ e.isSentPacketInBlock = f.isSentPacketInBlock
        /\ nAllocated(e) = nAllocated(f)
        /\ \A j \in 1 .. nAllocated(f) :
             e.nPacketsInBlock[j] = IF j = b THEN c[b] + 1 ELSE c[j]
    <3> DEFINE s == [c EXCEPT ![b] = c[b] + 1]
    <3>1. f \in DecoderState
      BY <1>2 DEF DecoderInv
    <3>2. c[b] + 1 \in Nat
      <4> HIDE DEF b, c, e, s
      <4>1. c[b] \in Nat
        BY <2>2
      <4> QED BY <4>1
    <3>3. e = [f EXCEPT !.nPacketsInBlock = s]
      OBVIOUS
    <3> HIDE DEF f, b, e
    <3>4. /\ s \in Seq(Nat) /\ Len(s) = Len(c)
          /\ \A j \in 1 .. Len(c) : s[j] = IF j = b THEN c[b] + 1 ELSE c[j]
      <4> HIDE DEF c
      <4> QED BY <2>2, <3>2, ExceptSeq
    <3> HIDE DEF s
    <3>5. /\ e.currBlock = f.currBlock /\ e.isSentPacketInBlock = f.isSentPacketInBlock
          /\ e.nPacketsInBlock = s
      BY <3>1, <3>3 DEF DecoderState
    <3> QED BY <2>2, <3>4, <3>5 DEF nAllocated
  <2> HIDE DEF e, h, c, b, f, g, new
  <2>10. ASSUME NEW j \in 1 .. nAllocated(f)
         PROVE  HoldsRows(h[j], Equations(f.currBlock + (j - 1), m),
                          e.nPacketsInBlock[j], f.isSentPacketInBlock[j])
    <3>1. CASE j = b
      <4>1. f.currBlock + (j - 1) = pkt.blockNo
        BY <1>2, <2>2, <3>1
      <4> QED BY <2>2, <2>5, <2>8, <2>9, <3>1, <4>1
    <3>2. CASE j # b
      BY <1>2, <2>8, <2>9, <3>2 DEF DecoderHolds, c
    <3> QED BY <3>1, <3>2
  <2>11. DecoderHolds(e, h, m)
    BY <2>8, <2>9, <2>10 DEF DecoderHolds, S
  <2> QED BY <2>1, <2>11
<1> QED BY <1>3, <1>4

-----------------------------------------------------------------------------
(* extractData *)

\* What is decodable of the first block was handed over, unless the block before
\* has just been left.
Waits(d, rs) ==
  nAllocated(d) > 0 =>
    LET n    == d.nPacketsInBlock[1]
        sent == d.isSentPacketInBlock[1]
    IN  \/ ExtractStep(rs[1], n) = rs[1] /\ sent = nDecoded(rs[1], n)
        \/ sent = 0 /\ d.currBlock > 0

\* How many packets of the source a decoder has handed over.
Handed(d) == Start(d.currBlock) + SentOfFirst(d)

\* A decoder that was d and is f handed over data, the source's next packets.
HandsOver(d, f, data, m) ==
  /\ ReadAfter(data, Handed(d))
  /\ Handed(d) + Len(data) <= m
  /\ Handed(f) = Handed(d) + Len(data)

LEMMA HandedType ==
  ASSUME NEW d, DecoderInv(d)
  PROVE  /\ Handed(d) \in Nat /\ Start(d.currBlock) \in Nat /\ SentOfFirst(d) \in Nat
         /\ Start(d.currBlock) <= Handed(d)
<1>1. Start(d.currBlock) \in Nat /\ SentOfFirst(d) \in Nat
  BY EndOfIsNumber, StartFacts
<1> QED BY <1>1 DEF Handed

\* A decoded row holds a packet of the source.
LEMMA DecodedIsSource ==
  ASSUME NEW k \in Nat, NEW m \in Nat, m <= Len(Source), NEW first, NEW n, NEW sent,
         HoldsRows(first, Equations(k, m), n, sent), NEW x \in Nat,
         x < nDecoded(first, n)
  PROVE  /\ Start(k) + (x + 1) <= m
         /\ first[x].data = Source[Start(k) + (x + 1)]
<1> DEFINE s == Start(k)
<1>1. s \in Nat /\ Packets(k) \in Data /\ Len(Source) \in Nat
  BY StartFacts, PacketsType, LinkAssumption
<1>2. n \in 0 .. BLKSIZE /\ nDecoded(first, n) \in 0 .. n
  BY HoldsRowsFacts
<1>3. x \in Column /\ x \in 0 .. nDecoded(first, n) - 1
  BY <1>2, BlksizeAssumption DEF Column
<1>4. isZeroAndOneAt(first[x], x)
  BY <1>2, <1>3, NDecodedIsFirst DEF IsFirstCoded, IsUnit
<1>5. first[x] \in TrueRows(Packets(k), m - s)
  BY <1>3 DEF HoldsRows, IsMatrix, Equations
<1> HIDE DEF s
<1>6. first[x].data = Packets(k)[x] /\ x < m - s
  <2>1. m - s \in Int
    BY <1>1
  <2> QED BY <1>1, <1>3, <1>4, <1>5, <2>1, UnitIsPacket
<1>7. s + (x + 1) <= m /\ s + x + 1 <= Len(Source) /\ s + x + 1 = s + (x + 1)
  BY <1>1, <1>6
<1>8. Packets(k)[x] = IF s + x + 1 <= Len(Source) THEN Source[s + x + 1] ELSE 0
  BY <1>3 DEF Packets, s
<1> QED BY <1>6, <1>7, <1>8 DEF s

\* The packets of the rows decoded since the first old were handed over.
IsDecodedSince(data, first, n, old, sent) ==
  /\ old \in Nat /\ sent \in Nat /\ old <= sent /\ sent = nDecoded(first, n)
  /\ data = [i \in 1 .. sent - old |-> first[old + i - 1].data]

LEMMA SymbolSeq ==
  ASSUME NEW l \in Nat, NEW data \in [1 .. l -> Symbol]
  PROVE  data \in Seq(Symbol) /\ Len(data) = l
OBVIOUS

\* The data of the rows decoded since sent comes after what was handed over.
LEMMA ExtractedDataIsSource ==
  ASSUME NEW k \in Nat, NEW m \in Nat, m <= Len(Source), NEW first, NEW n,
         NEW old, NEW sent, HoldsRows(first, Equations(k, m), n, sent),
         Start(k) + old <= m, NEW data, IsDecodedSince(data, first, n, old, sent)
  PROVE  /\ ReadAfter(data, Start(k) + old)
         /\ Len(data) = sent - old
         /\ Start(k) + old + Len(data) <= m
<1> DEFINE s == Start(k)
           l == sent - old
<1>1. /\ old \in Nat /\ sent \in Nat /\ old <= sent /\ sent = nDecoded(first, n)
      /\ data = [i \in 1 .. l |-> first[old + i - 1].data]
  BY DEF IsDecodedSince
<1>2. s \in Nat /\ Len(Source) \in Nat
  BY StartFacts, LinkAssumption
<1>3. s + old <= m
  OBVIOUS
<1>4. l \in Nat
  BY <1>1
<1> HIDE DEF s
<1>5. s \in Nat /\ l \in Nat /\ Len(Source) \in Nat /\ s + old <= m
  BY <1>2, <1>3, <1>4
<1>6. ASSUME NEW i \in 1 .. l
      PROVE  /\ s + old + i <= m
             /\ first[old + i - 1].data = Source[s + old + i]
             /\ s + old + i \in 1 .. Len(Source)
  <2> DEFINE x == old + i - 1
  <2>1. x \in Nat /\ x < nDecoded(first, n) /\ s + (x + 1) = s + old + i
    BY <1>1, <1>5
  <2> HIDE DEF x
  <2>2. Start(k) + (x + 1) <= m /\ first[x].data = Source[Start(k) + (x + 1)]
    BY <2>1, DecodedIsSource
  <2>3. s + old + i <= m /\ first[x].data = Source[s + old + i]
    BY <2>1, <2>2 DEF s
  <2>4. s + old + i \in 1 .. Len(Source)
    <3>1. i \in Nat /\ i >= 1
      BY <1>5
    <3> QED BY <1>1, <1>5, <2>3, <3>1
  <2> QED BY <2>3, <2>4 DEF x
<1>7. \A i \in 1 .. l : data[i] \in Symbol /\ data[i] = Source[s + old + i]
  <2> TAKE i \in 1 .. l
  <2>1. data[i] = Source[s + old + i]
    BY <1>1, <1>6
  <2>2. Source[s + old + i] \in Symbol
    BY <1>6, LinkAssumption
  <2> QED BY <2>1, <2>2
<1>8. data \in [1 .. l -> Symbol]
  BY <1>1, <1>7
<1> HIDE DEF l
<1>9. data \in Seq(Symbol) /\ Len(data) = l
  BY <1>5, <1>8, SymbolSeq
<1>10. s + old + l <= m
  <2>1. CASE l = 0
    BY <1>1, <1>5, <2>1
  <2>2. CASE l > 0
    <3>1. l \in 1 .. l
      BY <1>5, <2>2
    <3> QED BY <1>1, <1>6, <3>1
  <2> QED BY <1>5, <2>1, <2>2
<1>11. ReadAfter(data, s + old)
  <2>1. s + old + Len(data) <= Len(Source)
    <3> DEFINE r == Len(data)
               z == Len(Source)
    <3>1. r = l /\ z \in Nat /\ m <= z
      BY <1>5, <1>9
    <3> HIDE DEF r, z
    <3>2. s + old + r <= z
      BY <1>1, <1>5, <1>10, <3>1
    <3> QED BY <3>2 DEF r, z
  <2> QED BY <1>7, <1>9, <2>1 DEF ReadAfter
<1> QED BY <1>9, <1>10, <1>11 DEF s, l

LEMMA ExtractDataHolds ==
  ASSUME NEW d, DecoderInv(d), EndOf(d) < BLOCKNO_MOD, NEW m \in Nat, m <= Len(Source),
         NEW rs, DecoderHolds(d, rs, m), Handed(d) <= m, NEW out \in extractData(d, rs)
  PROVE  /\ DecoderHolds(out.dec, out.rows, m)
         /\ Waits(out.dec, out.rows)
         /\ HandsOver(d, out.dec, out.data, m)
<1> DEFINE k == d.currBlock
           l == nAllocated(d)
           n == d.nPacketsInBlock[1]
           old == d.isSentPacketInBlock[1]
           G == Equations(k, m)
<1>1. /\ k \in Nat /\ l \in Nat /\ Len(Source) \in Nat /\ BLKSIZE \in Nat
      /\ Handed(d) \in Nat /\ IsSpace(G) /\ rs \in Seq(Matrices) /\ Len(rs) = l
  BY DecoderFacts, HandedType, EquationsAreSpace, LinkAssumption, BlksizeAssumption
  DEF DecoderHolds
<1>2. l > 0 => /\ HoldsRows(rs[1], G, n, old)
               /\ n \in 0 .. BLKSIZE /\ old \in 0 .. n /\ nDecoded(rs[1], n) \in 0 .. n
               /\ SentOfFirst(d) = old
  <2> SUFFICES ASSUME l > 0
               PROVE  /\ HoldsRows(rs[1], G, n, old)
                      /\ n \in 0 .. BLKSIZE /\ old \in 0 .. n
                      /\ nDecoded(rs[1], n) \in 0 .. n
                      /\ SentOfFirst(d) = old
    OBVIOUS
  <2>1. 1 \in 1 .. l /\ k + (1 - 1) = k
    BY <1>1
  <2>2. HoldsRows(rs[1], Equations(k + (1 - 1), m), n, old)
    BY <2>1 DEF DecoderHolds
  <2>3. HoldsRows(rs[1], G, n, old)
    BY <2>1, <2>2
  <2> QED BY <2>3, HoldsRowsFacts DEF SentOfFirst
<1>3. CASE ~canExtract(d)
  <2>1. out = [dec |-> d, rows |-> rs, data |-> <<>>]
    BY <1>3 DEF extractData
  <2>2. out.dec = d /\ out.rows = rs /\ out.data = <<>>
    BY <2>1
  <2>3. Waits(d, rs)
    <3>1. ASSUME l > 0
          PROVE  ExtractStep(rs[1], n) = rs[1] /\ old = nDecoded(rs[1], n)
      <4>1. n = 0
        BY <1>2, <1>3, <3>1 DEF canExtract
      <4>2. nDecoded(rs[1], n) = n /\ old = 0
        BY <1>2, <3>1, <4>1
      <4> QED BY <4>1, <4>2 DEF ExtractStep
    <3> QED BY <3>1 DEF Waits
  <2>4. HandsOver(d, d, <<>>, m)
    BY <1>1 DEF HandsOver, ReadAfter
  <2> QED BY <2>2, <2>3, <2>4
<1>4. CASE canExtract(d)
  <2> DEFINE first == Extracted(rs[1], n)
             sent == nDecoded(first, n)
             f == handOver(d, sent)
             data == [i \in 1 .. sent - old |-> first[old + i - 1].data]
             rows1 == IF isBlockDone(n, sent) THEN Tail(rs) ELSE [rs EXCEPT ![1] = first]
  <2>1. l > 0 /\ out = extracted(d, rs, first)
    BY <1>4 DEF canExtract, extractData
  <2>2. out.dec = f /\ out.rows = rows1 /\ out.data = data
    BY <2>1 DEF extracted
  <2>3. /\ HoldsRows(first, G, n, sent) /\ ExtractStep(first, n) = first
        /\ sent \in old .. n
    BY <1>1, <1>2, <2>1, ExtractedRowsHold
  <2>4. /\ n \in Nat /\ old \in Nat /\ sent \in Nat /\ old <= sent /\ sent <= n
        /\ n <= BLKSIZE
    BY <1>1, <1>2, <2>1, <2>3
  <2>5. /\ ReadAfter(data, Start(k) + old) /\ Len(data) = sent - old
        /\ Start(k) + old + Len(data) <= m
    <3>1. Start(k) + old <= m
      BY <1>2, <2>1 DEF Handed
    <3>2. IsDecodedSince(data, first, n, old, sent)
      BY <2>4 DEF IsDecodedSince
    <3>3. HoldsRows(first, Equations(k, m), n, sent)
      BY <2>3
    <3>4. k \in Nat
      BY <1>1
    <3> HIDE DEF data, sent, first, n, old, k, f, rows1, l, G
    <3> QED BY <3>1, <3>2, <3>3, <3>4, ExtractedDataIsSource
  <2>6. Handed(d) = Start(k) + old /\ Start(k) \in Nat
    BY <1>1, <1>2, <2>1, StartFacts DEF Handed
  <2>7. first \in Matrices
    BY <1>1, <2>3 DEF HoldsRows, IsMatrix, IsSpace, Matrices
  <2> HIDE DEF first, data
  <2>8. CASE isBlockDone(n, sent)
    <3>1. n = BLKSIZE /\ sent = BLKSIZE
      BY <2>8 DEF isBlockDone
    <3>2. (d.currBlock + 1) % BLOCKNO_MOD = d.currBlock + 1
      <4>1. EndOf(d) = k + l
        BY DEF EndOf
      <4>2. k + 1 \in BlockNo /\ k + 1 \in Int
        BY <1>1, <2>1, <4>1, PacketAssumption DEF BlockNo
      <4> QED BY <4>2, ModFacts
    <3>3. /\ f.currBlock = k + 1 /\ f.nPacketsInBlock = Tail(d.nPacketsInBlock)
          /\ f.isSentPacketInBlock = Tail(d.isSentPacketInBlock) /\ rows1 = Tail(rs)
      BY <2>8, <3>2 DEF handOver
    <3> HIDE DEF f, rows1, sent
    <3>4. /\ Tail(rs) \in Seq(Matrices) /\ Len(Tail(rs)) = l - 1
          /\ \A b \in 1 .. l - 1 : Tail(rs)[b] = rs[b + 1]
      BY <1>1, <2>1, EmptySeq, HeadTailProperties
    <3>5. /\ Len(Tail(d.nPacketsInBlock)) = l - 1
          /\ \A b \in 1 .. l - 1 :
               /\ Tail(d.nPacketsInBlock)[b] = d.nPacketsInBlock[b + 1]
               /\ Tail(d.isSentPacketInBlock)[b] = d.isSentPacketInBlock[b + 1]
      <4> DEFINE c == d.nPacketsInBlock
                 s == d.isSentPacketInBlock
      <4>1. c \in Seq(Nat) /\ s \in Seq(Nat) /\ Len(c) = l /\ Len(s) = l
        BY DecoderFacts
      <4> HIDE DEF c, s, l
      <4>2. Len(Tail(c)) = l - 1 /\ \A b \in 1 .. l - 1 : Tail(c)[b] = c[b + 1]
        BY <1>1, <2>1, <4>1, EmptySeq, HeadTailProperties
      <4>3. \A b \in 1 .. l - 1 : Tail(s)[b] = s[b + 1]
        BY <1>1, <2>1, <4>1, EmptySeq, HeadTailProperties
      <4> QED BY <4>2, <4>3 DEF c, s
    <3>6. nAllocated(f) = l - 1
      BY <3>3, <3>5 DEF nAllocated
    <3>7. ASSUME NEW b \in 1 .. l - 1
          PROVE  HoldsRows(rows1[b], Equations(f.currBlock + (b - 1), m),
                           f.nPacketsInBlock[b], f.isSentPacketInBlock[b])
      <4>1. /\ b + 1 \in 1 .. nAllocated(d)
            /\ d.currBlock + ((b + 1) - 1) = f.currBlock + (b - 1)
        BY <1>1, <3>3
      <4> DEFINE j == b + 1
      <4>2. HoldsRows(rs[j], Equations(d.currBlock + (j - 1), m),
                      d.nPacketsInBlock[j], d.isSentPacketInBlock[j])
        BY <4>1 DEF DecoderHolds
      <4>3. HoldsRows(rs[b + 1], Equations(f.currBlock + (b - 1), m),
                      d.nPacketsInBlock[b + 1], d.isSentPacketInBlock[b + 1])
        BY <4>1, <4>2
      <4> QED BY <3>3, <3>4, <3>5, <4>3
    <3>8. DecoderHolds(f, rows1, m)
      BY <3>3, <3>4, <3>6, <3>7 DEF DecoderHolds
    <3>9. SentOfFirst(f) = 0 /\ (l - 1 > 0 => f.isSentPacketInBlock[1] = 0)
      <4>1. ASSUME l - 1 > 0 PROVE f.isSentPacketInBlock[1] = 0
        <5>1. 1 \in 1 .. l - 1 /\ 2 \in 2 .. l /\ 1 + 1 = 2
          BY <1>1, <4>1
        <5>2. Tail(d.isSentPacketInBlock)[1] = d.isSentPacketInBlock[1 + 1]
          BY <3>5, <5>1
        <5> QED BY <3>3, <5>1, <5>2 DEF DecoderInv
      <4> QED BY <3>6, <4>1 DEF SentOfFirst
    <3>10. Waits(f, rows1)
      <4>1. k + 1 > 0
        BY <1>1
      <4> QED BY <3>3, <3>6, <3>9, <4>1 DEF Waits
    <3>11. Handed(f) = Start(k) + old + Len(data)
      <4>1. Start(k + 1) = Start(k) + BLKSIZE
        BY <1>1, StartFacts
      <4>2. Handed(f) = Start(k + 1) + 0
        BY <3>3, <3>9 DEF Handed
      <4> DEFINE s == Start(k)
                 t == Start(k + 1)
                 r == Len(data)
      <4>3. s \in Nat /\ t = s + BLKSIZE /\ r = BLKSIZE - old
        BY <2>5, <2>6, <3>1, <4>1
      <4> HIDE DEF s, t, r, old
      <4>4. t + 0 = s + old + r
        BY <1>1, <2>4, <4>3
      <4> QED BY <4>2, <4>4 DEF s, t, r
    <3>12. HandsOver(d, f, data, m)
      BY <2>5, <2>6, <3>11 DEF HandsOver
    <3> QED BY <2>2, <3>8, <3>10, <3>12
  <2>9. CASE ~isBlockDone(n, sent)
    <3> DEFINE t == [d.isSentPacketInBlock EXCEPT ![1] = sent]
    <3>1. f = [d EXCEPT !.isSentPacketInBlock = t] /\ rows1 = [rs EXCEPT ![1] = first]
      BY <2>9 DEF handOver
    <3>2. d \in DecoderState /\ 1 \in 1 .. l
      BY <1>1, <2>1 DEF DecoderInv
    <3> HIDE DEF f, rows1, sent
    <3>3. \A b \in 1 .. l : t[b] = IF b = 1 THEN sent ELSE d.isSentPacketInBlock[b]
      <4> DEFINE s == d.isSentPacketInBlock
      <4>1. s \in Seq(Nat) /\ Len(s) = l
        BY DecoderFacts
      <4> HIDE DEF s, l, n
      <4>2. \A b \in 1 .. l : [s EXCEPT ![1] = sent][b] = IF b = 1 THEN sent ELSE s[b]
        BY <2>4, <3>2, <4>1, ExceptSeq
      <4> QED BY <4>2 DEF s
    <3> HIDE DEF t
    <3>4. /\ f.currBlock = k /\ f.nPacketsInBlock = d.nPacketsInBlock
          /\ f.isSentPacketInBlock = t /\ nAllocated(f) = l
      BY <3>1, <3>2 DEF DecoderState, nAllocated
    <3>5. /\ rows1 \in Seq(Matrices) /\ Len(rows1) = l
          /\ \A b \in 1 .. l : rows1[b] = IF b = 1 THEN first ELSE rs[b]
      BY <1>1, <2>7, <3>1, <3>2, ExceptSeq
    <3>6. ASSUME NEW b \in 1 .. l
          PROVE  HoldsRows(rows1[b], Equations(k + (b - 1), m),
                           d.nPacketsInBlock[b], t[b])
      <4>1. CASE b = 1
        <5>1. k + (b - 1) = k
          BY <1>1, <4>1
        <5> QED BY <2>3, <3>3, <3>5, <4>1, <5>1
      <4>2. CASE b # 1
        BY <3>3, <3>5, <4>2 DEF DecoderHolds
      <4> QED BY <4>1, <4>2
    <3>7. DecoderHolds(f, rows1, m)
      BY <3>4, <3>5, <3>6 DEF DecoderHolds
    <3>8. Waits(f, rows1)
      BY <2>3, <3>2, <3>3, <3>4, <3>5 DEF Waits, sent
    <3>9. SentOfFirst(f) = sent
      BY <2>1, <3>2, <3>3, <3>4 DEF SentOfFirst
    <3>10. Handed(f) = Start(k) + old + Len(data)
      <4>1. Handed(f) = Start(k) + sent
        BY <3>4, <3>9 DEF Handed
      <4> DEFINE s == Start(k)
                 r == Len(data)
      <4>2. s \in Nat /\ r = sent - old
        BY <2>5, <2>6
      <4> HIDE DEF s, r, old
      <4>3. s + sent = s + old + r
        BY <2>4, <4>2
      <4> QED BY <4>1, <4>3 DEF s, r
    <3>11. HandsOver(d, f, data, m)
      BY <2>5, <2>6, <3>10 DEF HandsOver
    <3> QED BY <2>2, <3>7, <3>8, <3>11
  <2> QED BY <2>8, <2>9
<1> QED BY <1>3, <1>4

\* What a packet that tells the truth makes of a decoder that holds it.
LEMMA HandleInCodedHolds ==
  ASSUME NEW d, DecoderInv(d), EndOf(d) < BLOCKNO_MOD, NEW m \in Nat, m <= Len(Source),
         NEW rs, DecoderHolds(d, rs, m), Handed(d) <= m,
         NEW pkt \in SoundPackets(m), pkt.blockNo + 1 < BLOCKNO_MOD,
         NEW out \in handleInCoded(d, rs, pkt)
  PROVE  /\ DecoderHolds(out.dec, out.rows, m)
         /\ Waits(out.dec, out.rows)
         /\ HandsOver(d, out.dec, out.data, m)
<1> DEFINE a == appended(d, rs, pkt)
<1>1. out \in extractData(a.dec, a.rows)
  BY DEF handleInCoded
<1>2. pkt \in DataPacket
  BY DEF SoundPackets
<1>3. /\ DecoderInv(a.dec) /\ a.dec.currBlock = d.currBlock
      /\ EndOf(a.dec) \in {EndOf(d), pkt.blockNo + 1}
      /\ SentOfFirst(a.dec) = SentOfFirst(d)
  BY <1>2, AppendedType
<1>4. DecoderHolds(a.dec, a.rows, m)
  BY AppendedHolds
<1> HIDE DEF a
<1>5. EndOf(a.dec) < BLOCKNO_MOD
  BY <1>3
<1>6. Handed(a.dec) = Handed(d)
  BY <1>3 DEF Handed
<1>7. Handed(a.dec) <= m
  BY <1>6
<1>8. HandsOver(a.dec, out.dec, out.data, m)
  BY <1>1, <1>3, <1>4, <1>5, <1>7, ExtractDataHolds
<1>9. HandsOver(d, out.dec, out.data, m)
  BY <1>6, <1>8 DEF HandsOver
<1> QED BY <1>1, <1>3, <1>4, <1>5, <1>7, <1>9, ExtractDataHolds

\* What the receiver holds stays true when more is read.
LEMMA DecoderHoldsGrows ==
  ASSUME NEW d, DecoderInv(d), NEW m \in Nat, NEW n \in Nat, m <= n, NEW rs,
         DecoderHolds(d, rs, m)
  PROVE  DecoderHolds(d, rs, n)
<1>1. d.currBlock \in Nat /\ nAllocated(d) \in Nat
  BY DecoderFacts
<1>2. ASSUME NEW b \in 1 .. nAllocated(d)
      PROVE  HoldsRows(rs[b], Equations(d.currBlock + (b - 1), n),
                       d.nPacketsInBlock[b], d.isSentPacketInBlock[b])
  <2> DEFINE k == d.currBlock + (b - 1)
  <2>1. k \in Nat
    BY <1>1
  <2>2. HoldsRows(rs[b], Equations(k, m), d.nPacketsInBlock[b], d.isSentPacketInBlock[b])
    BY DEF DecoderHolds
  <2> HIDE DEF k
  <2>3. Equations(k, m) \subseteq Equations(k, n)
    BY <2>1, EquationsGrow
  <2>4. HoldsRows(rs[b], Equations(k, n), d.nPacketsInBlock[b], d.isSentPacketInBlock[b])
    BY <2>2, <2>3 DEF HoldsRows, IsMatrix
  <2> QED BY <2>4 DEF k
<1> QED BY <1>2 DEF DecoderHolds

-----------------------------------------------------------------------------
(* The invariant *)

StreamInv ==
  /\ LinkShape
  /\ SenderHolds(enc, nread)
  /\ dataChan \in Seq(SoundPackets(nread))
  /\ DecoderHolds(dec, rows, nread)
  /\ Waits(dec, rows)
  /\ ReadAfter(delivered, 0)
  /\ Len(delivered) = Handed(dec)
  /\ Len(delivered) <= nread

LEMMA StreamFacts ==
  ASSUME StreamInv
  PROVE  /\ EncoderInv(enc) /\ DecoderInv(dec)
         /\ nread \in Nat /\ nread <= Len(Source) /\ Len(Source) \in Nat
BY LinkAssumption DEF StreamInv, LinkShape

\* Two new ends hold nothing that is not true.
LEMMA InitStream == Init => StreamInv
<1> SUFFICES ASSUME Init PROVE StreamInv
  OBVIOUS
<1>1. LinkShape /\ BLKSIZE \in Nat /\ Len(Source) \in Nat
  BY InitShape, BlksizeAssumption, LinkAssumption
<1>2. /\ enc.blocks = <<>> /\ enc.currBlock = 0 /\ enc.dataToSend = <<>>
      /\ nread = 0 /\ delivered = <<>> /\ rows = <<>> /\ dataChan = <<>>
  BY DEF Init, encoderStateInit
<1>3. dec.currBlock = 0 /\ dec.nPacketsInBlock = <<>> /\ dec.isSentPacketInBlock = <<>>
  BY DEF Init, decoderStateInit
<1>4. Start(0) = 0
  BY StartFacts
<1>5. SenderHolds(enc, nread)
  <2>1. Len(enc.blocks) = 0 /\ enc.dataToSend \in Seq(SoundPackets(nread))
    BY <1>2
  <2>2. HoldsRead(enc.blocks, enc.currBlock, nread)
    BY <1>2, <1>4, <2>1 DEF HoldsRead
  <2> QED BY <2>1, <2>2 DEF SenderHolds
<1>6. nAllocated(dec) = 0
  BY <1>3 DEF nAllocated
<1>7. DecoderHolds(dec, rows, nread) /\ Waits(dec, rows)
  BY <1>2, <1>6 DEF DecoderHolds, Waits
<1>8. Handed(dec) = 0
  BY <1>3, <1>4, <1>6 DEF Handed, SentOfFirst
<1>9. ReadAfter(delivered, 0) /\ Len(delivered) = 0
  BY <1>1, <1>2 DEF ReadAfter
<1>10. dataChan \in Seq(SoundPackets(nread))
  BY <1>2
<1> QED BY <1>1, <1>2, <1>5, <1>7, <1>8, <1>9, <1>10 DEF StreamInv

\* A step of the sender that leaves what it read, the receiver and the DATA packets.
LEMMA SenderStepStream ==
  ASSUME StreamInv, LinkShape', UNCHANGED <<nread, dec, rows, delivered>>,
         SenderHolds(enc', nread), dataChan' \in Seq(SoundPackets(nread))
  PROVE  StreamInv'
BY DEF StreamInv, SenderHolds, DecoderHolds, HoldsRead, HoldsRows, Waits, Handed, SentOfFirst

LEMMA TimeOutStream == StreamInv /\ TimeOut => StreamInv'
<1> SUFFICES ASSUME StreamInv, TimeOut PROVE StreamInv'
  OBVIOUS
<1>1. LinkShape'
  BY TimeOutShape DEF StreamInv
<1>2. SenderHolds(enc', nread)
  BY OnTimeOutHolds, StreamFacts DEF TimeOut, StreamInv
<1> QED BY <1>1, <1>2, SenderStepStream DEF TimeOut, StreamInv

\* An ACK only frees what was read: it is not ahead of the receiver, which handed
\* over all that is before it.
LEMMA ReceiveAckStream == StreamInv /\ ReceiveAck => StreamInv'
<1> SUFFICES ASSUME StreamInv, ReceiveAck PROVE StreamInv'
  OBVIOUS
<1>1. PICK i \in Arrivals(ackChan, AckReorder) : enc' \in onAck(enc, ackChan[i], Cuts)
  BY DEF ReceiveAck
<1> DEFINE ack == ackChan[i]
<1>2. ack \in AckPacket /\ ack.ack_currBlock <= dec.currBlock
  <2>1. i \in 1 .. Len(ackChan) /\ ackChan \in Seq(AcksUpTo(dec.currBlock))
    BY DEF Arrivals, StreamInv, LinkShape
  <2>2. ackChan[i] \in AcksUpTo(dec.currBlock)
    BY <2>1
  <2> QED BY <2>2 DEF AcksUpTo
<1>3. enc' \in onAck(enc, ack, Cuts)
  BY <1>1
<1> HIDE DEF ack
<1>4. LinkShape'
  BY ReceiveAckShape DEF StreamInv
<1>5. /\ ack.ack_currBlock \in Nat /\ dec.currBlock \in Nat
      /\ EndOf(dec) \in Nat /\ dec.currBlock <= EndOf(dec) /\ End(enc) \in Nat
      /\ EndOf(dec) <= End(enc)
  BY <1>2, StreamFacts, EndIsNumber, EndOfIsNumber, PacketAssumption
  DEF AckPacket, BlockNo, StreamInv, LinkShape
<1>6. ack.ack_currBlock <= End(enc)
  BY <1>2, <1>5
<1>7. Start(ack.ack_currBlock) <= nread
  <2> DEFINE s == Start(ack.ack_currBlock)
             t == Start(dec.currBlock)
             h == Handed(dec)
             l == Len(delivered)
  <2>1. s <= t
    BY <1>2, <1>5, StartGrows
  <2>2. s \in Nat /\ t \in Nat /\ h \in Nat /\ t <= h
    BY <1>5, StartFacts, StreamFacts, HandedType
  <2>3. l = h /\ l <= nread
    BY DEF StreamInv
  <2>4. nread \in Nat
    BY StreamFacts
  <2> HIDE DEF s, t, h, l
  <2>5. s <= nread
    BY <2>1, <2>2, <2>3, <2>4
  <2> QED BY <2>5 DEF s
<1>8. SenderHolds(enc, nread) /\ dataChan \in Seq(SoundPackets(nread))
  BY DEF StreamInv
<1>9. SenderHolds(enc', nread)
  BY <1>2, <1>3, <1>6, <1>7, <1>8, OnAckHolds, StreamFacts
<1> QED BY <1>4, <1>8, <1>9, SenderStepStream DEF ReceiveAck

\* What is read comes after what was read, and stays true of it.
LEMMA ReadTcpStream == StreamInv /\ ReadTcp => StreamInv'
<1> SUFFICES ASSUME StreamInv, ReadTcp PROVE StreamInv'
  OBVIOUS
<1>1. PICK n \in 1 .. min(MaxRead, Len(Source) - nread) :
        /\ enc' \in handleInClear(enc, SubSeq(Source, nread + 1, nread + n), Cuts)
        /\ nread' = nread + n
  BY DEF ReadTcp
<1> DEFINE packets == SubSeq(Source, nread + 1, nread + n)
<1>2. /\ nread \in Nat /\ n \in 1 .. BLKSIZE /\ nread + n <= Len(Source)
      /\ Len(Source) \in Nat
  BY <1>1, StreamFacts, EncoderAssumption, BlksizeAssumption DEF min
<1>3. /\ packets \in Seq(Symbol) /\ Len(packets) = n
      /\ \A j \in 1 .. n : packets[j] = Source[nread + j]
  BY <1>2, LinkAssumption, SubSeqProperties, ElementOfSeq
<1>4. enc' \in handleInClear(enc, packets, Cuts)
  BY <1>1
<1> HIDE DEF packets
<1>5. ReadAfter(packets, nread)
  BY <1>2, <1>3 DEF ReadAfter
<1>6. LinkShape'
  BY ReadTcpShape DEF StreamInv
<1>7. End(enc) \in Nat /\ End(enc) <= nread
  BY StreamFacts, EndIsNumber DEF StreamInv, LinkShape
<1>8. End(enc) + Len(packets) < BLOCKNO_MOD /\ Len(packets) \in 0 .. BLKSIZE
  BY <1>2, <1>3, <1>7, LinkAssumption, PacketAssumption
<1>9. SenderHolds(enc', nread + Len(packets))
  <2>1. SenderHolds(enc, nread)
    BY DEF StreamInv
  <2> QED BY <1>4, <1>5, <1>8, <2>1, StreamFacts, HandleInClearHolds
<1>10. /\ SenderHolds(enc', nread') /\ nread' \in Nat /\ nread <= nread'
  BY <1>1, <1>2, <1>3, <1>9
<1>11. UNCHANGED <<dec, rows, delivered, dataChan>>
  BY DEF ReadTcp
<1>12. dataChan' \in Seq(SoundPackets(nread'))
  <2>1. SoundPackets(nread) \subseteq SoundPackets(nread')
    BY <1>2, <1>10, SoundPacketsGrow
  <2> QED BY <1>11, <2>1, SeqMonotonic DEF StreamInv
<1>13. DecoderHolds(dec, rows, nread')
  BY <1>2, <1>10, DecoderHoldsGrows, StreamFacts DEF StreamInv
<1>14. DecoderHolds(dec', rows', nread')
  BY <1>11, <1>13
<1>15. Waits(dec', rows') /\ ReadAfter(delivered', 0) /\ Len(delivered') = Handed(dec')
  BY <1>11 DEF StreamInv
<1>16. Len(delivered') <= nread'
  <2>1. Len(delivered) <= nread /\ Len(delivered) \in Nat
    BY DEF StreamInv, ReadAfter
  <2> DEFINE l == Len(delivered)
  <2>2. l \in Nat /\ l <= nread
    BY <2>1
  <2> HIDE DEF l
  <2>3. l <= nread'
    BY <1>2, <1>10, <2>2
  <2> QED BY <1>11, <2>3 DEF l
<1> QED BY <1>6, <1>10, <1>12, <1>14, <1>15, <1>16 DEF StreamInv

LEMMA ReadTcpFailsStream == StreamInv /\ ReadTcpFails => StreamInv'
<1> SUFFICES ASSUME StreamInv, ReadTcpFails PROVE StreamInv'
  OBVIOUS
<1>1. enc' \in handleInClear(enc, <<>>, Cuts)
  BY DEF ReadTcpFails
<1>2. LinkShape' /\ SenderHolds(enc, nread) /\ dataChan \in Seq(SoundPackets(nread))
  BY ReadTcpFailsShape DEF StreamInv
<1> DEFINE packets == <<>>
<1>3. packets \in Seq(Symbol) /\ Len(packets) = 0
  OBVIOUS
<1>4. ReadAfter(packets, nread)
  BY <1>3, StreamFacts DEF ReadAfter
<1>5. End(enc) \in Nat /\ End(enc) < BLOCKNO_MOD
  BY StreamFacts, EndIsNumber DEF EncoderInv
<1>6. enc' \in handleInClear(enc, packets, Cuts)
  BY <1>1
<1> HIDE DEF packets
<1>7. End(enc) + Len(packets) < BLOCKNO_MOD /\ Len(packets) \in 0 .. BLKSIZE
  BY <1>3, <1>5, BlksizeAssumption
<1>8. SenderHolds(enc', nread + Len(packets))
  BY <1>2, <1>4, <1>6, <1>7, StreamFacts, HandleInClearHolds
<1>9. nread + Len(packets) = nread
  BY <1>3, StreamFacts
<1>10. SenderHolds(enc', nread)
  BY <1>8, <1>9
<1> QED BY <1>2, <1>10, SenderStepStream DEF ReadTcpFails

\* The network gets what the encoder queued.
LEMMA FlushStream == StreamInv /\ Flush => StreamInv'
<1> SUFFICES ASSUME StreamInv, Flush PROVE StreamInv'
  OBVIOUS
<1>1. LinkShape' /\ SenderHolds(enc, nread) /\ dataChan \in Seq(SoundPackets(nread))
  BY FlushShape DEF StreamInv
<1>2. enc' = flush(enc) /\ dataChan' = Carry(dataChan, enc.dataToSend)
      /\ UNCHANGED <<nread, dec, rows, delivered>>
  BY DEF Flush
<1>3. /\ flush(enc).currBlock = enc.currBlock /\ flush(enc).blocks = enc.blocks
      /\ flush(enc).dataToSend = <<>>
  BY StreamFacts DEF flush, EncoderInv, EncoderState
<1>4. SenderHolds(enc', nread)
  <2>1. <<>> \in Seq(SoundPackets(nread))
    OBVIOUS
  <2> QED BY <1>1, <1>2, <1>3, <2>1 DEF SenderHolds
<1>5. dataChan' \in Seq(SoundPackets(nread))
  BY <1>1, <1>2, CarryType DEF SenderHolds
<1> QED BY <1>1, <1>2, <1>4, <1>5, SenderStepStream

\* What is written to the socket comes after what was.
LEMMA DeliveredGrows ==
  ASSUME NEW s, ReadAfter(s, 0), NEW t, NEW n \in Nat, n = Len(s), ReadAfter(t, n)
  PROVE  ReadAfter(s \o t, 0) /\ Len(s \o t) = n + Len(t)
<1> DEFINE l == Len(t)
           z == Len(Source)
<1>1. s \in Seq(Symbol) /\ t \in Seq(Symbol) /\ l \in Nat /\ z \in Nat
  BY LinkAssumption DEF ReadAfter
<1>2. n + l <= z
  BY DEF ReadAfter
<1>3. s \o t \in Seq(Symbol) /\ Len(s \o t) = n + l
      /\ \A j \in 1 .. n + l : (s \o t)[j] = IF j <= n THEN s[j] ELSE t[j - n]
  BY <1>1, ConcatProperties
<1>4. ASSUME NEW j \in 1 .. n + l PROVE (s \o t)[j] = Source[j]
  <2>1. CASE j <= n
    <3>1. j \in 1 .. n /\ 0 + j = j
      BY <1>1, <2>1
    <3>2. s[j] = Source[0 + j]
      BY <3>1 DEF ReadAfter
    <3> QED BY <1>3, <2>1, <3>1, <3>2
  <2>2. CASE j > n
    <3>1. j - n \in 1 .. l /\ n + (j - n) = j /\ ~(j <= n)
      BY <1>1, <2>2
    <3>2. t[j - n] = Source[n + (j - n)]
      BY <3>1 DEF ReadAfter
    <3> QED BY <1>3, <3>1, <3>2
  <2> QED BY <1>1, <2>1, <2>2
<1>5. \A j \in 1 .. Len(s \o t) : (s \o t)[j] = Source[0 + j]
  <2> TAKE j \in 1 .. Len(s \o t)
  <2>1. j \in 1 .. n + l /\ 0 + j = j
    BY <1>1, <1>3
  <2> QED BY <1>4, <2>1
<1>6. 0 + Len(s \o t) <= Len(Source)
  <2> HIDE DEF l
  <2>1. 0 + (n + l) <= z
    BY <1>1, <1>2
  <2> QED BY <1>3, <2>1 DEF z
<1> QED BY <1>3, <1>5, <1>6 DEF ReadAfter

\* The receiver writes the next packets of the source.
LEMMA ReceiveDataStream ==
  StreamInv /\ ReceiveData => StreamInv' /\ Len(delivered) <= Len(delivered')
<1> SUFFICES ASSUME StreamInv, ReceiveData
             PROVE  StreamInv' /\ Len(delivered) <= Len(delivered')
  OBVIOUS
<1>1. PICK i \in Arrivals(dataChan, DataReorder) :
        \E out \in handleInCoded(dec, rows, dataChan[i]) :
          /\ dec' = out.dec /\ rows' = out.rows /\ delivered' = delivered \o out.data
          /\ dataChan' \in Afters(dataChan, i)
          /\ UNCHANGED <<enc, phase, nread>>
  BY DEF ReceiveData
<1>2. PICK out \in handleInCoded(dec, rows, dataChan[i]) :
        /\ dec' = out.dec /\ rows' = out.rows /\ delivered' = delivered \o out.data
        /\ dataChan' \in Afters(dataChan, i)
        /\ UNCHANGED <<enc, phase, nread>>
  BY <1>1
<1> DEFINE pkt == dataChan[i]
<1>3. pkt \in SoundPackets(nread) /\ pkt.blockNo < End(enc) /\ pkt.blockNo \in Nat
  <2>1. i \in 1 .. Len(dataChan) /\ dataChan \in Seq(PacketsBelow(End(enc)))
        /\ dataChan \in Seq(SoundPackets(nread))
    BY DEF Arrivals, StreamInv, LinkShape
  <2>2. dataChan[i] \in PacketsBelow(End(enc)) /\ dataChan[i] \in SoundPackets(nread)
    BY <2>1
  <2> QED BY <2>2, PacketAssumption DEF PacketsBelow, DataPacket, BlockNo
<1>4. out \in handleInCoded(dec, rows, pkt)
  OBVIOUS
<1> HIDE DEF pkt
<1>5. EndOf(dec) < BLOCKNO_MOD /\ pkt.blockNo + 1 < BLOCKNO_MOD
  <2>1. End(enc) \in Nat /\ EndOf(dec) \in Nat /\ End(enc) < BLOCKNO_MOD
        /\ EndOf(dec) <= End(enc)
    BY StreamFacts, EndIsNumber, EndOfIsNumber DEF StreamInv, LinkShape, EncoderInv
  <2> QED BY <1>3, <2>1, PacketAssumption
<1>6. DecoderHolds(dec, rows, nread) /\ Handed(dec) <= nread
  BY DEF StreamInv
<1>7. /\ DecoderHolds(out.dec, out.rows, nread) /\ Waits(out.dec, out.rows)
      /\ HandsOver(dec, out.dec, out.data, nread)
  BY <1>3, <1>4, <1>5, <1>6, StreamFacts, HandleInCodedHolds
<1>8. /\ ReadAfter(out.data, Handed(dec)) /\ Handed(dec) + Len(out.data) <= nread
      /\ Handed(out.dec) = Handed(dec) + Len(out.data)
  BY <1>7 DEF HandsOver
<1>9. ReadAfter(delivered', 0) /\ Len(delivered') = Handed(dec) + Len(out.data)
  <2> DEFINE h == Handed(dec)
  <2>1. h \in Nat /\ h = Len(delivered) /\ ReadAfter(delivered, 0)
    BY StreamFacts, HandedType DEF StreamInv
  <2>2. ReadAfter(out.data, h)
    BY <1>8
  <2> HIDE DEF h
  <2>3. ReadAfter(delivered \o out.data, 0) /\ Len(delivered \o out.data) = h + Len(out.data)
    BY <2>1, <2>2, DeliveredGrows
  <2> QED BY <1>2, <2>3 DEF h
<1>10. Len(delivered') = Handed(dec') /\ Len(delivered') <= nread'
  BY <1>2, <1>8, <1>9
<1>11. LinkShape'
  BY ReceiveDataShape DEF StreamInv
<1>12. SenderHolds(enc', nread') /\ dataChan' \in Seq(SoundPackets(nread'))
  BY <1>2, AftersType DEF StreamInv
<1>13. DecoderHolds(dec', rows', nread') /\ Waits(dec', rows')
  BY <1>2, <1>7
<1>14. Len(delivered) <= Len(delivered')
  <2> DEFINE h == Handed(dec)
             l == Len(out.data)
  <2>1. h \in Nat /\ l \in Nat
    BY <1>8, StreamFacts, HandedType DEF ReadAfter
  <2>2. Len(delivered) = h /\ Len(delivered') = h + l
    BY <1>9 DEF StreamInv
  <2> HIDE DEF h, l
  <2>3. h <= h + l
    BY <2>1
  <2> QED BY <2>2, <2>3
<1> QED BY <1>9, <1>10, <1>11, <1>12, <1>13, <1>14 DEF StreamInv

LEMMA LoseDataStream == StreamInv /\ LoseData => StreamInv'
<1> SUFFICES ASSUME StreamInv, LoseData PROVE StreamInv'
  OBVIOUS
<1>1. dataChan' \in Seq(SoundPackets(nread)) /\ SenderHolds(enc, nread) /\ enc' = enc
  BY RemoveAtType DEF StreamInv, LoseData, Arrivals
<1> QED BY <1>1, LoseDataShape, SenderStepStream DEF LoseData, StreamInv

LEMMA LoseAckStream == StreamInv /\ LoseAck => StreamInv'
BY LoseAckShape, SenderStepStream DEF LoseAck, StreamInv

\* Every step keeps it.
LEMMA NextStream == StreamInv /\ [Next]_vars => StreamInv'
<1> SUFFICES ASSUME StreamInv, [Next]_vars PROVE StreamInv'
  OBVIOUS
<1>1. CASE UNCHANGED vars
  <2>1. LinkShape'
    BY <1>1, NextShape DEF StreamInv
  <2> QED BY <1>1, <2>1, SenderStepStream DEF StreamInv, vars
<1>2. CASE Next
  BY <1>2, TimeOutStream, ReceiveAckStream, ReadTcpStream, ReadTcpFailsStream, FlushStream,
     ReceiveDataStream, LoseDataStream, LoseAckStream DEF Next
<1> QED BY <1>1, <1>2

LEMMA StreamInvHolds == Spec => []StreamInv
BY InitStream, NextStream, PTL DEF Spec

-----------------------------------------------------------------------------
(* The theorems *)

\* Decodable data waits in the receiver only behind a block it has just left: each
\* packet of the first block hands over all that can be decoded of it.
THEOREM WaitsOnlyBehindBlockHolds == Spec => []WaitsOnlyBehindBlock
<1>1. StreamInv => WaitsOnlyBehindBlock
  <2> DEFINE n == dec.nPacketsInBlock[1]
             sent == dec.isSentPacketInBlock[1]
  <2> SUFFICES ASSUME StreamInv, nAllocated(dec) > 0
               PROVE  \/ sent = nDecoded(Extracted(rows[1], n), n)
                      \/ sent = 0 /\ dec.currBlock > 0
    BY DEF WaitsOnlyBehindBlock
  <2>1. \/ ExtractStep(rows[1], n) = rows[1] /\ sent = nDecoded(rows[1], n)
        \/ sent = 0 /\ dec.currBlock > 0
    BY DEF StreamInv, Waits
  <2> DEFINE k == dec.currBlock + (1 - 1)
             G == Equations(k, nread)
  <2>2. k \in Nat /\ 1 \in 1 .. nAllocated(dec)
    BY StreamFacts, DecoderFacts
  <2>3. HoldsRows(rows[1], G, n, sent)
    BY <2>2 DEF StreamInv, DecoderHolds
  <2>4. IsSpace(G)
    BY <2>2, StreamFacts, EquationsAreSpace
  <2> HIDE DEF G, k, n, sent
  <2>5. IsMatrix(G, rows[1]) /\ n \in 0 .. BLKSIZE
    BY <2>3, HoldsRowsFacts DEF HoldsRows
  <2>6. ExtractStep(rows[1], n) = rows[1] => Extracted(rows[1], n) = rows[1]
    BY <2>4, <2>5, ExtractedOfFixed
  <2> QED BY <2>1, <2>6 DEF n, sent
<1> QED BY <1>1, StreamInvHolds, PTL

\* The model's own sum of a row's coefficients times the source.
LEMMA CombinationIsDot ==
  ASSUME NEW b, NEW row \in Row, NEW d \in Data, \A x \in Column : SourceOf(b, x) = d[x]
  PROVE  CombinationOf(b, row) = Dot(row.coeffs, d)
<1> DEFINE c == row.coeffs
           w == Terms(c, d)
           g == Sums(w, BLKSIZE)
           Rule(f) == [n \in 0 .. BLKSIZE |->
                        IF n = 0 THEN 0
                        ELSE gadd(f[n - 1], gmul(row.coeffs[n - 1], SourceOf(b, n - 1)))]
           E == CHOOSE f : f = Rule(f)
<1>1. BLKSIZE \in Nat /\ 0 \in Field /\ c \in Vector
  BY BlksizeAssumption, Halves DEF Row
<1>2. IsSum(w, BLKSIZE, g)
  BY <1>1, TermsType
<1>3. ASSUME NEW n \in 1 .. BLKSIZE
      PROVE  w[n] = gmul(row.coeffs[n - 1], SourceOf(b, n - 1))
  <2>1. n - 1 \in Column
    BY <1>1 DEF Column
  <2> QED BY <2>1 DEF Terms
<1> HIDE DEF w, g
<1>4. g = Rule(g)
  BY <1>1, <1>2, <1>3 DEF IsSum, gadd
<1>5. E = Rule(E)
  <2> HIDE DEF Rule
  <2> QED BY <1>4, Zenon
<1>6. CombinationOf(b, row) = E[BLKSIZE]
  BY DEF CombinationOf
<1> HIDE DEF E
<1>7. E[0] = 0 /\ \A n \in 1 .. BLKSIZE : E[n] = xor[E[n - 1]][w[n]]
  BY <1>1, <1>3, <1>5 DEF gadd
<1> DEFINE S == { n \in 0 .. BLKSIZE : E[n] = g[n] }
<1>8. 0 \in S
  BY <1>1, <1>2, <1>7 DEF IsSum
<1>9. ASSUME NEW n \in 1 .. BLKSIZE, n - 1 \in S PROVE n \in S
  BY <1>2, <1>7, <1>9 DEF IsSum
<1> HIDE DEF S
<1>10. \A n \in 0 .. BLKSIZE : n \in S
  BY <1>1, <1>8, <1>9, InductionUpTo
<1>11. E[BLKSIZE] = g[BLKSIZE]
  BY <1>1, <1>10 DEF S
<1> QED BY <1>6, <1>11 DEF Dot, w, g

\* A row that is true of what was read is the combination it names.
LEMMA TrueRowIsCombination ==
  ASSUME StreamInv, NEW b \in 1 .. nAllocated(dec),
         NEW row \in Equations(dec.currBlock + (b - 1), nread)
  PROVE  row.data = CombinationOf(b, row)
<1> DEFINE k == dec.currBlock + (b - 1)
           s == Start(k)
           d == [x \in Column |-> SourceOf(b, x)]
<1>1. k \in Nat /\ nread \in Nat /\ nread <= Len(Source) /\ Len(Source) \in Nat
  BY StreamFacts, DecoderFacts
<1>2. \A x \in Column : SourceOf(b, x) = IF s + x + 1 <= nread THEN Source[s + x + 1] ELSE 0
  BY DEF SourceOf, Start
<1>3. s \in Nat /\ Packets(k) \in Data /\ row \in TrueRows(Packets(k), nread - s)
  BY <1>1, StartFacts, PacketsType DEF Equations
<1> HIDE DEF k, s
<1>4. ASSUME NEW x \in Column
      PROVE  SourceOf(b, x) \in Field
             /\ gmul(row.coeffs[x], Packets(k)[x]) = gmul(row.coeffs[x], SourceOf(b, x))
  <2>1. x \in Nat /\ Packets(k)[x] \in Field
    BY <1>3, ColumnIsNat DEF Data
  <2>2. CASE s + x + 1 <= nread
    <3>1. SourceOf(b, x) = Source[s + x + 1] /\ s + x + 1 <= Len(Source)
      BY <1>1, <1>2, <1>3, <2>1, <2>2
    <3>2. Packets(k)[x] = Source[s + x + 1]
      BY <3>1 DEF Packets, s
    <3> QED BY <2>1, <3>1, <3>2
  <2>3. CASE ~(s + x + 1 <= nread)
    <3>1. SourceOf(b, x) = 0 /\ x >= nread - s
      BY <1>1, <1>2, <1>3, <2>1, <2>3
    <3>2. row.coeffs[x] = 0
      BY <1>3, <3>1 DEF TrueRows
    <3> QED BY <2>1, <3>1, <3>2, MulZero, Halves
  <2> QED BY <2>2, <2>3
<1>5. d \in Data /\ \A x \in Column : d[x] = SourceOf(b, x)
  BY <1>4 DEF Data
<1> HIDE DEF d
<1>6. row \in Row /\ row.data = Dot(row.coeffs, Packets(k))
  BY <1>3 DEF TrueRows
<1>7. Dot(row.coeffs, Packets(k)) = Dot(row.coeffs, d)
  BY <1>4, <1>5, DotAgrees
<1> QED BY <1>5, <1>6, <1>7, CombinationIsDot

\* Every row the receiver keeps is a true equation of the source: it holds the
\* combination its coefficients name, whatever the network did to the packets.
THEOREM RowsConsistentHolds == Spec => []RowsConsistent
<1>1. StreamInv => RowsConsistent
  <2> SUFFICES ASSUME StreamInv PROVE RowsConsistent
    OBVIOUS
  <2>1. DOMAIN rows = 1 .. nAllocated(dec) /\ Len(rows) = nAllocated(dec)
    BY DEF StreamInv, DecoderHolds
  <2>2. ASSUME NEW b \in 1 .. nAllocated(dec)
        PROVE  /\ \A x \in Column :
                    LET row == rows[b][x] IN
                    /\ row.data = CombinationOf(b, row)
                    /\ ~isEmptyRow(row) => /\ row.coeffs[x] = 1
                                           /\ \A y \in 0 .. x - 1 : row.coeffs[y] = 0
               /\ Cardinality({ x \in Column : ~isEmptyRow(rows[b][x]) })
                    = dec.nPacketsInBlock[b]
               /\ \A x \in 0 .. dec.isSentPacketInBlock[b] - 1 : isZeroAndOneAt(rows[b][x], x)
    <3> DEFINE n == dec.nPacketsInBlock[b]
               sent == dec.isSentPacketInBlock[b]
               G == Equations(dec.currBlock + (b - 1), nread)
    <3>1. HoldsRows(rows[b], G, n, sent)
      BY DEF StreamInv, DecoderHolds
    <3>2. ASSUME NEW x \in Column
          PROVE  LET row == rows[b][x] IN
                 /\ row.data = CombinationOf(b, row)
                 /\ ~isEmptyRow(row) => /\ row.coeffs[x] = 1
                                        /\ \A y \in 0 .. x - 1 : row.coeffs[y] = 0
      <4>1. rows[b][x] \in G /\ IsReduced(rows[b])
        BY <3>1 DEF HoldsRows, IsMatrix
      <4>2. rows[b][x].data = CombinationOf(b, rows[b][x])
        BY <4>1, TrueRowIsCombination
      <4>3. \A y \in 0 .. x - 1 : y \in Column /\ y < x
        BY ColumnIsNat, BlksizeAssumption DEF Column
      <4> QED BY <4>1, <4>2, <4>3 DEF IsReduced
    <3> HIDE DEF G, n, sent
    <3>3. Cardinality({ x \in Column : ~isEmptyRow(rows[b][x]) }) = n
      BY <3>1 DEF HoldsRows, Taken
    <3>4. ASSUME NEW x \in 0 .. sent - 1 PROVE isZeroAndOneAt(rows[b][x], x)
      <4>1. n \in Nat /\ sent \in Nat /\ sent <= nDecoded(rows[b], n)
        BY <3>1 DEF HoldsRows
      <4>2. nDecoded(rows[b], n) \in Nat
            /\ \A j \in 0 .. nDecoded(rows[b], n) - 1 : IsUnit(rows[b], j)
        BY <4>1, NDecodedIsFirst DEF IsFirstCoded
      <4>3. x \in 0 .. nDecoded(rows[b], n) - 1
        BY <4>1, <4>2
      <4> QED BY <4>2, <4>3 DEF IsUnit
    <3> QED BY <3>2, <3>3, <3>4 DEF n, sent
  <2> QED BY <2>1, <2>2 DEF RowsConsistent
<1> QED BY <1>1, StreamInvHolds, PTL

-----------------------------------------------------------------------------
(* The refinement *)

\* Of two parts of the source from its start, the shorter is a prefix.
LEMMA PartsArePrefixes ==
  ASSUME NEW s, NEW t, ReadAfter(s, 0), ReadAfter(t, 0), Len(s) <= Len(t)
  PROVE  /\ IsPrefix(s, t)
         /\ Len(s) = Len(t) => s = t
         /\ Len(s) # Len(t) => s # t
<1> DEFINE l == Len(s)
<1>1. s \in Seq(Symbol) /\ t \in Seq(Symbol) /\ l \in Nat /\ Len(t) \in Nat
  BY DEF ReadAfter
<1>2. \A j \in 1 .. l : s[j] = t[j]
  <2> TAKE j \in 1 .. l
  <2>1. j \in 1 .. Len(s) /\ j \in 1 .. Len(t)
    BY <1>1
  <2> QED BY <2>1 DEF ReadAfter
<1>3. /\ SubSeq(s, 1, l) \in Seq(Symbol) /\ Len(SubSeq(s, 1, l)) = l
      /\ \A j \in 1 .. l : SubSeq(s, 1, l)[j] = s[j]
  BY <1>1, SubSeqProperties, ElementOfSeq
<1>4. /\ SubSeq(t, 1, l) \in Seq(Symbol) /\ Len(SubSeq(t, 1, l)) = l
      /\ \A j \in 1 .. l : SubSeq(t, 1, l)[j] = t[j]
  BY <1>1, SubSeqProperties, ElementOfSeq
<1>5. SubSeq(s, 1, l) = SubSeq(t, 1, l)
  BY <1>2, <1>3, <1>4, SeqEqual
<1>6. l = Len(t) => s = t
  BY <1>1, <1>2, SeqEqual
<1> QED BY <1>5, <1>6 DEF IsPrefix

\* What was read is a part of the source.
LEMMA ReadIsPart ==
  ASSUME NEW n \in Nat, n <= Len(Source)
  PROVE  ReadAfter(SubSeq(Source, 1, n), 0) /\ Len(SubSeq(Source, 1, n)) = n
<1> DEFINE s == SubSeq(Source, 1, n)
<1>1. Source \in Seq(Symbol) /\ Len(Source) \in Nat
  BY LinkAssumption
<1>2. s \in Seq(Symbol) /\ Len(s) = n /\ \A j \in 1 .. n : s[j] = Source[j]
  BY <1>1, SubSeqProperties, ElementOfSeq
<1> HIDE DEF s
<1>3. \A j \in 1 .. Len(s) : s[j] = Source[0 + j]
  BY <1>2
<1>4. 0 + Len(s) <= Len(Source)
  BY <1>2
<1>5. ReadAfter(s, 0)
  BY <1>2, <1>3, <1>4 DEF ReadAfter
<1> QED BY <1>2, <1>5 DEF s

\* A step reads more of the source, writes more of it, or does neither.
LEMMA StepOfStream ==
  ASSUME StreamInv, [Next]_vars
  PROVE  /\ StreamInv'
         /\ \/ nread' = nread /\ Len(delivered) <= Len(delivered')
            \/ delivered' = delivered /\ nread < nread'
<1>1. StreamInv'
  BY NextStream
<1>2. Len(delivered) \in Nat /\ nread \in Nat
  BY StreamFacts DEF StreamInv, ReadAfter
<1>3. CASE UNCHANGED <<nread, delivered>>
  BY <1>1, <1>2, <1>3
<1>4. CASE ReceiveData
  BY <1>1, <1>4, ReceiveDataStream DEF ReceiveData
<1>5. CASE ReadTcp
  <2>1. delivered' = delivered /\ \E n \in 1 .. min(MaxRead, Len(Source) - nread) : nread' = nread + n
    BY <1>5 DEF ReadTcp
  <2>2. \A n \in 1 .. min(MaxRead, Len(Source) - nread) : nread < nread + n
    BY <1>2
  <2> QED BY <1>1, <2>1, <2>2
<1> QED
  BY <1>3, <1>4, <1>5
  DEF Next, vars, TimeOut, ReceiveAck, ReadTcpFails, Flush, LoseData, LoseAck

LEMMA InitImplements == Init => Stream!Init
<1> SUFFICES ASSUME Init PROVE Stream!Init
  OBVIOUS
<1>1. nread = 0 /\ delivered = <<>>
  BY DEF Init
<1>2. SubSeq(Source, 1, 0) = <<>>
  BY LinkAssumption, SubSeqEmpty
<1> QED BY <1>1, <1>2 DEF Stream!Init

\* The specification of the stream has its own names for the same prefixes.
LEMMA SamePrefixes ==
  ASSUME NEW s, NEW t
  PROVE  /\ Stream!IsPrefix(s, t) <=> IsPrefix(s, t)
         /\ Stream!IsStrictPrefix(s, t) <=> IsStrictPrefix(s, t)
BY DEF Stream!IsPrefix, Stream!IsStrictPrefix, IsPrefix, IsStrictPrefix

LEMMA StepImplements ==
  ASSUME StreamInv, [Next]_vars
  PROVE  [Stream!Next]_<<SubSeq(Source, 1, nread), delivered>>
<1> DEFINE in == SubSeq(Source, 1, nread)
           n == nread'
           after == SubSeq(Source, 1, n)
           out == delivered
<1>1. StreamInv'
  BY StepOfStream
<1>2. /\ n \in Nat /\ n <= Len(Source)
      /\ ReadAfter(out', 0) /\ Len(out') \in Nat /\ Len(out') <= n
  <2>1. nread' \in 0 .. Len(Source)
    BY <1>1 DEF StreamInv, LinkShape
  <2>2. ReadAfter(delivered', 0) /\ Len(delivered') <= nread'
    BY <1>1 DEF StreamInv
  <2>3. Len(delivered') \in Nat
    BY <2>2 DEF ReadAfter
  <2> QED BY <2>1, <2>2, <2>3, LinkAssumption
<1>3. ReadAfter(out, 0) /\ Len(out) \in Nat
  BY DEF StreamInv, ReadAfter
<1>4. ReadAfter(in, 0) /\ Len(in) = nread /\ nread \in Nat
  BY StreamFacts, ReadIsPart
<1>5. ReadAfter(after, 0) /\ Len(after) = n
  BY <1>2, ReadIsPart
<1>6. in' = after
  OBVIOUS
<1>7. CASE nread' = nread /\ Len(delivered) <= Len(delivered')
  <2>1. in' = in
    BY <1>7
  <2>2. CASE out' = out
    BY <2>1, <2>2
  <2>3. CASE out' # out
    <3>1. IsStrictPrefix(out, out')
      BY <1>2, <1>3, <1>7, <2>3, PartsArePrefixes DEF IsStrictPrefix
    <3>2. Len(out') <= Len(in)
      BY <1>2, <1>4, <1>7
    <3> HIDE DEF in
    <3>3. IsPrefix(out', in)
      BY <1>2, <1>4, <3>2, PartsArePrefixes
    <3>4. Stream!IsStrictPrefix(out, out') /\ Stream!IsPrefix(out', in)
      BY <3>1, <3>3, SamePrefixes
    <3> QED BY <2>1, <3>4 DEF Stream!Next, Stream!Deliver, in
  <2> QED BY <2>2, <2>3
<1>8. CASE delivered' = delivered /\ nread < nread'
  <2>1. Len(in) <= Len(after) /\ Len(in) # Len(after)
    <3> HIDE DEF in, after
    <3> QED BY <1>2, <1>4, <1>5, <1>8
  <2> HIDE DEF in, after
  <2>2. IsStrictPrefix(in, after) /\ after \in Seq(Symbol)
    BY <1>4, <1>5, <2>1, PartsArePrefixes DEF IsStrictPrefix, ReadAfter
  <2>3. Stream!IsStrictPrefix(in, after) /\ after \in Seq(Symbol)
    BY <2>2, SamePrefixes
  <2> QED BY <1>8, <2>3 DEF Stream!Next, Stream!Accept, in, after
<1> QED BY <1>7, <1>8, StepOfStream

\* The link implements the reliable stream: what the receiver writes is always a
\* prefix of what the sender read, and only grows, whatever the network does.
THEOREM ImplementsStreamHolds == Spec => ImplementsStream
BY InitImplements, StepImplements, StreamInvHolds, PTL DEF Spec, ImplementsStream, Stream!Spec

=============================================================================

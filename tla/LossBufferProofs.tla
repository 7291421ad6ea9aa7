-------------------------- MODULE LossBufferProofs --------------------------
(***************************************************************************)
(* The ring of losses counts what it is meant to count, for every size.    *)
(*                                                                         *)
(* RingInv is the inductive invariant: the index is the newest sequence    *)
(* number modulo the size, so that a number of the last turn has an entry  *)
(* of its own, and the entry tells whether it arrived.  It needs packets   *)
(* to come less than a turn late; that some packet is counted as received  *)
(* (RecentInv) does not.                                                   *)
(***************************************************************************)
EXTENDS LossBuffer, FiniteSetTheorems, TLAPS

\* A packet is never a turn of the ring late.
LessThanATurnLate == MaxLate < LOSS_BUFFER_SIZE

\* The sequence numbers of the last turn.
LastTurn == lastSeqReceived - LOSS_BUFFER_SIZE + 1 .. lastSeqReceived

\* What the entry of a sequence number says.
EntryOf(s) == IF s \in arrived THEN true ELSE IF s > 0 THEN false ELSE unknown

RingInv ==
  /\ TypeOK
  /\ currentIndex = lastSeqReceived % LOSS_BUFFER_SIZE
  /\ \A s \in arrived : s <= lastSeqReceived
  /\ \A s \in LastTurn : isReceived[s % LOSS_BUFFER_SIZE] = EntryOf(s)

RecentInv ==
  /\ TypeOK
  /\ arrived = {} => lastSeqReceived = 0
  /\ arrived # {} => isReceived[currentIndex] = true

-----------------------------------------------------------------------------
(* Counting in turns of the ring *)

\* What the remainder is.
LEMMA ModType ==
  ASSUME NEW x \in Int
  PROVE  /\ x % LOSS_BUFFER_SIZE \in Index
         /\ x \div LOSS_BUFFER_SIZE \in Int
         /\ x = LOSS_BUFFER_SIZE * (x \div LOSS_BUFFER_SIZE) + (x % LOSS_BUFFER_SIZE)
BY LossBufferAssumption DEF Index

\* Less than a turn is no turn.
LEMMA NoTurn ==
  ASSUME NEW k \in Int, LOSS_BUFFER_SIZE * k < LOSS_BUFFER_SIZE,
         -LOSS_BUFFER_SIZE < LOSS_BUFFER_SIZE * k
  PROVE  k = 0
<1>1. CASE k >= 1
  <2>1. LOSS_BUFFER_SIZE * k >= LOSS_BUFFER_SIZE
    BY <1>1, LossBufferAssumption
  <2> QED BY <2>1, LossBufferAssumption
<1>2. CASE k <= -1
  <2>1. LOSS_BUFFER_SIZE * k <= -LOSS_BUFFER_SIZE
    BY <1>2, LossBufferAssumption
  <2> QED BY <2>1, LossBufferAssumption
<1> QED BY <1>1, <1>2

\* There is one remainder.
LEMMA ModUnique ==
  ASSUME NEW x \in Int, NEW q \in Int, NEW r \in Index, x = LOSS_BUFFER_SIZE * q + r
  PROVE  x % LOSS_BUFFER_SIZE = r
<1> DEFINE p == x \div LOSS_BUFFER_SIZE
           m == x % LOSS_BUFFER_SIZE
           k == p - q
<1>1. p \in Int /\ m \in Index /\ x = LOSS_BUFFER_SIZE * p + m
  BY ModType
<1> HIDE DEF p, m
<1>2. LOSS_BUFFER_SIZE * k = LOSS_BUFFER_SIZE * p - LOSS_BUFFER_SIZE * q /\ k \in Int
  BY <1>1, LossBufferAssumption
<1>3. LOSS_BUFFER_SIZE * k = r - m
  BY <1>1, <1>2, LossBufferAssumption DEF Index
<1> HIDE DEF k
<1>4. k = 0
  BY <1>1, <1>2, <1>3, NoTurn, LossBufferAssumption DEF Index
<1> QED BY <1>1, <1>3, <1>4, LossBufferAssumption DEF Index, m

\* An index moved on wraps as the number it is the remainder of.
LEMMA ModAdd ==
  ASSUME NEW x \in Int, NEW d \in Int
  PROVE  ((x % LOSS_BUFFER_SIZE) + d) % LOSS_BUFFER_SIZE = (x + d) % LOSS_BUFFER_SIZE
<1> DEFINE p == x \div LOSS_BUFFER_SIZE
           m == x % LOSS_BUFFER_SIZE
           q == (m + d) \div LOSS_BUFFER_SIZE
           r == (m + d) % LOSS_BUFFER_SIZE
<1>1. p \in Int /\ m \in Int /\ x = LOSS_BUFFER_SIZE * p + m
  BY ModType, LossBufferAssumption DEF Index
<1> HIDE DEF p, m
<1>2. q \in Int /\ r \in Index /\ m + d = LOSS_BUFFER_SIZE * q + r
  BY <1>1, ModType
<1> HIDE DEF q, r
<1>3. LOSS_BUFFER_SIZE * (p + q) = LOSS_BUFFER_SIZE * p + LOSS_BUFFER_SIZE * q
  BY <1>1, <1>2, LossBufferAssumption
<1>4. x + d = LOSS_BUFFER_SIZE * (p + q) + r /\ p + q \in Int /\ x + d \in Int
  BY <1>1, <1>2, <1>3, LossBufferAssumption DEF Index
<1>5. (x + d) % LOSS_BUFFER_SIZE = r
  BY <1>2, <1>4, ModUnique
<1> QED BY <1>5 DEF r, m

\* A whole turn leads back to the same entry.
LEMMA ModTurn ==
  ASSUME NEW x \in Int
  PROVE  (x + LOSS_BUFFER_SIZE) % LOSS_BUFFER_SIZE = x % LOSS_BUFFER_SIZE
<1>1. /\ x % LOSS_BUFFER_SIZE \in Index /\ x \div LOSS_BUFFER_SIZE \in Int
      /\ x = LOSS_BUFFER_SIZE * (x \div LOSS_BUFFER_SIZE) + (x % LOSS_BUFFER_SIZE)
  BY ModType
<1> DEFINE p == x \div LOSS_BUFFER_SIZE
           r == x % LOSS_BUFFER_SIZE
<1> HIDE DEF p, r
<1>2. LOSS_BUFFER_SIZE * (p + 1) = LOSS_BUFFER_SIZE * p + LOSS_BUFFER_SIZE
  BY <1>1, LossBufferAssumption DEF p
<1>3. x + LOSS_BUFFER_SIZE = LOSS_BUFFER_SIZE * (p + 1) + r
  BY <1>1, <1>2, LossBufferAssumption DEF p, r, Index
<1>4. p + 1 \in Int /\ r \in Index /\ x + LOSS_BUFFER_SIZE \in Int
  BY <1>1, LossBufferAssumption DEF p, r
<1>5. (x + LOSS_BUFFER_SIZE) % LOSS_BUFFER_SIZE = r
  BY <1>3, <1>4, ModUnique
<1> QED BY <1>5 DEF r

\* Two numbers less than a turn apart have entries of their own.
LEMMA ModInjective ==
  ASSUME NEW x \in Int, NEW y \in Int,
         x - y < LOSS_BUFFER_SIZE, y - x < LOSS_BUFFER_SIZE,
         x % LOSS_BUFFER_SIZE = y % LOSS_BUFFER_SIZE
  PROVE  x = y
<1> DEFINE p == x \div LOSS_BUFFER_SIZE
           q == y \div LOSS_BUFFER_SIZE
           r == x % LOSS_BUFFER_SIZE
           k == p - q
<1>1. /\ p \in Int /\ q \in Int /\ r \in Int
      /\ x = LOSS_BUFFER_SIZE * p + r /\ y = LOSS_BUFFER_SIZE * q + r
  BY ModType, LossBufferAssumption DEF Index
<1> HIDE DEF p, q, r
<1>2. LOSS_BUFFER_SIZE * k = LOSS_BUFFER_SIZE * p - LOSS_BUFFER_SIZE * q /\ k \in Int
  BY <1>1, LossBufferAssumption
<1> HIDE DEF k
<1>3. LOSS_BUFFER_SIZE * k = x - y
  BY <1>1, <1>2, LossBufferAssumption
<1>4. k = 0
  BY <1>2, <1>3, NoTurn, LossBufferAssumption
<1> QED BY <1>3, <1>4, LossBufferAssumption

\* Every entry is that of a number of the turn that ends with x.
LEMMA ModOnto ==
  ASSUME NEW x \in Int, NEW i \in Index
  PROVE  \E s \in x - LOSS_BUFFER_SIZE + 1 .. x : s % LOSS_BUFFER_SIZE = i
<1> DEFINE q == (x - i) \div LOSS_BUFFER_SIZE
           r == (x - i) % LOSS_BUFFER_SIZE
           s == x - r
<1>1. x - i \in Int
  BY LossBufferAssumption DEF Index
<1>2. q \in Int /\ r \in Index /\ x - i = LOSS_BUFFER_SIZE * q + r
  BY <1>1, ModType
<1> HIDE DEF q, r
<1>3. s \in x - LOSS_BUFFER_SIZE + 1 .. x /\ s \in Int
  BY <1>2, LossBufferAssumption DEF Index
<1>4. s = LOSS_BUFFER_SIZE * q + i
  BY <1>2, LossBufferAssumption DEF Index
<1>5. s % LOSS_BUFFER_SIZE = i
  BY <1>2, <1>3, <1>4, ModUnique
<1> QED BY <1>3, <1>5

-----------------------------------------------------------------------------
(* The invariants *)

\* Nothing has arrived, and every entry is unknown.
LEMMA InitRing == Init => RingInv /\ RecentInv
<1> SUFFICES ASSUME Init PROVE RingInv /\ RecentInv
  OBVIOUS
<1>1. 0 \in Index /\ 0 % LOSS_BUFFER_SIZE = 0
  <2>1. 0 \in Index /\ 0 = LOSS_BUFFER_SIZE * 0 + 0
    BY LossBufferAssumption DEF Index
  <2> QED BY <2>1, ModUnique
<1>2. TypeOK
  BY <1>1 DEF Init, TypeOK
<1>3. ASSUME NEW s \in LastTurn PROVE isReceived[s % LOSS_BUFFER_SIZE] = EntryOf(s)
  <2>1. s \in Int /\ ~(s > 0)
    BY <1>3, LossBufferAssumption DEF Init, LastTurn
  <2>2. s % LOSS_BUFFER_SIZE \in Index
    BY <2>1, ModType
  <2> QED BY <2>1, <2>2 DEF Init, EntryOf
<1> QED BY <1>1, <1>2, <1>3 DEF Init, RingInv, RecentInv

\* What Receive does, packet by packet.
LEMMA ReceiveCases ==
  ASSUME TypeOK, Receive
  PROVE  \E seqNo \in 0 .. MaxSeqNo - 1 :
           /\ seqNo \in Nat
           /\ lastSeqReceived - seqNo <= MaxLate
           /\ arrived' = arrived \cup {seqNo}
           /\ \/ /\ seqNo > lastSeqReceived
                 /\ EnterNewer(seqNo - lastSeqReceived)
                 /\ lastSeqReceived' = seqNo
              \/ /\ seqNo <= lastSeqReceived
                 /\ EnterOlder(seqNo - lastSeqReceived)
                 /\ lastSeqReceived' = lastSeqReceived
<1>1. PICK seqNo \in 0 .. MaxSeqNo - 1 :
        /\ lastSeqReceived - seqNo <= MaxLate
        /\ EnterNewer(seqNo - lastSeqReceived) \/ EnterOlder(seqNo - lastSeqReceived)
        /\ lastSeqReceived' = IF lastSeqReceived > seqNo THEN lastSeqReceived ELSE seqNo
        /\ arrived' = arrived \cup {seqNo}
  BY DEF Receive
<1>2. seqNo \in Nat /\ lastSeqReceived \in Nat
  BY <1>1, LossBufferAssumption DEF TypeOK
<1>3. CASE EnterNewer(seqNo - lastSeqReceived)
  <2>1. seqNo > lastSeqReceived
    BY <1>2, <1>3 DEF EnterNewer
  <2> QED BY <1>1, <1>2, <1>3, <2>1
<1>4. CASE EnterOlder(seqNo - lastSeqReceived)
  <2>1. seqNo <= lastSeqReceived
    BY <1>2, <1>4 DEF EnterOlder
  <2> QED BY <1>1, <1>2, <1>4, <2>1
<1> QED BY <1>1, <1>3, <1>4

\* The entries keep their type, wherever a packet is entered.
LEMMA NextType == TypeOK /\ [Next]_vars => TypeOK'
<1> SUFFICES ASSUME TypeOK, [Next]_vars PROVE TypeOK'
  OBVIOUS
<1>1. CASE UNCHANGED vars
  BY <1>1 DEF TypeOK, vars
<1>2. CASE Receive
  <2>1. PICK seqNo \in 0 .. MaxSeqNo - 1 :
           /\ seqNo \in Nat
           /\ lastSeqReceived - seqNo <= MaxLate
           /\ arrived' = arrived \cup {seqNo}
           /\ \/ /\ seqNo > lastSeqReceived
                 /\ EnterNewer(seqNo - lastSeqReceived)
                 /\ lastSeqReceived' = seqNo
              \/ /\ seqNo <= lastSeqReceived
                 /\ EnterOlder(seqNo - lastSeqReceived)
                 /\ lastSeqReceived' = lastSeqReceived
    BY <1>2, ReceiveCases
  <2> DEFINE delta == seqNo - lastSeqReceived
  <2>2. /\ lastSeqReceived \in Nat /\ delta \in Int /\ currentIndex \in Int
        /\ isReceived \in [Index -> {unknown, false, true}]
    BY <2>1, LossBufferAssumption DEF TypeOK, Index
  <2>3. lastSeqReceived' \in Nat /\ arrived' \subseteq 0 .. MaxSeqNo - 1
    BY <2>1, <2>2 DEF TypeOK
  <2> HIDE DEF delta
  <2>4. CASE EnterNewer(delta)
    <3>1. (currentIndex + delta) % LOSS_BUFFER_SIZE \in Index
      BY <2>2, ModType
    <3>2. Entered(delta) \in [Index -> {unknown, false, true}]
      BY <2>2 DEF Entered
    <3> QED BY <2>3, <2>4, <3>1, <3>2 DEF EnterNewer, TypeOK
  <2>5. CASE EnterOlder(delta)
    <3> DEFINE i == currentIndex + delta + LOSS_BUFFER_SIZE
    <3>1. i % LOSS_BUFFER_SIZE \in Index
      BY <2>2, ModType, LossBufferAssumption
    <3>2. isReceived' \in {isReceived, [isReceived EXCEPT ![i % LOSS_BUFFER_SIZE] = true]}
      BY <2>5 DEF EnterOlder
    <3> HIDE DEF i
    <3>3. isReceived' \in [Index -> {unknown, false, true}]
      BY <2>2, <3>1, <3>2
    <3> QED BY <2>3, <2>5, <3>3 DEF EnterOlder, TypeOK
  <2> QED BY <2>1, <2>4, <2>5 DEF delta
<1> QED BY <1>1, <1>2 DEF Next

\* The newest packet's entry says it was received, however late others come.
LEMMA NextRecent == RecentInv /\ [Next]_vars => RecentInv'
<1> SUFFICES ASSUME RecentInv, [Next]_vars PROVE RecentInv'
  OBVIOUS
<1>1. TypeOK /\ TypeOK'
  BY NextType DEF RecentInv
<1>2. CASE UNCHANGED vars
  BY <1>1, <1>2 DEF RecentInv, vars
<1>3. CASE Receive
  <2>1. PICK seqNo \in 0 .. MaxSeqNo - 1 :
           /\ seqNo \in Nat
           /\ lastSeqReceived - seqNo <= MaxLate
           /\ arrived' = arrived \cup {seqNo}
           /\ \/ /\ seqNo > lastSeqReceived
                 /\ EnterNewer(seqNo - lastSeqReceived)
                 /\ lastSeqReceived' = seqNo
              \/ /\ seqNo <= lastSeqReceived
                 /\ EnterOlder(seqNo - lastSeqReceived)
                 /\ lastSeqReceived' = lastSeqReceived
    BY <1>1, <1>3, ReceiveCases
  <2> DEFINE delta == seqNo - lastSeqReceived
  <2>2. /\ lastSeqReceived \in Nat /\ delta \in Int /\ currentIndex \in Index
        /\ currentIndex \in Int /\ isReceived \in [Index -> {unknown, false, true}]
    BY <1>1, <2>1, LossBufferAssumption DEF TypeOK, Index
  <2>3. lastSeqReceived = 0 /\ seqNo <= lastSeqReceived => delta = 0
    BY <2>1, <2>2
  <2> HIDE DEF delta
  <2>4. CASE EnterNewer(delta)
    <3>1. (currentIndex + delta) % LOSS_BUFFER_SIZE \in Index
      BY <2>2, ModType
    <3>2. isReceived'[currentIndex'] = true
      BY <2>4, <3>1 DEF EnterNewer, Entered
    <3> QED BY <1>1, <2>1, <3>2 DEF RecentInv
  <2>5. CASE seqNo <= lastSeqReceived /\ EnterOlder(delta)
    <3> DEFINE i == currentIndex + delta + LOSS_BUFFER_SIZE
    <3>1. /\ currentIndex' = currentIndex
          /\ isReceived' \in {isReceived, [isReceived EXCEPT ![i % LOSS_BUFFER_SIZE] = true]}
      BY <2>5 DEF EnterOlder
    <3>2. CASE arrived # {}
      <4>1. isReceived[currentIndex] = true
        BY <3>2 DEF RecentInv
      <4> HIDE DEF i
      <4>2. isReceived'[currentIndex] = true
        BY <2>2, <3>1, <4>1
      <4> QED BY <1>1, <2>1, <3>1, <4>2 DEF RecentInv
    <3>3. CASE arrived = {}
      <4>1. delta = 0
        BY <2>3, <2>5, <3>3 DEF RecentInv
      <4>2. i % LOSS_BUFFER_SIZE = currentIndex
        <5>1. i = currentIndex + LOSS_BUFFER_SIZE
          <6>1. currentIndex + 0 = currentIndex
            <7>1. currentIndex \in Int
              BY <2>2
            <7> HIDE DEF i
            <7> QED BY <7>1
          <6> QED BY <4>1, <6>1
        <5>2. currentIndex % LOSS_BUFFER_SIZE = currentIndex
          <6>1. currentIndex = LOSS_BUFFER_SIZE * 0 + currentIndex
            BY <2>2, LossBufferAssumption
          <6> QED BY <2>2, <6>1, ModUnique
        <5> QED BY <2>2, <5>1, <5>2, ModTurn
      <4>3. i \in Nat
        BY <2>2, <4>1, LossBufferAssumption DEF Index
      <4>4. isReceived' = [isReceived EXCEPT ![i % LOSS_BUFFER_SIZE] = true]
        <5>1. ~(i < 0 /\ i % LOSS_BUFFER_SIZE # 0)
          BY <4>3
        <5> QED BY <2>5, <5>1, Zenon DEF EnterOlder
      <4> HIDE DEF i
      <4>5. isReceived'[currentIndex] = true
        BY <2>2, <4>2, <4>4
      <4> QED BY <1>1, <2>1, <3>1, <4>5 DEF RecentInv
    <3> QED BY <3>2, <3>3
  <2> QED BY <2>1, <2>4, <2>5 DEF delta
<1> QED BY <1>2, <1>3 DEF Next

\* A newer packet: the entries it overtakes are lost, its own is received, and those
\* of the rest of the turn are of packets of the turn before.
LEMMA NewerKeepsRing ==
  ASSUME RingInv, NEW seqNo \in Nat, seqNo > lastSeqReceived,
         EnterNewer(seqNo - lastSeqReceived), lastSeqReceived' = seqNo,
         arrived' = arrived \cup {seqNo}, TypeOK'
  PROVE  RingInv'
<1> DEFINE delta == seqNo - lastSeqReceived
<1>1. /\ lastSeqReceived \in Nat /\ delta \in Nat \ {0}
      /\ seqNo = lastSeqReceived + delta
      /\ currentIndex = lastSeqReceived % LOSS_BUFFER_SIZE
      /\ currentIndex \in Int
      /\ arrived \subseteq Int
      /\ \A s \in arrived : s <= lastSeqReceived
  <2>1. /\ lastSeqReceived \in Nat /\ currentIndex \in Int /\ arrived \subseteq Int
        /\ \A s \in arrived : s <= lastSeqReceived
    <3>1. currentIndex \in Index /\ arrived \subseteq 0 .. MaxSeqNo - 1
      BY DEF RingInv, TypeOK
    <3>2. currentIndex \in Int /\ arrived \subseteq Int
      BY <3>1, LossBufferAssumption DEF Index
    <3>3. lastSeqReceived \in Nat
      BY DEF RingInv, TypeOK
    <3> QED BY <3>2, <3>3 DEF RingInv
  <2>2. currentIndex = lastSeqReceived % LOSS_BUFFER_SIZE
    BY DEF RingInv
  <2> QED BY <2>1, <2>2
<1>2. EnterNewer(delta)
  OBVIOUS
<1> HIDE DEF delta
<1>3. ASSUME NEW d \in Int
      PROVE  (currentIndex + d) % LOSS_BUFFER_SIZE
               = (lastSeqReceived + d) % LOSS_BUFFER_SIZE
  BY <1>1, ModAdd
<1>4. (currentIndex + delta) % LOSS_BUFFER_SIZE = seqNo % LOSS_BUFFER_SIZE
  BY <1>1, <1>3
<1>5. ASSUME NEW s \in seqNo - LOSS_BUFFER_SIZE + 1 .. seqNo
      PROVE  isReceived'[s % LOSS_BUFFER_SIZE] = EntryOf(s)'
  <2>1. s \in Int /\ s % LOSS_BUFFER_SIZE \in Index /\ s <= seqNo
        /\ seqNo - s < LOSS_BUFFER_SIZE
    BY <1>5, ModType, LossBufferAssumption
  <2>2. isReceived'[s % LOSS_BUFFER_SIZE] =
          IF s % LOSS_BUFFER_SIZE = seqNo % LOSS_BUFFER_SIZE THEN true
          ELSE IF s % LOSS_BUFFER_SIZE \in Overtaken(delta) THEN false
          ELSE isReceived[s % LOSS_BUFFER_SIZE]
    BY <1>2, <1>4, <2>1 DEF EnterNewer, Entered
  <2>3. CASE s = seqNo
    BY <2>2, <2>3 DEF EntryOf
  <2>4. CASE s > lastSeqReceived /\ s < seqNo
    <3>1. s - seqNo < LOSS_BUFFER_SIZE /\ s # seqNo /\ seqNo \in Int
      BY <1>1, <2>1, <2>4, LossBufferAssumption
    <3>2. s % LOSS_BUFFER_SIZE # seqNo % LOSS_BUFFER_SIZE
      BY <2>1, <3>1, ModInjective
    <3> DEFINE d == s - lastSeqReceived
    <3>3. /\ currentIndex + d \in currentIndex + 1 .. currentIndex + delta - 1
          /\ d \in Int /\ lastSeqReceived + d = s
      BY <1>1, <2>1, <2>4
    <3> HIDE DEF d
    <3>4. s % LOSS_BUFFER_SIZE \in Overtaken(delta)
      BY <1>3, <3>3 DEF Overtaken
    <3>5. s \notin arrived' /\ s > 0
      BY <1>1, <2>1, <2>4
    <3> QED BY <2>2, <3>2, <3>4, <3>5 DEF EntryOf
  <2>5. CASE s <= lastSeqReceived
    <3>1. s \in LastTurn /\ s # seqNo
      BY <1>1, <2>1, <2>5, LossBufferAssumption DEF LastTurn
    <3>2. s % LOSS_BUFFER_SIZE # seqNo % LOSS_BUFFER_SIZE
      <4>1. s - seqNo < LOSS_BUFFER_SIZE /\ s # seqNo /\ seqNo \in Int
        BY <1>1, <2>1, <2>5, LossBufferAssumption
      <4> QED BY <2>1, <4>1, ModInjective
    <3>3. s % LOSS_BUFFER_SIZE \notin Overtaken(delta)
      <4> SUFFICES ASSUME s % LOSS_BUFFER_SIZE \in Overtaken(delta) PROVE FALSE
        OBVIOUS
      <4>1. PICK j \in currentIndex + 1 .. currentIndex + delta - 1 :
              s % LOSS_BUFFER_SIZE = j % LOSS_BUFFER_SIZE
        BY DEF Overtaken
      <4> DEFINE d == j - currentIndex
      <4>2. d \in Int /\ j = currentIndex + d /\ d >= 1 /\ d <= delta - 1
        BY <1>1, <4>1
      <4> HIDE DEF d
      <4>3. s % LOSS_BUFFER_SIZE = (lastSeqReceived + d) % LOSS_BUFFER_SIZE
        BY <1>3, <4>1, <4>2
      <4>4. /\ lastSeqReceived + d \in Int
            /\ (lastSeqReceived + d) - s < LOSS_BUFFER_SIZE
            /\ s - (lastSeqReceived + d) < LOSS_BUFFER_SIZE
            /\ s # lastSeqReceived + d
        BY <1>1, <2>1, <2>5, <4>2, LossBufferAssumption
      <4> QED BY <2>1, <4>3, <4>4, ModInjective
    <3>4. isReceived[s % LOSS_BUFFER_SIZE] = EntryOf(s)
      BY <3>1 DEF RingInv
    <3>5. EntryOf(s)' = EntryOf(s)
      BY <3>1 DEF EntryOf
    <3> QED BY <2>2, <3>2, <3>3, <3>4, <3>5
  <2> QED BY <1>1, <2>1, <2>3, <2>4, <2>5
<1>6. currentIndex' = lastSeqReceived' % LOSS_BUFFER_SIZE
  BY <1>2, <1>4 DEF EnterNewer
<1>7. \A s \in arrived' : s <= lastSeqReceived'
  BY <1>1
<1> QED BY <1>5, <1>6, <1>7 DEF RingInv, LastTurn

\* An older packet less than a turn late finds its own entry.
LEMMA OlderKeepsRing ==
  ASSUME RingInv, LessThanATurnLate, NEW seqNo \in Nat, seqNo <= lastSeqReceived,
         lastSeqReceived - seqNo <= MaxLate,
         EnterOlder(seqNo - lastSeqReceived), lastSeqReceived' = lastSeqReceived,
         arrived' = arrived \cup {seqNo}, TypeOK'
  PROVE  RingInv'
<1> DEFINE delta == seqNo - lastSeqReceived
           i == currentIndex + delta + LOSS_BUFFER_SIZE
<1>1. /\ lastSeqReceived \in Nat /\ delta \in Int
      /\ seqNo = lastSeqReceived + delta /\ delta > -LOSS_BUFFER_SIZE
      /\ currentIndex = lastSeqReceived % LOSS_BUFFER_SIZE
      /\ currentIndex \in Nat
      /\ \A s \in arrived : s <= lastSeqReceived
      /\ isReceived \in [Index -> {unknown, false, true}]
  BY LossBufferAssumption DEF RingInv, TypeOK, Index, LessThanATurnLate
<1>2. EnterOlder(delta)
  OBVIOUS
<1> HIDE DEF delta
<1>3. i \in Nat /\ i = (currentIndex + delta) + LOSS_BUFFER_SIZE
  BY <1>1, LossBufferAssumption
<1>4. i % LOSS_BUFFER_SIZE = seqNo % LOSS_BUFFER_SIZE
  <2>1. (currentIndex + delta) % LOSS_BUFFER_SIZE = seqNo % LOSS_BUFFER_SIZE
    BY <1>1, ModAdd
  <2>2. currentIndex + delta \in Int
    BY <1>1
  <2> HIDE DEF i
  <2> QED BY <1>3, <2>1, <2>2, ModTurn
<1>5. /\ isReceived' = [isReceived EXCEPT ![seqNo % LOSS_BUFFER_SIZE] = true]
      /\ currentIndex' = currentIndex
  <2>1. ~(i < 0 /\ i % LOSS_BUFFER_SIZE # 0)
    BY <1>3
  <2>2. /\ isReceived' = [isReceived EXCEPT ![i % LOSS_BUFFER_SIZE] = true]
        /\ currentIndex' = currentIndex
    BY <1>2, <2>1, Zenon DEF EnterOlder
  <2> HIDE DEF i
  <2> QED BY <1>4, <2>2
<1> HIDE DEF i
<1>6. ASSUME NEW s \in LastTurn
      PROVE  isReceived'[s % LOSS_BUFFER_SIZE] = EntryOf(s)'
  <2>1. s \in Int /\ s % LOSS_BUFFER_SIZE \in Index
        /\ s <= lastSeqReceived /\ lastSeqReceived - s < LOSS_BUFFER_SIZE
    BY <1>1, <1>6, ModType, LossBufferAssumption DEF LastTurn
  <2>2. isReceived[s % LOSS_BUFFER_SIZE] = EntryOf(s)
    BY DEF RingInv
  <2>3. CASE s = seqNo
    BY <1>1, <1>5, <2>1, <2>3 DEF EntryOf
  <2>4. CASE s # seqNo
    <3>1. /\ seqNo \in Int /\ s - seqNo < LOSS_BUFFER_SIZE
          /\ seqNo - s < LOSS_BUFFER_SIZE
      BY <1>1, <2>1, LossBufferAssumption
    <3>2. s % LOSS_BUFFER_SIZE # seqNo % LOSS_BUFFER_SIZE
      BY <2>1, <2>4, <3>1, ModInjective
    <3>3. isReceived'[s % LOSS_BUFFER_SIZE] = isReceived[s % LOSS_BUFFER_SIZE]
      BY <1>1, <1>5, <2>1, <3>2
    <3>4. EntryOf(s)' = EntryOf(s)
      BY <2>4 DEF EntryOf
    <3> QED BY <2>2, <3>3, <3>4
  <2> QED BY <2>3, <2>4
<1>7. \A s \in arrived' : s <= lastSeqReceived'
  BY <1>1
<1> QED BY <1>1, <1>5, <1>6, <1>7 DEF RingInv, LastTurn

\* RingInv is kept by every packet.
LEMMA NextRing == RingInv /\ LessThanATurnLate /\ [Next]_vars => RingInv'
<1> SUFFICES ASSUME RingInv, LessThanATurnLate, [Next]_vars PROVE RingInv'
  OBVIOUS
<1>1. TypeOK /\ TypeOK'
  BY NextType DEF RingInv
<1>2. CASE UNCHANGED vars
  BY <1>1, <1>2 DEF RingInv, LastTurn, EntryOf, vars
<1>3. CASE Receive
  <2>1. PICK seqNo \in 0 .. MaxSeqNo - 1 :
           /\ seqNo \in Nat
           /\ lastSeqReceived - seqNo <= MaxLate
           /\ arrived' = arrived \cup {seqNo}
           /\ \/ /\ seqNo > lastSeqReceived
                 /\ EnterNewer(seqNo - lastSeqReceived)
                 /\ lastSeqReceived' = seqNo
              \/ /\ seqNo <= lastSeqReceived
                 /\ EnterOlder(seqNo - lastSeqReceived)
                 /\ lastSeqReceived' = lastSeqReceived
    BY <1>1, <1>3, ReceiveCases
  <2> QED BY <1>1, <2>1, NewerKeepsRing, OlderKeepsRing
<1> QED BY <1>2, <1>3 DEF Next

-----------------------------------------------------------------------------
(* The counts *)

\* The last turn is an interval of numbers.
LEMMA LastTurnType ==
  ASSUME TypeOK
  PROVE  lastSeqReceived \in Int /\ LastTurn \subseteq Int
<1>1. lastSeqReceived \in Int
  <2>1. lastSeqReceived \in Nat
    BY DEF TypeOK
  <2> QED BY <2>1
<1> QED BY <1>1, LossBufferAssumption DEF LastTurn

\* The entries with a value, as many as the sequence numbers of the last turn they
\* are the entries of.
LEMMA EntriesCounted ==
  ASSUME RingInv, NEW value
  PROVE  LET numbers == { s \in LastTurn : EntryOf(s) = value }
             entries == { i \in Index : isReceived[i] = value }
         IN  IsFiniteSet(entries) /\ Cardinality(entries) = Cardinality(numbers)
<1> DEFINE numbers == { s \in LastTurn : EntryOf(s) = value }
           entries == { i \in Index : isReceived[i] = value }
           entry == [s \in numbers |-> s % LOSS_BUFFER_SIZE]
<1>1. lastSeqReceived \in Int /\ LastTurn \subseteq Int
  BY LastTurnType DEF RingInv
<1>2. ASSUME NEW s \in LastTurn
      PROVE  /\ s % LOSS_BUFFER_SIZE \in Index
             /\ isReceived[s % LOSS_BUFFER_SIZE] = EntryOf(s)
  BY <1>1, ModType DEF RingInv
<1>3. entry \in [numbers -> entries]
  BY <1>2
<1>4. ASSUME NEW x \in numbers, NEW y \in numbers, entry[x] = entry[y] PROVE x = y
  <2>1. x \in Int /\ y \in Int /\ x \in LastTurn /\ y \in LastTurn
    BY <1>1
  <2>2. x - y < LOSS_BUFFER_SIZE /\ y - x < LOSS_BUFFER_SIZE
    BY <1>1, <2>1, LossBufferAssumption DEF LastTurn
  <2>3. x % LOSS_BUFFER_SIZE = y % LOSS_BUFFER_SIZE
    BY <1>4
  <2> QED BY <2>1, <2>2, <2>3, ModInjective
<1>5. ASSUME NEW i \in entries PROVE \E s \in numbers : entry[s] = i
  <2>1. PICK s \in LastTurn : s % LOSS_BUFFER_SIZE = i
    BY <1>1, ModOnto DEF LastTurn
  <2>2. s \in numbers
    BY <1>2, <2>1
  <2> QED BY <2>1, <2>2
<1>6. IsFiniteSet(numbers)
  <2>1. IsFiniteSet(LastTurn)
    BY <1>1, FS_Interval, LossBufferAssumption DEF LastTurn
  <2> QED BY <2>1, FS_Subset
<1> HIDE DEF entry
<1>7. entry \in Bijection(numbers, entries)
  BY <1>3, <1>4, <1>5 DEF Bijection, Injection, IsInjective, Surjection
<1>8. ExistsBijection(numbers, entries)
  BY <1>7 DEF ExistsBijection
<1> HIDE DEF numbers, entries
<1>9. IsFiniteSet(entries) /\ Cardinality(entries) = Cardinality(numbers)
  BY <1>6, <1>8, FS_Bijection
<1> QED BY <1>9 DEF numbers, entries

\* The entries that are known are the lost and the received ones.
LEMMA TotalIsLostAndReceived ==
  ASSUME TypeOK
  PROVE  LET received == { i \in Index : isReceived[i] = true }
         IN  /\ IsFiniteSet(received)
             /\ lost \in Nat /\ total \in Nat
             /\ total - lost = Cardinality(received)
<1> DEFINE missed   == { i \in Index : isReceived[i] = false }
           received == { i \in Index : isReceived[i] = true }
           known    == { i \in Index : isReceived[i] # unknown }
<1>1. IsFiniteSet(Index)
  BY FS_Interval, LossBufferAssumption DEF Index
<1>2. IsFiniteSet(missed) /\ IsFiniteSet(received)
  BY <1>1, FS_Subset
<1>3. known = missed \cup received /\ missed \cap received = {}
  BY DEF TypeOK, unknown, false, true
<1> HIDE DEF missed, received, known
<1>4. /\ Cardinality(missed) \in Nat /\ Cardinality(received) \in Nat
      /\ Cardinality({}) = 0
  BY <1>2, FS_CardinalityType, FS_EmptySet
<1>5. Cardinality(known) = Cardinality(missed) + Cardinality(received) - Cardinality({})
  BY <1>2, <1>3, FS_Union
<1>6. lost = Cardinality(missed) /\ total = Cardinality(known)
  BY DEF lost, total, missed, known
<1> QED BY <1>2, <1>4, <1>5, <1>6 DEF received

\* With every entry in its place, the counts are those of the packets.
LEMMA RingCounts == RingInv => LossesCounted
<1> SUFFICES ASSUME RingInv PROVE LossesCounted
  OBVIOUS
<1>1. /\ lastSeqReceived \in Int /\ LastTurn \subseteq Int
      /\ LastTurn = lastSeqReceived - LOSS_BUFFER_SIZE + 1 .. lastSeqReceived
  BY LastTurnType DEF RingInv, LastTurn
<1>2. { s \in LastTurn : EntryOf(s) = false } = Window \ arrived
  BY <1>1 DEF EntryOf, Window, true, false, unknown
<1>3. { s \in LastTurn : EntryOf(s) = true } = arrived \cap LastTurn
  BY DEF EntryOf, true, false, unknown
<1>4. Cardinality({ i \in Index : isReceived[i] = false })
        = Cardinality({ s \in LastTurn : EntryOf(s) = false })
  BY EntriesCounted
<1>5. Cardinality({ i \in Index : isReceived[i] = true })
        = Cardinality({ s \in LastTurn : EntryOf(s) = true })
  BY EntriesCounted
<1>6. lost = Cardinality(Window \ arrived)
  BY <1>2, <1>4 DEF lost
<1>7. total - lost = Cardinality(arrived \cap LastTurn)
  BY <1>3, <1>5, TotalIsLostAndReceived DEF RingInv
<1> QED BY <1>1, <1>6, <1>7 DEF LossesCounted

\* With the newest entry received, more packets are counted than lost.
LEMMA RecentCounts == RecentInv => SomeReceived
<1> SUFFICES ASSUME RecentInv, arrived # {} PROVE lost < total
  BY DEF SomeReceived
<1> DEFINE received == { i \in Index : isReceived[i] = true }
<1>1. currentIndex \in received
  BY DEF RecentInv, TypeOK
<1>2. /\ IsFiniteSet(received) /\ lost \in Nat /\ total \in Nat
      /\ total - lost = Cardinality(received)
  BY TotalIsLostAndReceived DEF RecentInv
<1> HIDE DEF received
<1>3. Cardinality(received) \in Nat /\ Cardinality(received) # 0
  BY <1>1, <1>2, FS_CardinalityType, FS_EmptySet
<1> QED BY <1>2, <1>3

-----------------------------------------------------------------------------
(* The theorems *)

\* The entries keep their type and the index stays in the ring, however late a
\* packet comes.
THEOREM TypeOKHolds == Spec => []TypeOK
<1>1. Init => TypeOK
  BY InitRing DEF RingInv
<1> QED BY <1>1, NextType, PTL DEF Spec

\* A receiver never reports a loss of everything, however late a packet comes: the
\* encoder, which divides by 1 - p, has something to divide by.
THEOREM SomeReceivedHolds == Spec => []SomeReceived
<1>1. Init => RecentInv
  BY InitRing
<1>2. Spec => []RecentInv
  BY <1>1, NextRecent, PTL DEF Spec
<1> QED BY <1>2, RecentCounts, PTL

\* The losses reported are those of the last turn, if no packet is a turn late: for
\* 512 entries as for the four of the run.
THEOREM LossesCountedHolds ==
  ASSUME LessThanATurnLate
  PROVE  Spec => []LossesCounted
<1>1. Init => RingInv
  BY InitRing
<1>2. RingInv /\ [Next]_vars => RingInv'
  BY NextRing
<1>3. Spec => []RingInv
  BY <1>1, <1>2, PTL DEF Spec
<1> QED BY <1>3, RingCounts, PTL

=============================================================================

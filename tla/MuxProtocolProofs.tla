------------------------- MODULE MuxProtocolProofs -------------------------
(***************************************************************************)
(* Proofs about MuxProtocol, for any amount of data, any number of losses, *)
(* any reordering and any capacity of the network: what a packet may say   *)
(* of its sender stays true while it is under way, so that an end is told  *)
(* that no data is outstanding, or that its data arrived, only when that   *)
(* is so.                                                                  *)
(*                                                                         *)
(* What MuxProtocol does is what Connection promises: every step of an end *)
(* is, as the two applications see it, one step of the connection or none. *)
(***************************************************************************)
EXTENDS MuxProtocol, SequenceTheorems, FiniteSetTheorems, TLAPS

-----------------------------------------------------------------------------
(* Units in order *)

LEMMA UnitsAreFinite == \A U \in SUBSET Unit : IsFiniteSet(U)
<1> SUFFICES ASSUME NEW U \in SUBSET Unit PROVE IsFiniteSet(U)
  OBVIOUS
<1>1. IsFiniteSet(Unit)
  BY FS_Interval, MuxAssumption DEF Unit
<1> QED BY <1>1, FS_Subset

\* The more units there are, the more are in order.
LEMMA InOrderMonotone ==
  ASSUME NEW V \in SUBSET Unit, NEW U \in SUBSET V
  PROVE  inOrder(U) \in Nat /\ inOrder(V) \in Nat /\ inOrder(U) <= inOrder(V)
<1> DEFINE A == { u \in U : 1 .. u \subseteq U }
           B == { u \in V : 1 .. u \subseteq V }
<1>1. A \subseteq B /\ B \in SUBSET Unit
  OBVIOUS
<1>2. IsFiniteSet(A) /\ IsFiniteSet(B)
  BY <1>1, UnitsAreFinite
<1>3. Cardinality(A) \in Nat /\ Cardinality(B) \in Nat /\ Cardinality(A) <= Cardinality(B)
  BY <1>1, <1>2, FS_Subset, FS_CardinalityType
<1> QED BY <1>3 DEF inOrder

\* The first n units are n in order.
LEMMA InOrderAll ==
  ASSUME NEW n \in Nat
  PROVE  inOrder(1 .. n) = n
<1>1. { u \in 1 .. n : 1 .. u \subseteq 1 .. n } = 1 .. n
  OBVIOUS
<1>2. Cardinality(1 .. n) = n
  BY FS_Interval
<1> QED BY <1>1, <1>2 DEF inOrder

\* No more units are in order than there are.
LEMMA InOrderBound ==
  ASSUME NEW n \in 0 .. MaxUnits, NEW U \in SUBSET (1 .. n)
  PROVE  inOrder(U) \in 0 .. n
<1>1. 1 .. n \in SUBSET Unit /\ n \in Nat
  BY MuxAssumption DEF Unit
<1>2. inOrder(1 .. n) = n
  BY <1>1, InOrderAll
<1>3. inOrder(U) \in Nat /\ inOrder(U) <= inOrder(1 .. n)
  BY <1>1, InOrderMonotone
<1> QED BY <1>1, <1>2, <1>3

LEMMA InOrderType ==
  ASSUME NEW U \in SUBSET Unit
  PROVE  inOrder(U) \in 0 .. MaxUnits
BY InOrderBound, MuxAssumption DEF Unit

LEMMA InOrderNone == inOrder({}) = 0
<1>1. inOrder(1 .. 0) = 0 /\ 1 .. 0 = {}
  BY InOrderAll
<1> QED BY <1>1

-----------------------------------------------------------------------------
(* The network *)

\* What remains of a channel when its i-th packet is taken.
LEMMA TakenFacts ==
  ASSUME NEW S, NEW s \in Seq(S), NEW i \in DOMAIN s
  PROVE  /\ RemoveAt(s, i) \in Seq(S)
         /\ Len(RemoveAt(s, i)) = Len(s) - 1
         /\ Range(RemoveAt(s, i)) \subseteq Range(s)
         /\ Range(s) \subseteq Range(RemoveAt(s, i)) \cup {s[i]}
<1> DEFINE before == SubSeq(s, 1, i - 1)
           behind == SubSeq(s, i + 1, Len(s))
<1>1. Len(s) \in Nat /\ i \in 1 .. Len(s) /\ DOMAIN s = 1 .. Len(s)
  BY LenProperties
<1>2. /\ before \in Seq(S) /\ Len(before) = i - 1
      /\ \A m \in 1 .. i - 1 : before[m] = s[m]
  BY <1>1, LenProperties, SubSeqProperties, ElementOfSeq
<1>3. /\ behind \in Seq(S) /\ Len(behind) = Len(s) - i
      /\ \A m \in 1 .. Len(s) - i : behind[m] = s[m + i]
  BY <1>1, LenProperties, SubSeqProperties, ElementOfSeq
<1>4. Range(before) = { before[m] : m \in 1 .. i - 1 }
      /\ Range(behind) = { behind[m] : m \in 1 .. Len(s) - i }
      /\ Range(s) = { s[m] : m \in 1 .. Len(s) }
  BY <1>1, <1>2, <1>3, RangeEquality
<1> HIDE DEF before, behind
<1>5. Range(before \o behind) = Range(before) \cup Range(behind)
  BY <1>2, <1>3, RangeConcatenation
<1>6. before \o behind \in Seq(S) /\ Len(before \o behind) = Len(s) - 1
  <2>1. /\ before \o behind \in Seq(S)
        /\ Len(before \o behind) = Len(before) + Len(behind)
    BY <1>2, <1>3, ConcatProperties
  <2> QED BY <1>1, <1>2, <1>3, <2>1
<1>7. Range(before) \cup Range(behind) \subseteq Range(s)
  <2>1. \A m \in 1 .. i - 1 : before[m] \in Range(s)
    <3>1. \A m \in 1 .. i - 1 : m \in 1 .. Len(s)
      BY <1>1
    <3> QED BY <3>1, <1>2, <1>4
  <2>2. \A m \in 1 .. Len(s) - i : behind[m] \in Range(s)
    <3>1. \A m \in 1 .. Len(s) - i : m + i \in 1 .. Len(s)
      BY <1>1
    <3> QED BY <3>1, <1>3, <1>4
  <2> QED BY <2>1, <2>2, <1>4
<1>8. Range(s) \subseteq Range(before) \cup Range(behind) \cup {s[i]}
  <2> SUFFICES ASSUME NEW m \in 1 .. Len(s), m # i
               PROVE  s[m] \in Range(before) \cup Range(behind)
    BY <1>4
  <2>1. CASE m < i
    BY <2>1, <1>1, <1>2, <1>4
  <2>2. CASE m > i
    <3>1. m - i \in 1 .. Len(s) - i /\ behind[m - i] = s[m]
      BY <2>2, <1>1, <1>3
    <3> QED BY <3>1, <1>4
  <2> QED BY <2>1, <2>2, <1>1
<1> QED BY <1>5, <1>6, <1>7, <1>8 DEF RemoveAt, before, behind

\* What a channel holds once packets were sent on it.
LEMMA CarryFacts ==
  ASSUME NEW S, NEW s \in Seq(S), NEW new \in Seq(S)
  PROVE  /\ Carry(s, new) \in Seq(S)
         /\ Len(Carry(s, new)) <= Capacity
         /\ Range(Carry(s, new)) \subseteq Range(s) \cup Range(new)
         /\ Len(s) <= Capacity => Range(s) \subseteq Range(Carry(s, new))
<1> DEFINE c == s \o new
           n == IF Len(c) < Capacity THEN Len(c) ELSE Capacity
           d == SubSeq(c, 1, n)
<1>1. /\ c \in Seq(S) /\ Len(c) = Len(s) + Len(new)
      /\ \A m \in 1 .. Len(s) : c[m] = s[m]
      /\ Len(s) \in Nat /\ Len(new) \in Nat
  BY ConcatProperties, LenProperties
<1>2. Range(c) = Range(s) \cup Range(new)
  BY RangeConcatenation
<1> HIDE DEF c
<1>3. n \in 0 .. Len(c) /\ n <= Capacity /\ Len(c) \in Nat /\ DOMAIN c = 1 .. Len(c)
  BY <1>1, MuxAssumption, LenProperties
<1>4. d \in Seq(S) /\ Len(d) = n /\ \A m \in 1 .. n : d[m] = c[m]
  <2> HIDE DEF n
  <2>1. \A m \in 1 .. n : c[m] \in S
    BY <1>1, <1>3, ElementOfSeq
  <2> QED BY <1>3, <2>1, SubSeqProperties
<1>5. /\ Range(d) = { d[m] : m \in 1 .. n } /\ Range(s) = { s[m] : m \in 1 .. Len(s) }
      /\ Range(c) = { c[m] : m \in 1 .. Len(c) }
  BY <1>1, <1>4, RangeEquality
<1>6. Range(d) \subseteq Range(c)
  BY <1>3, <1>4, <1>5
<1>7. ASSUME Len(s) <= Capacity PROVE Range(s) \subseteq Range(d)
  <2>1. Len(s) <= n
    BY <1>1, <1>7, MuxAssumption
  <2> HIDE DEF n, d
  <2> QED BY <1>1, <1>3, <1>4, <1>5, <2>1
<1> QED BY <1>2, <1>3, <1>4, <1>6, <1>7 DEF Carry, c

-----------------------------------------------------------------------------
(* Entries *)

LEMMA EntryOrNone ==
  ASSUME NEW e \in End, mux \in [End -> MuxState \cup {NoMux}]
  PROVE  isMux(e) <=> mux[e] \in MuxState
BY DEF isMux, NoMux, MuxState

LEMMA NewMuxType == newMux \in MuxState /\ newMux # NoMux
<1>1. <<>> \in Seq(SUBSET Unit)
  OBVIOUS
<1> QED BY <1>1, MuxAssumption DEF newMux, MuxState, NoMux

\* What the encoder's work leaves alone.
SameButEncoder(m, k) ==
  /\ k.state = m.state
  /\ k.localSocketReadState = m.localSocketReadState
  /\ k.localSocketWriteState = m.localSocketWriteState
  /\ k.remoteOutstandingData = m.remoteOutstandingData
  /\ k.received = m.received /\ k.toApp = m.toApp /\ k.acks = m.acks

LEMMA OnWindowUpdateOK ==
  ASSUME NEW m \in MuxState, NEW r \in 0 .. MaxUnits, NEW ro, NEW d, NEW c,
         EntryOK(m, r, ro, d, c)
  PROVE  /\ onWindowUpdate(m) \in MuxState
         /\ EntryOK(onWindowUpdate(m), r, ro, d, c)
         /\ SameButEncoder(m, onWindowUpdate(m))
         /\ onWindowUpdate(m).acked = m.acked
<1>1. CASE ~m.isOutstandingData
  BY <1>1 DEF onWindowUpdate, SameButEncoder
<1>2. CASE m.isOutstandingData
  <2> DEFINE k == [m EXCEPT !.queued = @ \cup Unacked(m),
                            !.isOutstandingData = Unacked(m) # {}]
  <2>1. PICK b \in BOOLEAN : b = (Unacked(m) # {})
    OBVIOUS
  <2>2. /\ Unacked(m) \in SUBSET Unit /\ Unacked(m) \subseteq 1 .. m.nread
        /\ Unacked(m) = {} => 1 .. m.nread \subseteq m.acked
        /\ m.nread \in 0 .. MaxUnits
    BY MuxAssumption DEF Unacked, Unit, MuxState
  <2>3. k = [m EXCEPT !.queued = @ \cup Unacked(m), !.isOutstandingData = b]
    BY <2>1
  <2> HIDE DEF k
  <2>4. /\ k \in MuxState /\ SameButEncoder(m, k)
        /\ k.acked = m.acked /\ k.nread = m.nread
        /\ k.queued = m.queued \cup Unacked(m) /\ k.isOutstandingData = b
    BY <2>2, <2>3 DEF MuxState, SameButEncoder
  <2>5. EntryOK(k, r, ro, d, c)
    BY <2>1, <2>2, <2>4 DEF EntryOK, SameButEncoder
  <2>6. onWindowUpdate(m) = k
    BY <1>2 DEF onWindowUpdate, k
  <2> QED BY <2>4, <2>5, <2>6
<1> QED BY <1>1, <1>2

\* n units more were read.
LEMMA HandleInClearOK ==
  ASSUME NEW m \in MuxState, NEW r \in 0 .. MaxUnits, NEW n \in Nat, r + n <= MaxUnits,
         NEW ro, NEW d, NEW c, EntryOK(m, r, ro, d, c)
  PROVE  /\ handleInClear(m, n) \in MuxState
         /\ EntryOK(handleInClear(m, n), r + n, ro, d, c)
         /\ SameButEncoder(m, handleInClear(m, n))
         /\ handleInClear(m, n).acked = m.acked
<1> DEFINE k == [m EXCEPT !.nread = @ + n, !.isOutstandingData = TRUE]
<1>1. m.nread \in 0 .. MaxUnits /\ m.nread <= r /\ m.nread + n \in 0 .. MaxUnits
  <2>1. m.nread \in 0 .. MaxUnits /\ m.nread <= r
    BY DEF MuxState, EntryOK
  <2> QED BY <2>1, MuxAssumption
<1>2. k \in MuxState /\ SameButEncoder(m, k) /\ k.acked = m.acked
      /\ k.nread = m.nread + n /\ k.queued = m.queued /\ k.isOutstandingData = TRUE
  BY <1>1 DEF MuxState, SameButEncoder
<1> HIDE DEF k
<1>3. EntryOK(k, r + n, ro, d, c)
  BY <1>1, <1>2 DEF EntryOK, SameButEncoder
<1>4. r + n \in 0 .. MaxUnits
  BY MuxAssumption
<1>5. /\ onWindowUpdate(k) \in MuxState
      /\ EntryOK(onWindowUpdate(k), r + n, ro, d, c)
      /\ SameButEncoder(k, onWindowUpdate(k))
      /\ onWindowUpdate(k).acked = k.acked
  BY <1>2, <1>3, <1>4, OnWindowUpdateOK
<1> QED BY <1>2, <1>5 DEF handleInClear, SameButEncoder, k

LEMMA OnTimeOutOK ==
  ASSUME NEW m \in MuxState, NEW r \in 0 .. MaxUnits, NEW ro, NEW d, NEW c,
         EntryOK(m, r, ro, d, c)
  PROVE  /\ onTimeOut(m) \in MuxState
         /\ EntryOK(onTimeOut(m), r, ro, d, c)
         /\ SameButEncoder(m, onTimeOut(m))
         /\ onTimeOut(m).acked = m.acked
<1> DEFINE k == [m EXCEPT !.nextTimeout = IF m.isOutstandingData THEN "armed" ELSE "past"]
<1>1. k \in MuxState /\ SameButEncoder(m, k) /\ k.acked = m.acked
      /\ k.nread = m.nread /\ k.queued = m.queued
      /\ k.isOutstandingData = m.isOutstandingData
  BY DEF MuxState, SameButEncoder
<1> HIDE DEF k
<1>2. EntryOK(k, r, ro, d, c)
  BY <1>1 DEF EntryOK, SameButEncoder
<1>3. /\ onWindowUpdate(k) \in MuxState
      /\ EntryOK(onWindowUpdate(k), r, ro, d, c)
      /\ SameButEncoder(k, onWindowUpdate(k))
      /\ onWindowUpdate(k).acked = k.acked
  BY <1>1, <1>2, OnWindowUpdateOK
<1>4. onTimeOut(m) = onWindowUpdate(k)
  BY DEF onTimeOut, k
<1> QED BY <1>1, <1>3, <1>4 DEF SameButEncoder

\* An ACK only adds its units to what is acknowledged.
LEMMA OnAckOK ==
  ASSUME NEW m \in MuxState, NEW r \in 0 .. MaxUnits, NEW ro, NEW d, NEW c,
         EntryOK(m, r, ro, d, c), NEW units \in SUBSET Unit
  PROVE  /\ onAck(m, units) \in MuxState
         /\ EntryOK(onAck(m, units), r, ro, d, c)
         /\ SameButEncoder(m, onAck(m, units))
         /\ onAck(m, units).acked \subseteq m.acked \cup units
<1> DEFINE known == units \cap 1 .. m.nread
           k == [m EXCEPT !.acked = @ \cup known]
           after == onWindowUpdate(k)
           l == [after EXCEPT !.nextTimeout = IF after.isOutstandingData THEN "armed"
                                                                     ELSE "infinite"]
<1>1. k \in MuxState /\ SameButEncoder(m, k) /\ k.acked = m.acked \cup known
      /\ k.nread = m.nread /\ k.queued = m.queued
      /\ k.isOutstandingData = m.isOutstandingData
  BY DEF MuxState, SameButEncoder
<1>2. known \subseteq units
  OBVIOUS
<1>3. onAck(m, units) = IF known = {} THEN m ELSE l
  BY DEF onAck
<1> HIDE DEF k, known
<1>4. EntryOK(k, r, ro, d, c)
  BY <1>1 DEF EntryOK, SameButEncoder
<1>5. /\ after \in MuxState /\ EntryOK(after, r, ro, d, c)
      /\ SameButEncoder(k, after) /\ after.acked = k.acked
  BY <1>1, <1>4, OnWindowUpdateOK
<1> HIDE DEF after
<1>6. l \in MuxState /\ SameButEncoder(after, l) /\ l.acked = after.acked
      /\ l.nread = after.nread /\ l.queued = after.queued
      /\ l.isOutstandingData = after.isOutstandingData
  BY <1>5 DEF MuxState, SameButEncoder
<1> HIDE DEF l
<1>7. EntryOK(l, r, ro, d, c)
  BY <1>5, <1>6 DEF EntryOK, SameButEncoder
<1>8. SameButEncoder(m, l) /\ SameButEncoder(m, m)
  BY <1>1, <1>5, <1>6 DEF SameButEncoder
<1> QED BY <1>1, <1>2, <1>3, <1>5, <1>6, <1>7, <1>8

\* What the decoder's work leaves alone.
SameButDecoder(m, k) ==
  /\ k.state = m.state
  /\ k.localSocketReadState = m.localSocketReadState
  /\ k.localSocketWriteState = m.localSocketWriteState
  /\ k.remoteOutstandingData = m.remoteOutstandingData
  /\ k.isOutstandingData = m.isOutstandingData
  /\ k.nread = m.nread /\ k.acked = m.acked /\ k.queued = m.queued

\* Units the other end read are received, and handed over as far as they are in order.
LEMMA HandleInCodedOK ==
  ASSUME NEW m \in MuxState, NEW r, NEW ro \in 0 .. MaxUnits, NEW d \in 0 .. MaxUnits,
         NEW c, EntryOK(m, r, ro, d, c),
         m.localSocketWriteState = "OPENED", NEW units \in SUBSET (1 .. ro)
  PROVE  /\ handleInCoded(m, units) \in MuxState
         /\ EntryOK(handleInCoded(m, units), r, ro, d, c)
         /\ SameButDecoder(m, handleInCoded(m, units))
         /\ m.received \subseteq handleInCoded(m, units).received
<1> DEFINE got == m.received \cup units
           n == m.toApp + inOrder(got) - inOrder(m.received)
           k == [m EXCEPT !.received = got, !.toApp = n, !.acks = Append(@, got)]
<1>1. /\ m.received \in SUBSET Unit /\ m.toApp \in 0 .. MaxUnits
      /\ m.acks \in Seq(SUBSET Unit) /\ d + m.toApp = inOrder(m.received)
      /\ m.received \subseteq 1 .. ro
      /\ \A j \in DOMAIN m.acks : m.acks[j] \subseteq m.received
  BY DEF MuxState, EntryOK
<1>2. got \in SUBSET Unit /\ m.received \in SUBSET got /\ got \in SUBSET (1 .. ro)
  <2>1. 1 .. ro \subseteq Unit
    BY MuxAssumption DEF Unit
  <2> QED BY <1>1, <2>1
<1> HIDE DEF got
<1>3. /\ inOrder(got) \in 0 .. MaxUnits /\ inOrder(m.received) \in Nat
      /\ inOrder(m.received) <= inOrder(got)
  BY <1>2, InOrderMonotone, InOrderType
<1>4. n \in 0 .. MaxUnits /\ d + n = inOrder(got)
  BY <1>1, <1>3, MuxAssumption
<1> HIDE DEF n
<1>5. /\ Append(m.acks, got) \in Seq(SUBSET Unit)
      /\ \A j \in DOMAIN Append(m.acks, got) : Append(m.acks, got)[j] \subseteq got
  <2>1. /\ Append(m.acks, got) \in Seq(SUBSET Unit)
        /\ Len(Append(m.acks, got)) = Len(m.acks) + 1
        /\ \A j \in 1 .. Len(m.acks) : Append(m.acks, got)[j] = m.acks[j]
        /\ Append(m.acks, got)[Len(m.acks) + 1] = got
    BY <1>1, <1>2, AppendProperties
  <2>2. Len(m.acks) \in Nat /\ DOMAIN m.acks = 1 .. Len(m.acks)
        /\ DOMAIN Append(m.acks, got) = 1 .. Len(m.acks) + 1
    BY <1>1, <2>1, LenProperties
  <2> QED BY <1>1, <1>2, <2>1, <2>2
<1>6. /\ k \in MuxState /\ SameButDecoder(m, k)
      /\ k.received = got /\ k.toApp = n /\ k.acks = Append(m.acks, got)
  BY <1>2, <1>4, <1>5 DEF MuxState, SameButDecoder
<1> HIDE DEF k
<1>7. d + n <= inOrder(got)
  BY <1>3, <1>4
<1>8. EntryOK(k, r, ro, d, c)
  BY <1>2, <1>4, <1>5, <1>6, <1>7 DEF EntryOK, SameButDecoder
<1> QED BY <1>2, <1>6, <1>8 DEF handleInCoded, k, got, n

-----------------------------------------------------------------------------
(* What a step of one end leaves true of the other *)

LEMMA OtherFacts ==
  \A e \in End : /\ Other(e) \in End /\ Other(e) # e /\ Other(Other(e)) = e
                 /\ \A f \in End : f = e \/ f = Other(e)
BY DEF End, Other, CLIENT, PROXY

\* A step of e only goes forward, and changes nothing of its peer but what that gets.
Frame(e) ==
  /\ mux'[Other(e)] = mux[Other(e)]
  /\ read'[Other(e)] = read[Other(e)]
  /\ delivered'[Other(e)] = delivered[Other(e)]
  /\ read[e] <= read'[e]
  /\ connections <= connections'
  /\ accepted => accepted'

\* What e knows of its peer after a step of its own, it knew or was told.
Hears(e) ==
  /\ Acknowledgeable(e) \subseteq Acknowledgeable(e)'
  /\ Range(chan'[e]) \subseteq Range(chan[e])
  /\ isMux(e)' =>
       /\ \A u \in mux'[e].acked :
            \/ isMux(e) /\ u \in mux[e].acked
            \/ \E p \in Range(chan[e]) : p.type = "ACK" /\ u \in p.units
       /\ mux'[e].remoteOutstandingData = "CLOSED_ACKNOWLEDGED" =>
            \/ isMux(e) /\ mux[e].remoteOutstandingData = "CLOSED_ACKNOWLEDGED"
            \/ \E p \in Range(chan[e]) : p.type = "NO_OUTSTANDING_DATA"

\* e takes nothing back of what it said.
Evolves(e) ==
  /\ Acknowledgeable(e) \subseteq Acknowledgeable(e)'
  /\ isMux(e)' /\ Started(e) =>
       /\ isMux(e)
       /\ mux[e].localSocketReadState = "CLOSED_ACKNOWLEDGED" =>
            mux'[e].localSocketReadState = "CLOSED_ACKNOWLEDGED"
       /\ mux'[e].localSocketWriteState = "OPENED" =>
            mux[e].localSocketWriteState = "OPENED" /\ delivered[e] <= delivered'[e]
  /\ read'[e] # read[e] => isMux(e) /\ mux[e].localSocketReadState = "OPENED"

\* e says nothing of its data, nor of its peer's.
SaysNothing(e) ==
  \A p \in Range(chan'[Other(e)]) :
    p.type \in {"ACK", "NO_OUTSTANDING_DATA"} => p \in Range(chan[Other(e)])

LEMMA FrameStarted ==
  ASSUME TypeOK, TypeOK', NEW e \in End, Frame(e), NEW f \in End, Started(f)
  PROVE  Started(f)'
<1>1. CASE f = CLIENT
  <2>1. accepted
    BY <1>1 DEF Started
  <2> QED BY <1>1, <2>1 DEF Started, Frame
<1>2. CASE f # CLIENT
  <2>1. connections > 0
    BY <1>2 DEF Started
  <2>2. connections \in Nat /\ connections' \in Nat /\ connections <= connections'
    BY DEF Frame, TypeOK
  <2> QED BY <1>2, <2>1, <2>2 DEF Started
<1> QED BY <1>1, <1>2

LEMMA PeerEntry ==
  ASSUME TypeOK, TypeOK', NEW e \in End, Frame(e), EntryInv(Other(e))
  PROVE  EntryInv(Other(e))'
<1> DEFINE f == Other(e)
<1>1. f \in End /\ Other(f) = e
  BY OtherFacts
<1> SUFFICES ASSUME isMux(f)'
             PROVE  Started(f)' /\ EntryOK(mux[f], read[f], read[e], delivered[f], connections)'
  BY <1>1 DEF EntryInv
<1>2. Started(f) /\ EntryOK(mux[f], read[f], read[e], delivered[f], connections)
  BY <1>1 DEF EntryInv, Frame, isMux
<1>3. connections' \in Nat /\ connections \in Nat /\ connections <= connections'
      /\ 1 .. read[e] \subseteq 1 .. read'[e]
  BY DEF TypeOK, Frame
<1>4. mux'[f] = mux[f] /\ read'[f] = read[f] /\ delivered'[f] = delivered[f]
  BY DEF Frame
<1> HIDE DEF f
<1> QED BY <1>1, <1>2, <1>3, <1>4, FrameStarted DEF EntryOK

LEMMA PeerAcknowledgeable ==
  ASSUME TypeOK, TypeOK', NEW e \in End, Frame(e)
  PROVE  Acknowledgeable(Other(e)) \subseteq Acknowledgeable(Other(e))'
BY FrameStarted, OtherFacts DEF Acknowledgeable, Frame, isMux

\* What e knows stays true when it only hears.
LEMMA HearsInStep ==
  ASSUME TypeOK, TypeOK', NEW e \in End, Frame(e), Hears(e), AckInv(e), AnnouncedInv(e)
  PROVE  AckInv(e)' /\ AnnouncedInv(e)'
<1> DEFINE f == Other(e)
<1>1. f \in End /\ Other(f) = e /\ Acknowledgeable(f) \subseteq Acknowledgeable(f)'
  BY OtherFacts, PeerAcknowledgeable
<1>2. /\ mux'[f] = mux[f] /\ read'[f] = read[f] /\ delivered'[f] = delivered[f]
      /\ isMux(f)' <=> isMux(f)
      /\ Started(f) => Started(f)'
  BY <1>1, FrameStarted DEF Frame, isMux
<1>3. AckInv(e)'
  <2>1. PICK known \in SUBSET Acknowledgeable(f) :
          /\ isMux(e) => mux[e].acked \subseteq known
          /\ \A p \in Range(chan[e]) : p.type = "ACK" => p.units \subseteq known
          /\ isMux(f) /\ mux[f].localSocketWriteState = "OPENED" =>
               inOrder(known) <= delivered[f]
    BY DEF AckInv
  <2>2. isMux(e)' => mux'[e].acked \subseteq known
    BY <2>1 DEF Hears
  <2>3. \A p \in Range(chan'[e]) : p.type = "ACK" => p.units \subseteq known
    BY <2>1 DEF Hears
  <2>4. known \in SUBSET Acknowledgeable(f)'
    BY <1>1
  <2> HIDE DEF f
  <2>5. isMux(f)' /\ mux'[f].localSocketWriteState = "OPENED" =>
          inOrder(known) <= delivered'[f]
    BY <1>2, <2>1
  <2> QED BY <2>2, <2>3, <2>4, <2>5 DEF AckInv, f
<1>4. AnnouncedInv(e)'
  <2> SUFFICES ASSUME Announced(e)'
               PROVE  /\ 1 .. read'[f] \subseteq Acknowledgeable(e)'
                      /\ Started(f)'
                      /\ isMux(f)' => mux'[f].localSocketReadState = "CLOSED_ACKNOWLEDGED"
    BY DEF AnnouncedInv
  <2>1. Announced(e)
    BY DEF Announced, Hears
  <2>2. /\ 1 .. read[f] \subseteq Acknowledgeable(e) /\ Started(f)
        /\ isMux(f) => mux[f].localSocketReadState = "CLOSED_ACKNOWLEDGED"
    BY <2>1 DEF AnnouncedInv
  <2>3. Acknowledgeable(e) \subseteq Acknowledgeable(e)'
    BY DEF Hears
  <2> HIDE DEF f
  <2> QED BY <1>2, <2>2, <2>3
<1> QED BY <1>3, <1>4

\* What e's peer knows of e stays true when e goes on without a word.
LEMMA EvolvesInStep ==
  ASSUME TypeOK, TypeOK', NEW e \in End, Frame(e), Evolves(e), SaysNothing(e),
         EntryInv(e), AckInv(Other(e)), AnnouncedInv(Other(e))
  PROVE  AckInv(Other(e))' /\ AnnouncedInv(Other(e))'
<1> DEFINE f == Other(e)
<1>1. f \in End /\ Other(f) = e /\ Acknowledgeable(f) \subseteq Acknowledgeable(f)'
  BY OtherFacts, PeerAcknowledgeable
<1>2. /\ mux'[f] = mux[f] /\ (isMux(f)' <=> isMux(f))
      /\ Acknowledgeable(e) \subseteq Acknowledgeable(e)'
      /\ Started(e) => Started(e)'
      /\ ~Started(e) => Acknowledgeable(e) = {}
  BY FrameStarted DEF Frame, isMux, Evolves, Acknowledgeable, EntryInv
<1>3. AckInv(f)'
  <2>1. PICK known \in SUBSET Acknowledgeable(e) :
          /\ isMux(f) => mux[f].acked \subseteq known
          /\ \A p \in Range(chan[f]) : p.type = "ACK" => p.units \subseteq known
          /\ isMux(e) /\ mux[e].localSocketWriteState = "OPENED" =>
               inOrder(known) <= delivered[e]
    BY <1>1 DEF AckInv
  <2>2. \A p \in Range(chan'[f]) : p.type = "ACK" => p.units \subseteq known
    BY <2>1 DEF SaysNothing
  <2>3. ASSUME isMux(e)', mux'[e].localSocketWriteState = "OPENED"
        PROVE  inOrder(known) <= delivered'[e]
    <3>1. CASE ~Started(e)
      <4>1. known = {} /\ delivered'[e] >= 0
        BY <1>2, <3>1 DEF TypeOK
      <4> QED BY <4>1, InOrderNone
    <3>2. CASE Started(e)
      <4>1. /\ isMux(e) /\ mux[e].localSocketWriteState = "OPENED"
            /\ delivered[e] <= delivered'[e]
        BY <2>3, <3>2 DEF Evolves
      <4>2. inOrder(known) \in Nat
        <5>1. Acknowledgeable(e) \in SUBSET Unit
          BY EntryOrNone DEF Acknowledgeable, TypeOK, MuxState
        <5> QED BY <5>1, InOrderType
      <4>3. inOrder(known) <= delivered[e] /\ delivered[e] \in Nat /\ delivered'[e] \in Nat
        BY <2>1, <4>1 DEF TypeOK
      <4> QED BY <4>1, <4>2, <4>3
    <3> QED BY <3>1, <3>2
  <2>4. known \in SUBSET Acknowledgeable(e)' /\ (isMux(f)' => mux'[f].acked \subseteq known)
    BY <1>2, <2>1
  <2> HIDE DEF f
  <2> QED BY <1>1, <2>2, <2>3, <2>4 DEF AckInv
<1>4. AnnouncedInv(f)'
  <2> SUFFICES ASSUME Announced(f)'
               PROVE  /\ 1 .. read'[e] \subseteq Acknowledgeable(f)'
                      /\ Started(e)'
                      /\ isMux(e)' => mux'[e].localSocketReadState = "CLOSED_ACKNOWLEDGED"
    BY <1>1 DEF AnnouncedInv
  <2>1. Announced(f)
    BY <1>2 DEF Announced, SaysNothing
  <2>2. /\ 1 .. read[e] \subseteq Acknowledgeable(f) /\ Started(e)
        /\ isMux(e) => mux[e].localSocketReadState = "CLOSED_ACKNOWLEDGED"
    BY <1>1, <2>1 DEF AnnouncedInv
  <2>3. read'[e] = read[e]
    BY <2>2 DEF Evolves
  <2> HIDE DEF f
  <2>4. isMux(e)' => mux'[e].localSocketReadState = "CLOSED_ACKNOWLEDGED"
    BY <2>2 DEF Evolves
  <2> QED BY <1>1, <1>2, <2>2, <2>3, <2>4
<1> QED BY <1>3, <1>4

\* A step of e keeps the invariant if it keeps what that says of e, of both channels
\* and of what the ends know of each other.
LEMMA StepInv ==
  ASSUME MuxInv, NEW e \in End, TypeOK', Frame(e), EntryInv(e)', QuietInv(e)',
         QuietInv(Other(e))',
         connections' <= 1 => /\ AckInv(e)' /\ AnnouncedInv(e)'
                              /\ AckInv(Other(e))' /\ AnnouncedInv(Other(e))'
  PROVE  MuxInv'
<1>1. EntryInv(Other(e))'
  BY PeerEntry, OtherFacts DEF MuxInv
<1> QED BY <1>1, OtherFacts DEF MuxInv

-----------------------------------------------------------------------------
(* Steps within an end *)

\* A step that only works on an entry, and reads at most.
Works(e, k) ==
  /\ isMux(e) /\ k \in MuxState
  /\ mux' = [mux EXCEPT ![e] = k]
  /\ EntryOK(k, read'[e], read[Other(e)], delivered[e], connections)
  /\ k.acked = mux[e].acked /\ k.received = mux[e].received
  /\ k.remoteOutstandingData = mux[e].remoteOutstandingData
  /\ mux[e].localSocketReadState = "CLOSED_ACKNOWLEDGED" =>
       k.localSocketReadState = "CLOSED_ACKNOWLEDGED"
  /\ k.localSocketWriteState = "OPENED" => mux[e].localSocketWriteState = "OPENED"
  /\ read' \in [End -> 0 .. MaxUnits]
  /\ read'[Other(e)] = read[Other(e)] /\ read[e] <= read'[e]
  /\ read'[e] # read[e] => mux[e].localSocketReadState = "OPENED"
  /\ phase' \in [End -> Select .. TcpServed]
  /\ UNCHANGED <<chan, accepted, connections, delivered, lost>>

LEMMA WorkKeepsInv ==
  ASSUME MuxInv, NEW e \in End, NEW k, Works(e, k)
  PROVE  MuxInv'
<1> DEFINE f == Other(e)
<1>1. f \in End /\ f # e /\ Other(f) = e
  BY OtherFacts
<1>2. TypeOK /\ EntryInv(e) /\ QuietInv(e) /\ QuietInv(f)
      /\ (connections <= 1 => AckInv(e) /\ AnnouncedInv(e) /\ AckInv(f) /\ AnnouncedInv(f))
  BY <1>1 DEF MuxInv
<1>3. /\ mux' \in [End -> MuxState \cup {NoMux}] /\ mux'[e] = k
      /\ \A g \in End : g # e => mux'[g] = mux[g]
  BY <1>2 DEF Works, TypeOK
<1>4. TypeOK'
  BY <1>2, <1>3 DEF Works, TypeOK
<1>5. Frame(e)
  BY <1>1, <1>2, <1>3 DEF Works, Frame, TypeOK
<1>6. isMux(e)' /\ isMux(e) /\ Started(e) /\ (Started(e)' <=> Started(e))
  BY <1>2, <1>3, <1>4, EntryOrNone DEF Works, EntryInv, Started, isMux, NoMux, MuxState
<1>7. EntryInv(e)'
  <2>1. EntryOK(mux'[e], read'[e], read'[f], delivered'[e], connections')
    BY <1>3 DEF Works
  <2> QED BY <1>6, <2>1 DEF EntryInv
<1>8. Acknowledgeable(e)' = Acknowledgeable(e)
  BY <1>3, <1>6 DEF Works, Acknowledgeable
<1>9. chan' = chan /\ QuietInv(e)' /\ QuietInv(f)'
  <2>1. 1 .. read[e] \subseteq 1 .. read'[e]
    BY <1>2, <1>4 DEF Works, TypeOK
  <2>2. Started(f)' <=> Started(f)
    BY DEF Started, Works
  <2> QED BY <1>1, <1>2, <1>6, <2>1, <2>2 DEF Works, QuietInv
<1>10. Hears(e)
  BY <1>3, <1>6, <1>8 DEF Works, Hears
<1>11. Evolves(e) /\ SaysNothing(e)
  <2>1. delivered[e] <= delivered'[e]
    BY <1>2 DEF Works, TypeOK
  <2> QED BY <1>3, <1>6, <1>8, <2>1 DEF Works, Evolves, SaysNothing
<1>12. connections' = connections
  BY DEF Works
<1> HIDE DEF f
<1> QED BY <1>2, <1>4, <1>5, <1>7, <1>9, <1>10, <1>11, <1>12, StepInv, HearsInStep,
           EvolvesInStep DEF f

\* What the proofs about an end's own steps need of its entry.
LEMMA OwnEntry ==
  ASSUME MuxInv, NEW e \in End, isMux(e)
  PROVE  /\ mux[e] \in MuxState
         /\ EntryOK(mux[e], read[e], read[Other(e)], delivered[e], connections)
         /\ read[e] \in 0 .. MaxUnits /\ read[Other(e)] \in 0 .. MaxUnits
         /\ delivered[e] \in 0 .. MaxUnits
         /\ connections \in Nat
BY EntryOrNone, OtherFacts DEF MuxInv, TypeOK, EntryInv

LEMMA PhaseType ==
  ASSUME TypeOK, NEW e \in End, NEW p \in Select .. TcpServed
  PROVE  [phase EXCEPT ![e] = p] \in [End -> Select .. TcpServed]
BY DEF TypeOK

LEMMA PhasesInRange ==
  /\ Select \in Select .. TcpServed /\ TimerServed \in Select .. TcpServed
  /\ UdpServed \in Select .. TcpServed /\ ListenerServed \in Select .. TcpServed
  /\ TcpServed \in Select .. TcpServed
BY DEF Select, TimerServed, UdpServed, ListenerServed, TcpServed

LEMMA ReadKept ==
  ASSUME TypeOK, read' = read, NEW e \in End
  PROVE  /\ read' \in [End -> 0 .. MaxUnits] /\ read'[e] = read[e]
         /\ read'[Other(e)] = read[Other(e)] /\ read[e] <= read'[e]
BY MuxAssumption DEF TypeOK

LEMMA TimeOutInv == \A e \in End : MuxInv /\ TimeOut(e) => MuxInv'
<1> SUFFICES ASSUME NEW e \in End, MuxInv, TimeOut(e) PROVE MuxInv'
  OBVIOUS
<1> DEFINE k == onTimeOut(mux[e])
<1>1. TypeOK /\ isMux(e)
  BY DEF MuxInv, TimeOut
<1>2. /\ k \in MuxState /\ SameButEncoder(mux[e], k) /\ k.acked = mux[e].acked
      /\ EntryOK(k, read[e], read[Other(e)], delivered[e], connections)
  BY <1>1, OwnEntry, OnTimeOutOK
<1>3. mux' = [mux EXCEPT ![e] = k] /\ read' = read
      /\ UNCHANGED <<chan, accepted, connections, delivered, lost>>
  BY DEF TimeOut
<1>4. phase' \in [End -> Select .. TcpServed]
  BY <1>1, PhaseType, PhasesInRange DEF TimeOut
<1> HIDE DEF k
<1>5. Works(e, k)
  BY <1>1, <1>2, <1>3, <1>4, ReadKept DEF Works, SameButEncoder
<1> QED BY <1>5, WorkKeepsInv

LEMMA ReadTcpInv == \A e \in End : MuxInv /\ ReadTcp(e) => MuxInv'
<1> SUFFICES ASSUME NEW e \in End, MuxInv, ReadTcp(e) PROVE MuxInv'
  OBVIOUS
<1> DEFINE k == handleInClear(mux[e], 1)
<1>1. TypeOK /\ isMux(e) /\ mux[e].localSocketReadState = "OPENED"
  BY DEF MuxInv, ReadTcp, Readable
<1>2. read[e] \in Nat /\ read[e] + 1 <= MaxUnits
  BY <1>1, MuxAssumption DEF ReadTcp, TypeOK
<1>3. /\ k \in MuxState /\ SameButEncoder(mux[e], k) /\ k.acked = mux[e].acked
      /\ EntryOK(k, read[e] + 1, read[Other(e)], delivered[e], connections)
  BY <1>1, <1>2, OwnEntry, HandleInClearOK
<1>4. mux' = [mux EXCEPT ![e] = k] /\ read' = [read EXCEPT ![e] = @ + 1]
      /\ UNCHANGED <<chan, accepted, connections, delivered, lost>>
  BY DEF ReadTcp
<1>5. /\ read'[e] = read[e] + 1 /\ read'[Other(e)] = read[Other(e)]
      /\ read' \in [End -> 0 .. MaxUnits]
  BY <1>1, <1>2, <1>4, OtherFacts, MuxAssumption DEF TypeOK
<1>6. phase' \in [End -> Select .. TcpServed]
  BY <1>1, PhaseType, PhasesInRange DEF ReadTcp
<1> HIDE DEF k
<1>7. read[e] <= read'[e]
  BY <1>2, <1>5
<1>8. Works(e, k)
  BY <1>1, <1>3, <1>4, <1>5, <1>6, <1>7 DEF Works, SameButEncoder
<1> QED BY <1>8, WorkKeepsInv

LEMMA ReadTcpFailsInv == \A e \in End : MuxInv /\ ReadTcpFails(e) => MuxInv'
<1> SUFFICES ASSUME NEW e \in End, MuxInv, ReadTcpFails(e) PROVE MuxInv'
  OBVIOUS
<1> DEFINE k == handleInClear(mux[e], 0)
<1>1. TypeOK /\ isMux(e)
  BY DEF MuxInv, ReadTcpFails, Readable
<1>2. read[e] \in 0 .. MaxUnits /\ read[e] + 0 <= MaxUnits /\ read[e] + 0 = read[e]
  BY <1>1, MuxAssumption DEF TypeOK
<1>3. /\ k \in MuxState /\ SameButEncoder(mux[e], k) /\ k.acked = mux[e].acked
      /\ EntryOK(k, read[e] + 0, read[Other(e)], delivered[e], connections)
  BY <1>1, <1>2, OwnEntry, HandleInClearOK
<1>4. mux' = [mux EXCEPT ![e] = k] /\ read' = read
      /\ UNCHANGED <<chan, accepted, connections, delivered, lost>>
  BY DEF ReadTcpFails
<1>5. phase' \in [End -> Select .. TcpServed]
  BY <1>1, PhaseType, PhasesInRange DEF ReadTcpFails
<1> HIDE DEF k
<1>6. Works(e, k)
  BY <1>1, <1>2, <1>3, <1>4, <1>5, ReadKept DEF Works, SameButEncoder
<1> QED BY <1>6, WorkKeepsInv

LEMMA ReadEndInv == \A e \in End : MuxInv /\ ReadEnd(e) => MuxInv'
<1> SUFFICES ASSUME NEW e \in End, MuxInv, ReadEnd(e) PROVE MuxInv'
  OBVIOUS
<1> DEFINE k == [mux[e] EXCEPT !.localSocketReadState = "CLOSED_ACKNOWLEDGED"]
<1>1. TypeOK /\ isMux(e)
  BY DEF MuxInv, ReadEnd, Readable
<1>2. mux[e] \in MuxState
      /\ EntryOK(mux[e], read[e], read[Other(e)], delivered[e], connections)
  BY <1>1, OwnEntry
<1>3. /\ k \in MuxState /\ k.acked = mux[e].acked /\ k.received = mux[e].received
      /\ k.remoteOutstandingData = mux[e].remoteOutstandingData
      /\ k.localSocketReadState = "CLOSED_ACKNOWLEDGED"
      /\ k.localSocketWriteState = mux[e].localSocketWriteState
      /\ EntryOK(k, read[e], read[Other(e)], delivered[e], connections)
  BY <1>2 DEF MuxState, EntryOK
<1>4. mux' = [mux EXCEPT ![e] = k] /\ read' = read
      /\ UNCHANGED <<chan, accepted, connections, delivered, lost>>
  BY <1>1 DEF ReadEnd, TypeOK
<1>5. phase' \in [End -> Select .. TcpServed]
  BY <1>1, PhaseType, PhasesInRange DEF ReadEnd
<1> HIDE DEF k
<1>6. Works(e, k)
  BY <1>1, <1>3, <1>4, <1>5, ReadKept DEF Works
<1> QED BY <1>6, WorkKeepsInv

LEMMA ElapseInv == \A e \in End : MuxInv /\ Elapse(e) => MuxInv'
<1> SUFFICES ASSUME NEW e \in End, MuxInv, Elapse(e) PROVE MuxInv'
  OBVIOUS
<1> DEFINE k == [mux[e] EXCEPT !.announced = FALSE]
<1>1. TypeOK /\ isMux(e)
  BY DEF MuxInv, Elapse
<1>2. mux[e] \in MuxState
      /\ EntryOK(mux[e], read[e], read[Other(e)], delivered[e], connections)
  BY <1>1, OwnEntry
<1>3. /\ k \in MuxState /\ k.acked = mux[e].acked /\ k.received = mux[e].received
      /\ k.remoteOutstandingData = mux[e].remoteOutstandingData
      /\ k.localSocketReadState = mux[e].localSocketReadState
      /\ k.localSocketWriteState = mux[e].localSocketWriteState
      /\ EntryOK(k, read[e], read[Other(e)], delivered[e], connections)
  BY <1>2 DEF MuxState, EntryOK
<1>4. mux' = [mux EXCEPT ![e] = k] /\ read' = read
      /\ UNCHANGED <<phase, chan, accepted, connections, delivered, lost>>
  BY <1>1 DEF Elapse, TypeOK
<1> HIDE DEF k
<1>5. Works(e, k)
  <2>1. phase' \in [End -> Select .. TcpServed]
    BY <1>1, <1>4 DEF TypeOK
  <2> QED BY <1>1, <1>3, <1>4, <2>1, ReadKept DEF Works
<1> QED BY <1>5, WorkKeepsInv

\* What was decoded is dropped: the end can write no more, and owes less.
LEMMA ProcessFailsInv == \A e \in End : MuxInv /\ ProcessFails(e) => MuxInv'
<1> SUFFICES ASSUME NEW e \in End, MuxInv, ProcessFails(e) PROVE MuxInv'
  OBVIOUS
<1> DEFINE k == Failed(mux[e])
<1>1. TypeOK /\ isMux(e)
  BY DEF MuxInv, ProcessFails
<1>2. mux[e] \in MuxState
      /\ EntryOK(mux[e], read[e], read[Other(e)], delivered[e], connections)
  BY <1>1, OwnEntry
<1>3. /\ k \in MuxState /\ k.acked = mux[e].acked /\ k.received = mux[e].received
      /\ k.remoteOutstandingData = mux[e].remoteOutstandingData
      /\ k.localSocketReadState = mux[e].localSocketReadState
      /\ k.localSocketWriteState = "CLOSED_NOT_ACKNOWLEDGED" /\ k.toApp = 0
      /\ k.state = mux[e].state /\ k.nread = mux[e].nread /\ k.queued = mux[e].queued
      /\ k.isOutstandingData = mux[e].isOutstandingData /\ k.acks = mux[e].acks
  <2>1. 0 \in 0 .. MaxUnits
    BY MuxAssumption
  <2> QED BY <1>2, <2>1 DEF Failed, MuxState
<1>4. delivered[e] + 0 <= inOrder(mux[e].received)
  <2>1. mux[e].received \in SUBSET Unit /\ mux[e].toApp \in Nat
        /\ delivered[e] + mux[e].toApp <= inOrder(mux[e].received) /\ delivered[e] \in Nat
    BY <1>1, <1>2 DEF MuxState, EntryOK, TypeOK
  <2>2. inOrder(mux[e].received) \in Nat
    BY <2>1, InOrderType
  <2> QED BY <2>1, <2>2
<1>5. EntryOK(k, read[e], read[Other(e)], delivered[e], connections)
  BY <1>2, <1>3, <1>4 DEF EntryOK
<1>6. mux' = [mux EXCEPT ![e] = k] /\ read' = read
      /\ UNCHANGED <<chan, accepted, connections, delivered, lost>>
  BY DEF ProcessFails
<1>7. phase' \in [End -> Select .. TcpServed]
  BY <1>1, PhaseType, PhasesInRange DEF ProcessFails
<1> HIDE DEF k
<1>8. Works(e, k)
  BY <1>1, <1>3, <1>5, <1>6, <1>7, ReadKept DEF Works
<1> QED BY <1>8, WorkKeepsInv

-----------------------------------------------------------------------------
(* Packets *)

\* What a loss leaves of the channels.
LEMMA LoseInv == \A e \in End : MuxInv /\ Lose(e) => MuxInv'
<1> SUFFICES ASSUME NEW e \in End, MuxInv, Lose(e) PROVE MuxInv'
  OBVIOUS
<1> DEFINE f == Other(e)
<1>1. f \in End /\ f # e /\ Other(f) = e
  BY OtherFacts
<1>2. TypeOK /\ EntryInv(e) /\ QuietInv(e) /\ QuietInv(f)
      /\ (connections <= 1 => AckInv(e) /\ AnnouncedInv(e) /\ AckInv(f) /\ AnnouncedInv(f))
  BY <1>1 DEF MuxInv
<1>3. PICK i \in Arrivals(e) : chan' = [chan EXCEPT ![e] = RemoveAt(@, i)]
  BY DEF Lose
<1>4. UNCHANGED <<mux, phase, accepted, connections, read, delivered>>
      /\ lost' \in 0 .. MaxLosses
  BY <1>2, MuxAssumption DEF Lose, TypeOK
<1>5. chan[e] \in Seq(Message) /\ i \in DOMAIN chan[e]
      /\ chan'[e] = RemoveAt(chan[e], i) /\ chan'[f] = chan[f]
  BY <1>1, <1>2, <1>3 DEF TypeOK, Arrivals
<1>6. /\ chan'[e] \in Seq(Message) /\ Range(chan'[e]) \subseteq Range(chan[e])
      /\ Len(chan'[e]) = Len(chan[e]) - 1 /\ Len(chan[e]) \in Nat
  BY <1>5, TakenFacts, LenProperties
<1>7. TypeOK'
  BY <1>2, <1>3, <1>4, <1>5, <1>6 DEF TypeOK
<1>8. Frame(e)
  BY <1>1, <1>2, <1>4, ReadKept DEF Frame, TypeOK
<1>9. /\ Acknowledgeable(e)' = Acknowledgeable(e) /\ (isMux(e)' <=> isMux(e))
      /\ \A g \in End : Started(g)' <=> Started(g)
  BY <1>4 DEF Acknowledgeable, isMux, Started
<1>10. EntryInv(e)'
  BY <1>2, <1>4, <1>9 DEF EntryInv
<1>11. QuietInv(e)' /\ QuietInv(f)'
  <2>1. accepted
    BY <1>2, <1>5 DEF QuietInv
  <2>2. Len(chan'[e]) <= Capacity
    BY <1>2, <1>6, MuxAssumption DEF QuietInv
  <2> QED BY <1>1, <1>2, <1>4, <1>5, <1>6, <1>9, <2>1, <2>2 DEF QuietInv
<1>12. Hears(e) /\ Evolves(e) /\ SaysNothing(e)
  BY <1>2, <1>4, <1>5, <1>6, <1>9 DEF Hears, Evolves, SaysNothing, TypeOK
<1> HIDE DEF f
<1> QED BY <1>2, <1>4, <1>7, <1>8, <1>10, <1>11, <1>12, StepInv, HearsInStep,
           EvolvesInStep DEF f

LEMMA HandledChannels ==
  ASSUME MuxInv, NEW e \in End, NEW i \in Arrivals(e), NEW k, NEW reply \in Seq(Message),
         Handled(e, i, k, reply)
  PROVE  /\ chan' \in [End -> Seq(Message)]
         /\ chan[e][i] \in Message /\ chan[e][i] \in Range(chan[e])
         /\ Range(chan'[e]) \subseteq Range(chan[e])
         /\ Range(chan[e]) \subseteq Range(chan'[e]) \cup {chan[e][i]}
         /\ Range(chan'[Other(e)]) \subseteq Range(chan[Other(e)]) \cup Range(reply)
         /\ Range(chan[Other(e)]) \subseteq Range(chan'[Other(e)])
         /\ \A g \in End : Len(chan'[g]) <= Capacity
         /\ accepted
<1> DEFINE f == Other(e)
<1>1. f \in End /\ f # e /\ \A g \in End : g = e \/ g = f
  BY OtherFacts
<1>2. /\ chan[e] \in Seq(Message) /\ chan[f] \in Seq(Message)
      /\ chan \in [End -> Seq(Message)]
      /\ Len(chan[e]) <= Capacity /\ Len(chan[f]) <= Capacity
      /\ i \in DOMAIN chan[e]
      /\ ~accepted => chan[e] = <<>>
  BY <1>1 DEF MuxInv, TypeOK, QuietInv, Arrivals
<1>3. chan'[e] = RemoveAt(chan[e], i) /\ chan'[f] = Carry(chan[f], reply)
      /\ chan' = [chan EXCEPT ![e] = RemoveAt(@, i), ![f] = Carry(@, reply)]
  BY <1>1, <1>2 DEF Handled
<1>4. chan[e][i] \in Message /\ chan[e][i] \in Range(chan[e]) /\ accepted
  BY <1>2, ElementOfSeq, LenProperties DEF Range
<1> HIDE DEF f
<1>5. /\ RemoveAt(chan[e], i) \in Seq(Message)
      /\ Len(RemoveAt(chan[e], i)) = Len(chan[e]) - 1 /\ Len(chan[e]) \in Nat
      /\ Range(RemoveAt(chan[e], i)) \subseteq Range(chan[e])
      /\ Range(chan[e]) \subseteq Range(RemoveAt(chan[e], i)) \cup {chan[e][i]}
  BY <1>2, TakenFacts, LenProperties
<1>6. /\ Carry(chan[f], reply) \in Seq(Message) /\ Len(Carry(chan[f], reply)) <= Capacity
      /\ Range(Carry(chan[f], reply)) \subseteq Range(chan[f]) \cup Range(reply)
      /\ Range(chan[f]) \subseteq Range(Carry(chan[f], reply))
  BY <1>2, CarryFacts
<1>7. \A g \in End : Len(chan'[g]) <= Capacity
  <2>1. Len(chan'[e]) <= Capacity
    BY <1>2, <1>3, <1>5, MuxAssumption
  <2>2. Len(chan'[f]) <= Capacity
    BY <1>3, <1>6
  <2> QED BY <1>1, <2>1, <2>2
<1> QED BY <1>1, <1>2, <1>3, <1>4, <1>5, <1>6, <1>7 DEF f

\* A packet whose reply says nothing of data keeps the invariant, if the entry that is
\* left is one, and says no more than the packet did.
LEMMA HandledKeepsInv ==
  ASSUME MuxInv, NEW e \in End, NEW i \in Arrivals(e), NEW k \in MuxState \cup {NoMux},
         NEW reply \in Seq(Message), Handled(e, i, k, reply),
         \A p \in Range(reply) : p.type \notin {"DATA", "ACK", "NO_OUTSTANDING_DATA"},
         delivered' \in [End -> 0 .. MaxUnits], delivered'[Other(e)] = delivered[Other(e)],
         ~Started(e)' => delivered'[e] = 0,
         connections' \in Nat, connections <= connections',
         isMux(e)' => /\ Started(e)'
                      /\ EntryOK(k, read[e], read[Other(e)], delivered'[e], connections'),
         connections' <= 1 => Hears(e) /\ Evolves(e)
  PROVE  MuxInv'
<1> DEFINE f == Other(e)
<1>1. f \in End /\ f # e /\ Other(f) = e
  BY OtherFacts
<1>2. TypeOK /\ EntryInv(e) /\ QuietInv(e) /\ QuietInv(f)
      /\ (connections <= 1 => AckInv(e) /\ AnnouncedInv(e) /\ AckInv(f) /\ AnnouncedInv(f))
  BY <1>1 DEF MuxInv
<1>3. mux' = [mux EXCEPT ![e] = k] /\ phase' = [phase EXCEPT ![e] = UdpServed]
      /\ UNCHANGED <<accepted, read, lost>>
  BY DEF Handled
<1>4. mux'[e] = k /\ mux'[f] = mux[f] /\ mux' \in [End -> MuxState \cup {NoMux}]
  BY <1>1, <1>2, <1>3 DEF TypeOK
<1>5. TypeOK'
  <2>1. phase' \in [End -> Select .. TcpServed]
    BY <1>2, <1>3, PhaseType, PhasesInRange
  <2>2. chan' \in [End -> Seq(Message)]
    BY HandledChannels
  <2> QED BY <1>2, <1>3, <1>4, <2>1, <2>2 DEF TypeOK
<1>6. Frame(e)
  BY <1>1, <1>2, <1>3, <1>4, ReadKept DEF Frame
<1>7. EntryInv(e)'
  BY <1>3, <1>4 DEF EntryInv
<1>8. /\ Range(chan'[e]) \subseteq Range(chan[e])
      /\ Range(chan'[f]) \subseteq Range(chan[f]) \cup Range(reply)
      /\ Len(chan'[e]) <= Capacity /\ Len(chan'[f]) <= Capacity /\ accepted'
  BY <1>1, <1>3, HandledChannels
<1>9. QuietInv(e)' /\ QuietInv(f)'
  <2>1. Started(e) => Started(e)'
    BY <1>2, <1>5, <1>6, FrameStarted
  <2>2. Started(f) => Started(f)'
    BY <1>1, <1>2, <1>5, <1>6, FrameStarted
  <2> QED BY <1>1, <1>2, <1>3, <1>8, <2>1, <2>2 DEF QuietInv
<1>10. SaysNothing(e)
  BY <1>8 DEF SaysNothing
<1>11. connections' <= 1 => connections <= 1
  BY <1>2 DEF TypeOK
<1> HIDE DEF f
<1> QED BY <1>2, <1>5, <1>6, <1>7, <1>9, <1>10, <1>11, StepInv, HearsInStep,
           EvolvesInStep DEF f

\* An entry that goes keeps what may have been acknowledged.
LEMMA GoneKeepsInv ==
  ASSUME MuxInv, NEW e \in End, NEW i \in Arrivals(e), NEW reply \in Seq(Message),
         Handled(e, i, NoMux, reply),
         \A p \in Range(reply) : p.type \notin {"DATA", "ACK", "NO_OUTSTANDING_DATA"},
         UNCHANGED <<connections, delivered>>
  PROVE  MuxInv'
<1>1. TypeOK /\ EntryInv(e) /\ QuietInv(e)
  BY DEF MuxInv
<1>2. mux'[e] = NoMux /\ UNCHANGED <<accepted, read>>
  BY <1>1 DEF Handled, TypeOK
<1>3. ~isMux(e)' /\ (Started(e)' <=> Started(e))
  BY <1>2 DEF isMux, Started
<1>4. Acknowledgeable(e) \subseteq Acknowledgeable(e)'
  <2>1. isMux(e) => Started(e) /\ mux[e].received \in SUBSET Unit
    BY <1>1, EntryOrNone DEF EntryInv, TypeOK, MuxState
  <2> QED BY <1>3, <2>1 DEF Acknowledgeable
<1>5. Range(chan'[e]) \subseteq Range(chan[e])
  BY HandledChannels
<1>6. Hears(e) /\ Evolves(e)
  BY <1>2, <1>3, <1>4, <1>5 DEF Hears, Evolves
<1>7. /\ delivered' \in [End -> 0 .. MaxUnits] /\ delivered'[Other(e)] = delivered[Other(e)]
      /\ ~Started(e)' => delivered'[e] = 0
      /\ connections' \in Nat /\ connections <= connections'
  BY <1>1, <1>3 DEF TypeOK, QuietInv
<1> QED BY <1>3, <1>6, <1>7, HandledKeepsInv

LEMMA RefusalType ==
  /\ <<>> \in Seq(Message) /\ Range(<<>>) = {}
  /\ \A t \in Control : <<control(t)>> \in Seq(Message)
                       /\ Range(<<control(t)>>) = {control(t)}
<1>1. <<>> \in Seq(Message) /\ Range(<<>>) = {}
  BY DEF Range
<1>2. ASSUME NEW t \in Control
      PROVE  <<control(t)>> \in Seq(Message) /\ Range(<<control(t)>>) = {control(t)}
  <2>1. control(t) \in Message
    BY DEF control, Message
  <2> QED BY <2>1 DEF Range
<1> QED BY <1>1, <1>2

LEMMA ReceiveFirstNoServerInv ==
  \A e \in End : MuxInv /\ ReceiveFirstNoServer(e) => MuxInv'
<1> SUFFICES ASSUME NEW e \in End, MuxInv, ReceiveFirstNoServer(e) PROVE MuxInv'
  OBVIOUS
<1>1. PICK i \in Arrivals(e) : Handled(e, i, NoMux, Refusal)
  BY DEF ReceiveFirstNoServer
<1>2. Refusal \in Seq(Message) /\ Range(Refusal) = {control("CLOSE")}
  BY RefusalType DEF Refusal, Control
<1>3. UNCHANGED <<connections, delivered>>
  BY DEF ReceiveFirstNoServer
<1> QED BY <1>1, <1>2, <1>3, GoneKeepsInv DEF control

LEMMA ReceiveSenselessInv == \A e \in End : MuxInv /\ ReceiveSenseless(e) => MuxInv'
<1> SUFFICES ASSUME NEW e \in End, MuxInv, ReceiveSenseless(e) PROVE MuxInv'
  OBVIOUS
<1>1. PICK i \in Arrivals(e) : Handled(e, i, NoMux, Refusal)
  BY DEF ReceiveSenseless
<1>2. Refusal \in Seq(Message) /\ Range(Refusal) = {control("CLOSE")}
  BY RefusalType DEF Refusal, Control
<1>3. UNCHANGED <<connections, delivered>>
  BY DEF ReceiveSenseless
<1> QED BY <1>1, <1>2, <1>3, GoneKeepsInv DEF control

\* What a packet makes of the entry m: k says no more of the peer than m and the packet.
Heard(m, msg, k) ==
  /\ k \in MuxState
  /\ m.received \subseteq k.received
  /\ \A u \in k.acked : u \in m.acked \/ (msg.type = "ACK" /\ u \in msg.units)
  /\ k.remoteOutstandingData = "CLOSED_ACKNOWLEDGED" =>
       \/ m.remoteOutstandingData = "CLOSED_ACKNOWLEDGED"
       \/ msg.type = "NO_OUTSTANDING_DATA"
  /\ k.localSocketReadState = m.localSocketReadState
  /\ k.localSocketWriteState = "OPENED" => m.localSocketWriteState = "OPENED"

LEMMA DuplexOK ==
  ASSUME NEW m \in MuxState, NEW r, NEW ro, NEW d, NEW c, EntryOK(m, r, ro, d, c)
  PROVE  LET k == [m EXCEPT !.state = "DUPLEX"]
         IN  /\ k \in MuxState /\ EntryOK(k, r, ro, d, c)
             /\ k.localSocketWriteState = m.localSocketWriteState
             /\ k.localSocketReadState = m.localSocketReadState
             /\ k.received = m.received /\ k.acked = m.acked
             /\ k.remoteOutstandingData = m.remoteOutstandingData
BY DEF MuxState, EntryOK

LEMMA UnderstoodOK ==
  ASSUME NEW m \in MuxState, NEW r \in 0 .. MaxUnits, NEW ro \in 0 .. MaxUnits,
         NEW d \in 0 .. MaxUnits, NEW c, EntryOK(m, r, ro, d, c),
         NEW msg \in Message, msg.type = "DATA" => msg.units \subseteq 1 .. ro,
         msg.type # "CLOSE"
  PROVE  /\ Heard(m, msg, Understood(m, msg))
         /\ EntryOK(Understood(m, msg), r, ro, d, c)
<1> DEFINE duplex == [m EXCEPT !.state = "DUPLEX"]
           k == Understood(m, msg)
<1>1. /\ duplex \in MuxState /\ EntryOK(duplex, r, ro, d, c)
      /\ duplex.localSocketWriteState = m.localSocketWriteState
      /\ duplex.localSocketReadState = m.localSocketReadState
      /\ duplex.received = m.received /\ duplex.acked = m.acked
      /\ duplex.remoteOutstandingData = m.remoteOutstandingData
  BY DuplexOK
<1>2. msg.type \in Control \cup {"DATA", "ACK"} /\ msg.units \in SUBSET Unit
  BY DEF Message
<1>3. CASE msg.type = "DATA"
  <2>1. k = IF m.localSocketWriteState = "OPENED"
            THEN handleInCoded(duplex, msg.units) ELSE duplex
    BY <1>3 DEF Understood
  <2> HIDE DEF duplex, k
  <2>2. CASE m.localSocketWriteState = "OPENED"
    <3>1. msg.units \in SUBSET (1 .. ro)
      BY <1>3
    <3>2. /\ k \in MuxState /\ EntryOK(k, r, ro, d, c) /\ SameButDecoder(duplex, k)
          /\ duplex.received \subseteq k.received
      BY <1>1, <2>1, <2>2, <3>1, HandleInCodedOK
    <3>3. Heard(m, msg, k)
      BY <1>1, <3>2 DEF Heard, SameButDecoder
    <3> QED BY <3>2, <3>3 DEF k
  <2>3. CASE m.localSocketWriteState # "OPENED"
    <3>1. Heard(m, msg, k) /\ EntryOK(k, r, ro, d, c)
      BY <1>1, <2>1, <2>3 DEF Heard
    <3> QED BY <3>1 DEF k
  <2> QED BY <2>2, <2>3
<1>4. CASE msg.type = "ACK"
  <2>1. k = onAck(duplex, msg.units)
    BY <1>4 DEF Understood
  <2> HIDE DEF duplex, k
  <2>2. /\ k \in MuxState /\ EntryOK(k, r, ro, d, c) /\ SameButEncoder(duplex, k)
        /\ k.acked \subseteq duplex.acked \cup msg.units
    BY <1>1, <1>2, <2>1, OnAckOK
  <2>3. Heard(m, msg, k)
    BY <1>1, <1>4, <2>2 DEF Heard, SameButEncoder
  <2> QED BY <2>2, <2>3 DEF k
<1>5. CASE msg.type = "EMPTY"
  <2>1. k = m
    BY <1>5 DEF Understood
  <2> QED BY <2>1 DEF Heard
<1>6. CASE msg.type = "WRITE_CLOSED"
  <2>1. k = [m EXCEPT !.remoteSocketWriteState = "CLOSED_ACKNOWLEDGED"]
    BY <1>6 DEF Understood
  <2> HIDE DEF k
  <2>2. Heard(m, msg, k) /\ EntryOK(k, r, ro, d, c)
    BY <2>1 DEF Heard, MuxState, EntryOK
  <2> QED BY <2>2 DEF k
<1>7. CASE msg.type = "WRITE_CLOSED_ACK"
  <2>1. k = [m EXCEPT !.localSocketWriteState = "CLOSED_ACKNOWLEDGED"]
    BY <1>7 DEF Understood
  <2> HIDE DEF k
  <2>2. Heard(m, msg, k) /\ EntryOK(k, r, ro, d, c)
    BY <2>1 DEF Heard, MuxState, EntryOK
  <2> QED BY <2>2 DEF k
<1>8. CASE msg.type = "NO_OUTSTANDING_DATA"
  <2>1. k = [m EXCEPT !.remoteOutstandingData = "CLOSED_ACKNOWLEDGED"]
    BY <1>8 DEF Understood
  <2> HIDE DEF k
  <2>2. Heard(m, msg, k) /\ EntryOK(k, r, ro, d, c)
    BY <1>8, <2>1 DEF Heard, MuxState, EntryOK
  <2> QED BY <2>2 DEF k
<1>9. CASE msg.type = "NO_OUTSTANDING_DATA_ACK"
  <2>1. k = [m EXCEPT !.localOutstandingData = "CLOSED_ACKNOWLEDGED"]
    BY <1>9 DEF Understood
  <2> HIDE DEF k
  <2>2. Heard(m, msg, k) /\ EntryOK(k, r, ro, d, c)
    BY <2>1 DEF Heard, MuxState, EntryOK
  <2> QED BY <2>2 DEF k
<1> QED BY <1>2, <1>3, <1>4, <1>5, <1>6, <1>7, <1>8, <1>9 DEF Control

\* A reply says nothing of data.
LEMMA ReplyType ==
  ASSUME NEW msg \in Message
  PROVE  /\ ReplyTo(msg) \in Seq(Message)
         /\ \A p \in Range(ReplyTo(msg)) :
              p.type \in {"WRITE_CLOSED_ACK", "NO_OUTSTANDING_DATA_ACK"}
         /\ msg.type = "CLOSE" => ReplyTo(msg) = <<>>
<1>1. CASE msg.type = "WRITE_CLOSED"
  <2>1. ReplyTo(msg) = <<control("WRITE_CLOSED_ACK")>>
    BY <1>1 DEF ReplyTo
  <2> QED BY <1>1, <2>1, RefusalType DEF Control, control
<1>2. CASE msg.type = "NO_OUTSTANDING_DATA"
  <2>1. ReplyTo(msg) = <<control("NO_OUTSTANDING_DATA_ACK")>>
    BY <1>2 DEF ReplyTo
  <2> QED BY <1>2, <2>1, RefusalType DEF Control, control
<1>3. CASE msg.type # "WRITE_CLOSED" /\ msg.type # "NO_OUTSTANDING_DATA"
  <2>1. ReplyTo(msg) = <<>>
    BY <1>3 DEF ReplyTo
  <2> QED BY <2>1, RefusalType
<1> QED BY <1>1, <1>2, <1>3

\* Without an entry, only a CLOSE makes sense, and leaves none.
LEMMA ReceivedWithout ==
  ASSUME NEW e \in End, ~isMux(e), NEW msg \in Message, MakesSense(assignMux(e), msg)
  PROVE  msg.type = "CLOSE" /\ Understood(assignMux(e), msg) = NoMux
<1>1. msg.type = "CLOSE"
  BY DEF MakesSense, assignMux, newMux
<1> QED BY <1>1 DEF Understood

LEMMA ReceiveInv == \A e \in End : MuxInv /\ Receive(e) => MuxInv'
<1> SUFFICES ASSUME NEW e \in End, MuxInv, Receive(e) PROVE MuxInv'
  OBVIOUS
<1> DEFINE m == assignMux(e)
<1>1. PICK i \in Arrivals(e) :
        /\ MakesSense(m, chan[e][i])
        /\ Handled(e, i, Understood(m, chan[e][i]), ReplyTo(chan[e][i]))
  BY DEF Receive
<1> DEFINE msg == chan[e][i]
           k == Understood(m, msg)
<1>2. UNCHANGED <<accepted, connections, read, delivered>>
  BY <1>1 DEF Receive, Handled
<1>3. msg \in Message
  BY <1>1 DEF MuxInv, TypeOK, Arrivals
<1>4. /\ ReplyTo(msg) \in Seq(Message)
      /\ \A p \in Range(ReplyTo(msg)) : p.type \notin {"DATA", "ACK", "NO_OUTSTANDING_DATA"}
  BY <1>3, ReplyType
<1>5. CASE msg.type = "CLOSE"
  <2>1. k = NoMux
    BY <1>5 DEF Understood
  <2> QED BY <1>1, <1>2, <1>4, <2>1, GoneKeepsInv
<1>6. CASE msg.type # "CLOSE"
  <2>1. isMux(e) /\ m = mux[e]
    BY <1>1, <1>3, <1>6, ReceivedWithout DEF assignMux
  <2>2. /\ m \in MuxState
        /\ EntryOK(m, read[e], read[Other(e)], delivered[e], connections)
        /\ read[e] \in 0 .. MaxUnits /\ read[Other(e)] \in 0 .. MaxUnits
        /\ delivered[e] \in 0 .. MaxUnits
    BY <2>1, OwnEntry
  <2>3. msg \in Range(chan[e]) /\ Range(chan'[e]) \subseteq Range(chan[e])
    BY <1>1, <1>4, HandledChannels
  <2>4. msg.type = "DATA" => msg.units \subseteq 1 .. read[Other(e)]
    BY <2>3 DEF MuxInv, QuietInv
  <2>5. /\ Heard(m, msg, k)
        /\ EntryOK(k, read[e], read[Other(e)], delivered[e], connections)
    BY <1>3, <1>6, <2>2, <2>4, UnderstoodOK
  <2> HIDE DEF k, m
  <2>6. mux'[e] = k /\ isMux(e)' /\ Started(e) /\ (Started(e)' <=> Started(e))
    <3>1. mux'[e] = k
      BY <1>1 DEF Handled, MuxInv, TypeOK, k
    <3>2. k # NoMux
      BY <2>5 DEF Heard, MuxState, NoMux
    <3> QED BY <1>2, <2>1, <3>1, <3>2 DEF isMux, MuxInv, EntryInv, Started
  <2>7. Acknowledgeable(e) \subseteq Acknowledgeable(e)'
    BY <2>1, <2>5, <2>6 DEF Acknowledgeable, Heard
  <2>8. Hears(e)
    BY <2>1, <2>3, <2>5, <2>6, <2>7 DEF Hears, Heard
  <2>9. Evolves(e)
    <3>1. delivered[e] <= delivered'[e] /\ read'[e] = read[e]
      BY <1>2, <2>2
    <3> QED BY <2>1, <2>5, <2>6, <2>7, <3>1 DEF Evolves, Heard
  <2>10. /\ delivered' \in [End -> 0 .. MaxUnits] /\ delivered'[Other(e)] = delivered[Other(e)]
         /\ connections' \in Nat /\ connections <= connections'
    BY <1>2 DEF MuxInv, TypeOK
  <2>11. /\ k \in MuxState \cup {NoMux}
         /\ EntryOK(k, read[e], read[Other(e)], delivered'[e], connections')
    BY <1>2, <2>5 DEF Heard
  <2>12. Handled(e, i, k, ReplyTo(msg))
    BY <1>1 DEF k
  <2> HIDE DEF msg
  <2> QED BY <1>4, <2>6, <2>8, <2>9, <2>10, <2>11, <2>12, HandledKeepsInv
<1> QED BY <1>5, <1>6

\* The first packet at a proxy that has no entry: a new one, of a new decoder.
LEMMA ConnectedOK ==
  ASSUME NEW msg \in Message, NEW r \in 0 .. MaxUnits, NEW ro \in 0 .. MaxUnits,
         NEW c, c <= 1 => r = 0, msg.type = "DATA" => msg.units \subseteq 1 .. ro
  PROVE  LET k == Connected(newMux, msg)
         IN  /\ k \in MuxState /\ EntryOK(k, r, ro, 0, c)
             /\ k.acked = {} /\ k.remoteOutstandingData = "OPENED"
             /\ k.localSocketReadState = "OPENED" /\ k.localSocketWriteState = "OPENED"
<1> DEFINE opened == [newMux EXCEPT !.state = "DUPLEX", !.localSocketReadState = "OPENED",
                                    !.localSocketWriteState = "OPENED"]
           k == Connected(newMux, msg)
<1>1. /\ opened \in MuxState
      /\ opened.state = "DUPLEX" /\ opened.localSocketReadState = "OPENED"
      /\ opened.localSocketWriteState = "OPENED" /\ opened.remoteOutstandingData = "OPENED"
      /\ opened.nread = 0 /\ opened.acked = {} /\ opened.queued = {}
      /\ opened.isOutstandingData = FALSE /\ opened.received = {} /\ opened.toApp = 0
      /\ opened.acks = <<>>
  <2>1. newMux \in MuxState
    BY NewMuxType
  <2> QED BY <2>1 DEF newMux, MuxState
<1>2. k = IF msg.type = "DATA" THEN handleInCoded(opened, msg.units) ELSE opened
  BY DEF Connected
<1> HIDE DEF opened, k
<1>3. EntryOK(opened, r, ro, 0, c)
  <2>1. 0 + 0 = inOrder({}) /\ 0 + 0 <= inOrder({}) /\ 0 <= r /\ 1 .. 0 = {}
    BY InOrderNone
  <2> QED BY <1>1, <2>1 DEF EntryOK
<1>4. CASE msg.type = "DATA"
  <2>1. 0 \in 0 .. MaxUnits /\ msg.units \in SUBSET (1 .. ro)
    BY <1>4, MuxAssumption
  <2>2. k \in MuxState /\ EntryOK(k, r, ro, 0, c) /\ SameButDecoder(opened, k)
    BY <1>1, <1>2, <1>3, <1>4, <2>1, HandleInCodedOK
  <2> QED BY <1>1, <2>2 DEF SameButDecoder, k
<1>5. CASE msg.type # "DATA"
  BY <1>1, <1>2, <1>3, <1>5 DEF k
<1> QED BY <1>4, <1>5

\* A packet opens a connection only at a proxy that has no entry.
LEMMA OpensWithout ==
  ASSUME MuxInv, NEW e \in End, NEW msg, Opens(e, assignMux(e), msg)
  PROVE  e = PROXY /\ ~isMux(e) /\ assignMux(e) = newMux
BY DEF Opens, assignMux, MuxInv, EntryInv, EntryOK

LEMMA ReceiveFirstInv == \A e \in End : MuxInv /\ ReceiveFirst(e) => MuxInv'
<1> SUFFICES ASSUME NEW e \in End, MuxInv, ReceiveFirst(e) PROVE MuxInv'
  OBVIOUS
<1>1. PICK i \in Arrivals(e) :
        /\ Opens(e, assignMux(e), chan[e][i])
        /\ Handled(e, i, Connected(assignMux(e), chan[e][i]), <<>>)
  BY DEF ReceiveFirst
<1> DEFINE msg == chan[e][i]
           k == Connected(newMux, msg)
<1>2. e = PROXY /\ ~isMux(e) /\ Handled(e, i, k, <<>>)
  BY <1>1, OpensWithout
<1>3. /\ TypeOK /\ QuietInv(e)
      /\ connections' = connections + 1 /\ delivered' = [delivered EXCEPT ![e] = 0]
      /\ UNCHANGED <<accepted, read>> /\ connections \in Nat
  BY <1>2 DEF ReceiveFirst, Handled, MuxInv, TypeOK
<1>4. /\ msg \in Message /\ msg \in Range(chan[e]) /\ Range(chan'[e]) \subseteq Range(chan[e])
      /\ msg.type = "DATA" => msg.units \subseteq 1 .. read[Other(e)]
  BY <1>2, <1>3, HandledChannels, RefusalType DEF QuietInv
<1>5. Started(e) <=> connections > 0
  BY <1>2 DEF Started, CLIENT, PROXY
<1>6. Started(e)'
  BY <1>2, <1>3 DEF Started, CLIENT, PROXY
<1>7. connections' <= 1 => ~Started(e) /\ read[e] = 0
  BY <1>3, <1>5 DEF QuietInv
<1>8. read[e] \in 0 .. MaxUnits /\ read[Other(e)] \in 0 .. MaxUnits
  BY <1>3, OtherFacts DEF TypeOK
<1>9. /\ k \in MuxState /\ EntryOK(k, read[e], read[Other(e)], 0, connections')
      /\ k.acked = {} /\ k.remoteOutstandingData = "OPENED"
  BY <1>4, <1>7, <1>8, ConnectedOK
<1> HIDE DEF k, msg
<1>10. mux'[e] = k /\ isMux(e)'
  BY <1>2, <1>3, <1>9 DEF Handled, TypeOK, isMux, MuxState, NoMux
<1>11. connections' <= 1 => Hears(e) /\ Evolves(e)
  <2> SUFFICES ASSUME connections' <= 1 PROVE Hears(e) /\ Evolves(e)
    OBVIOUS
  <2>1. Acknowledgeable(e) = {}
    BY <1>2, <1>7 DEF Acknowledgeable
  <2>2. Hears(e)
    BY <1>4, <1>9, <1>10, <2>1 DEF Hears
  <2>3. Evolves(e)
    BY <1>3, <1>7, <2>1 DEF Evolves
  <2> QED BY <2>2, <2>3
<1>12. /\ delivered' \in [End -> 0 .. MaxUnits] /\ delivered'[Other(e)] = delivered[Other(e)]
       /\ delivered'[e] = 0
  BY <1>3, OtherFacts, MuxAssumption DEF TypeOK
<1>13. connections' \in Nat /\ connections <= connections'
  BY <1>3
<1>14. /\ <<>> \in Seq(Message)
       /\ \A p \in Range(<<>>) : p.type \notin {"DATA", "ACK", "NO_OUTSTANDING_DATA"}
  BY RefusalType
<1> QED BY <1>2, <1>6, <1>9, <1>11, <1>12, <1>13, <1>14, HandledKeepsInv

-----------------------------------------------------------------------------
(* The listener, and the end of an iteration *)

LEMMA AcceptInv == MuxInv /\ Accept => MuxInv'
<1> SUFFICES ASSUME MuxInv, Accept PROVE MuxInv'
  OBVIOUS
<1> DEFINE e == CLIENT
           k == acceptedMux
<1>1. e \in End /\ Other(e) = PROXY /\ PROXY \in End /\ Other(PROXY) = e
  BY DEF End, Other, CLIENT, PROXY
<1>2. TypeOK /\ EntryInv(e) /\ QuietInv(e) /\ QuietInv(PROXY)
      /\ (connections <= 1 =>
           AckInv(e) /\ AnnouncedInv(e) /\ AckInv(PROXY) /\ AnnouncedInv(PROXY))
  BY <1>1 DEF MuxInv
<1>3. /\ k \in MuxState /\ k.nread = 0 /\ k.acked = {} /\ k.queued = {}
      /\ k.state = "SIMPLEX" /\ k.localSocketReadState = "OPENED"
      /\ k.localSocketWriteState = "OPENED" /\ k.remoteOutstandingData = "OPENED"
      /\ k.isOutstandingData = FALSE /\ k.received = {} /\ k.toApp = 0 /\ k.acks = <<>>
  <2>1. newMux \in MuxState
    BY NewMuxType
  <2> QED BY <2>1 DEF acceptedMux, newMux, MuxState
<1> HIDE DEF k
<1>4. /\ mux' = [mux EXCEPT ![e] = k] /\ accepted' = TRUE /\ ~accepted
      /\ UNCHANGED <<chan, connections, read, delivered, lost>>
  BY DEF Accept, k
<1>5. ~Started(e) /\ ~isMux(e) /\ Started(e)' /\ (Started(PROXY)' <=> Started(PROXY))
      /\ read[e] = 0 /\ delivered[e] = 0
  BY <1>2, <1>4 DEF Started, EntryInv, QuietInv, CLIENT, PROXY
<1>6. mux'[e] = k /\ mux'[PROXY] = mux[PROXY] /\ mux' \in [End -> MuxState \cup {NoMux}]
  BY <1>1, <1>2, <1>3, <1>4 DEF TypeOK, CLIENT, PROXY
<1>7. TypeOK'
  <2>1. phase' \in [End -> Select .. TcpServed]
    BY <1>1, <1>2, PhaseType, PhasesInRange DEF Accept
  <2> QED BY <1>2, <1>4, <1>6, <2>1 DEF TypeOK
<1>8. Frame(e)
  BY <1>1, <1>2, <1>4, <1>6, ReadKept DEF Frame, TypeOK
<1>9. EntryInv(e)'
  <2>1. 0 + 0 = inOrder({}) /\ 0 + 0 <= inOrder({}) /\ 0 <= 0 /\ 1 .. 0 = {}
    BY InOrderNone
  <2>2. EntryOK(k, 0, read[PROXY], 0, connections)
    BY <1>3, <2>1 DEF EntryOK
  <2> QED BY <1>1, <1>4, <1>5, <1>6, <2>2 DEF EntryInv
<1>10. QuietInv(e)' /\ QuietInv(PROXY)'
  BY <1>1, <1>2, <1>4, <1>5 DEF QuietInv
<1>11. Acknowledgeable(e) = {} /\ Acknowledgeable(e) \subseteq Acknowledgeable(e)'
  BY <1>5 DEF Acknowledgeable
<1>12. Hears(e) /\ Evolves(e) /\ SaysNothing(e)
  BY <1>3, <1>4, <1>5, <1>6, <1>11 DEF Hears, Evolves, SaysNothing
<1> HIDE DEF e
<1> QED BY <1>1, <1>2, <1>4, <1>7, <1>8, <1>9, <1>10, <1>12, StepInv, HearsInStep,
           EvolvesInStep

\* What an end may send of its entry m at the end of an iteration.
SentOf(m) ==
  { p \in Message :
      /\ p.type = "DATA" => p.units \subseteq m.queued
      /\ p.type = "ACK" => \E k \in DOMAIN m.acks : p.units = m.acks[k]
      /\ p.type = "NO_OUTSTANDING_DATA" => Announces(m)
      /\ p.type = "CLOSE" => ~Communicates(m) }

LEMMA SentType ==
  ASSUME NEW m \in MuxState
  PROVE  Sent(m) \in Seq(SentOf(m))
<1> DEFINE S == SentOf(m)
           acks == [k \in DOMAIN m.acks |-> [type |-> "ACK", units |-> m.acks[k]]]
           empty == IF SendsEmpty(m) THEN <<control("EMPTY")>> ELSE <<>>
           data == [k \in 1 .. Cardinality(m.queued) |->
                     [type |-> "DATA", units |-> nth(m.queued, k)]]
           closed == IF m.localSocketWriteState = "CLOSED_NOT_ACKNOWLEDGED"
                     THEN <<control("WRITE_CLOSED")>> ELSE <<>>
           end == IF Announces(m) THEN <<control("NO_OUTSTANDING_DATA")>> ELSE <<>>
<1>1. acks \in Seq(S)
  <2>1. m.acks \in Seq(SUBSET Unit) /\ Len(m.acks) \in Nat /\ DOMAIN m.acks = 1 .. Len(m.acks)
    BY LenProperties DEF MuxState
  <2>2. \A k \in 1 .. Len(m.acks) : [type |-> "ACK", units |-> m.acks[k]] \in S
    BY <2>1, ElementOfSeq DEF SentOf, Message
  <2> QED BY <2>1, <2>2, IsASeq
<1>2. empty \in Seq(S)
  <2>1. control("EMPTY") \in S
    BY DEF control, SentOf, Message, Control
  <2> HIDE DEF S
  <2> QED BY <2>1
<1>3. data \in Seq(S)
  <2>1. m.queued \in SUBSET Unit /\ Cardinality(m.queued) \in Nat
    BY UnitsAreFinite, FS_CardinalityType DEF MuxState
  <2>2. \A k \in 1 .. Cardinality(m.queued) :
          [type |-> "DATA", units |-> nth(m.queued, k)] \in S
    BY <2>1 DEF SentOf, Message, nth
  <2> QED BY <2>1, <2>2, IsASeq
<1>4. closed \in Seq(S)
  <2>1. control("WRITE_CLOSED") \in S
    BY DEF control, SentOf, Message, Control
  <2> HIDE DEF S
  <2> QED BY <2>1
<1>5. end \in Seq(S)
  <2>1. Announces(m) => control("NO_OUTSTANDING_DATA") \in S
    BY DEF control, SentOf, Message, Control
  <2> HIDE DEF S
  <2> QED BY <2>1
<1>6. Goodbye(m) \in Seq(S)
  <2>1. ~Communicates(m) => control("CLOSE") \in S
    BY DEF control, SentOf, Message, Control
  <2> HIDE DEF S
  <2> QED BY <2>1 DEF Goodbye
<1>7. Sent(m) = acks \o empty \o data \o closed \o end \o Goodbye(m)
  BY DEF Sent
<1> HIDE DEF S, acks, empty, data, closed, end
<1>8. acks \o empty \o data \o closed \o end \o Goodbye(m) \in Seq(S)
  <2>1. acks \o empty \in Seq(S)
    BY <1>1, <1>2, ConcatProperties
  <2>2. acks \o empty \o data \in Seq(S)
    BY <1>3, <2>1, ConcatProperties
  <2>3. acks \o empty \o data \o closed \in Seq(S)
    BY <1>4, <2>2, ConcatProperties
  <2>4. acks \o empty \o data \o closed \o end \in Seq(S)
    BY <1>5, <2>3, ConcatProperties
  <2> QED BY <1>6, <2>4, ConcatProperties
<1> QED BY <1>7, <1>8 DEF S

LEMMA ProcessedType ==
  ASSUME NEW m \in MuxState
  PROVE  LET k == Processed(m)
         IN  /\ k \in MuxState
             /\ k.state = m.state /\ k.nread = m.nread /\ k.acked = m.acked
             /\ k.received = m.received /\ k.isOutstandingData = m.isOutstandingData
             /\ k.localSocketReadState = m.localSocketReadState
             /\ k.localSocketWriteState = m.localSocketWriteState
             /\ k.remoteOutstandingData = m.remoteOutstandingData
             /\ k.toApp = 0 /\ k.acks = <<>> /\ k.queued = {}
<1>1. PICK b \in BOOLEAN : b = (m.announced \/ Announces(m))
  OBVIOUS
<1>2. PICK l \in {"INIT", "CLOSED_NOT_ACKNOWLEDGED", "CLOSED_ACKNOWLEDGED"} :
        l = IF Announces(m) THEN "CLOSED_NOT_ACKNOWLEDGED" ELSE m.localOutstandingData
  BY DEF MuxState
<1>3. PICK t \in {"infinite", "armed", "past"} :
        t = IF SendsEmpty(m) THEN "armed" ELSE m.nextTimeout
  BY DEF MuxState
<1>4. Processed(m) =
        [m EXCEPT !.toApp = 0, !.acks = <<>>, !.queued = {}, !.nextTimeout = t,
                  !.remoteSocketWriteState = "OPENED", !.localOutstandingData = l,
                  !.announced = b]
  BY <1>1, <1>2, <1>3 DEF Processed
<1>5. 0 \in 0 .. MaxUnits /\ <<>> \in Seq(SUBSET Unit)
  BY MuxAssumption
<1> DEFINE k == Processed(m)
<1>6. k = [m EXCEPT !.toApp = 0, !.acks = <<>>, !.queued = {}, !.nextTimeout = t,
                    !.remoteSocketWriteState = "OPENED", !.localOutstandingData = l,
                    !.announced = b]
  BY <1>4
<1> HIDE DEF k
<1>7. k \in MuxState
  BY <1>5, <1>6 DEF MuxState
<1>8. /\ k.state = m.state /\ k.nread = m.nread /\ k.acked = m.acked
      /\ k.received = m.received /\ k.isOutstandingData = m.isOutstandingData
      /\ k.localSocketReadState = m.localSocketReadState
      /\ k.localSocketWriteState = m.localSocketWriteState
      /\ k.remoteOutstandingData = m.remoteOutstandingData
      /\ k.toApp = 0 /\ k.acks = <<>> /\ k.queued = {}
  BY <1>6 DEF MuxState
<1> QED BY <1>7, <1>8 DEF k

\* The entry a processed one leaves owes its application nothing.
LEMMA ProcessedOK ==
  ASSUME NEW m \in MuxState, NEW r \in 0 .. MaxUnits, NEW ro, NEW d \in 0 .. MaxUnits, NEW c,
         EntryOK(m, r, ro, d, c)
  PROVE  /\ d + m.toApp \in 0 .. MaxUnits
         /\ m.localSocketWriteState = "OPENED" => d + m.toApp = inOrder(m.received)
         /\ m.localSocketWriteState = "OPENED" => EntryOK(Processed(m), r, ro, d + m.toApp, c)
<1> DEFINE k == Processed(m)
<1>1. /\ k.state = m.state /\ k.nread = m.nread /\ k.acked = m.acked
      /\ k.received = m.received /\ k.isOutstandingData = m.isOutstandingData
      /\ k.localSocketReadState = m.localSocketReadState
      /\ k.localSocketWriteState = m.localSocketWriteState
      /\ k.toApp = 0 /\ k.acks = <<>> /\ k.queued = {}
  BY ProcessedType
<1> HIDE DEF k
<1>2. /\ m.toApp \in 0 .. MaxUnits /\ m.received \in SUBSET Unit
      /\ d + m.toApp <= inOrder(m.received)
      /\ m.localSocketWriteState = "OPENED" => d + m.toApp = inOrder(m.received)
  BY DEF MuxState, EntryOK
<1>3. inOrder(m.received) \in 0 .. MaxUnits
  BY <1>2, InOrderType
<1>4. d + m.toApp \in 0 .. MaxUnits
  BY <1>2, <1>3, MuxAssumption
<1>5. ASSUME m.localSocketWriteState = "OPENED" PROVE EntryOK(k, r, ro, d + m.toApp, c)
  <2>1. d + m.toApp + 0 = inOrder(m.received) /\ d + m.toApp + 0 <= inOrder(m.received)
    BY <1>2, <1>3, <1>4, <1>5
  <2> QED BY <1>1, <2>1 DEF EntryOK
<1> QED BY <1>2, <1>4, <1>5 DEF k

\* What an iteration ends with when there is an entry.
LEMMA ProcessChannels ==
  ASSUME MuxInv, NEW e \in End, isMux(e), Process(e)
  PROVE  /\ chan' \in [End -> Seq(Message)] /\ chan'[e] = chan[e]
         /\ \A p \in Range(chan'[Other(e)]) : p \in Range(chan[Other(e)]) \/ p \in SentOf(mux[e])
         /\ Range(chan[Other(e)]) \subseteq Range(chan'[Other(e)])
         /\ Len(chan'[Other(e)]) <= Capacity
<1> DEFINE f == Other(e)
           sent == Sent(mux[e])
<1>1. f \in End /\ f # e
  BY OtherFacts
<1>2. /\ chan \in [End -> Seq(Message)] /\ chan[f] \in Seq(Message) /\ Len(chan[f]) <= Capacity
  BY <1>1 DEF MuxInv, TypeOK, QuietInv
<1>3. mux[e] \in MuxState
  BY OwnEntry
<1>4. sent \in Seq(SentOf(mux[e])) /\ sent \in Seq(Message)
  <2>1. sent \in Seq(SentOf(mux[e]))
    BY <1>3, SentType
  <2>2. SentOf(mux[e]) \subseteq Message
    BY DEF SentOf
  <2> HIDE DEF sent
  <2> QED BY <2>1, <2>2, SeqMonotonic
<1>5. Range(sent) \subseteq SentOf(mux[e])
  BY <1>4, RangeOfSeq
<1>6. chan' = [chan EXCEPT ![f] = Carry(@, sent)]
  BY DEF Process
<1> HIDE DEF f, sent
<1>7. chan'[e] = chan[e] /\ chan'[f] = Carry(chan[f], sent)
  BY <1>1, <1>2, <1>6
<1>8. /\ Carry(chan[f], sent) \in Seq(Message) /\ Len(Carry(chan[f], sent)) <= Capacity
      /\ Range(Carry(chan[f], sent)) \subseteq Range(chan[f]) \cup Range(sent)
      /\ Range(chan[f]) \subseteq Range(Carry(chan[f], sent))
  BY <1>2, <1>4, CarryFacts
<1> QED BY <1>1, <1>2, <1>5, <1>6, <1>7, <1>8 DEF f

\* A step that changes no more than phase and lost keeps the invariant.
LEMMA NothingKeepsInv ==
  ASSUME MuxInv, UNCHANGED <<mux, chan, accepted, connections, read, delivered>>, TypeOK'
  PROVE  MuxInv'
<1>1. ASSUME NEW g \in End
      PROVE  /\ EntryInv(g) => EntryInv(g)'
             /\ QuietInv(g) => QuietInv(g)'
             /\ AckInv(g) => AckInv(g)'
             /\ AnnouncedInv(g) => AnnouncedInv(g)'
  <2>1. /\ isMux(g)' <=> isMux(g)
        /\ isMux(Other(g))' <=> isMux(Other(g))
        /\ Started(g)' <=> Started(g)
        /\ Started(Other(g))' <=> Started(Other(g))
        /\ Acknowledgeable(g)' = Acknowledgeable(g)
        /\ Acknowledgeable(Other(g))' = Acknowledgeable(Other(g))
    BY DEF isMux, Started, Acknowledgeable
  <2>2. EntryInv(g) => EntryInv(g)'
    BY <2>1 DEF EntryInv
  <2>3. QuietInv(g) => QuietInv(g)'
    BY <2>1 DEF QuietInv
  <2>4. AckInv(g) => AckInv(g)'
    BY <2>1 DEF AckInv
  <2>5. AnnouncedInv(g) => AnnouncedInv(g)'
    BY <2>1 DEF AnnouncedInv, Announced
  <2> QED BY <2>2, <2>3, <2>4, <2>5
<1>2. connections' = connections
  OBVIOUS
<1> QED BY <1>1, <1>2 DEF MuxInv

LEMMA ProcessInv == \A e \in End : MuxInv /\ Process(e) => MuxInv'
<1> SUFFICES ASSUME NEW e \in End, MuxInv, Process(e) PROVE MuxInv'
  OBVIOUS
<1> DEFINE f == Other(e)
           m == mux[e]
<1>1. f \in End /\ f # e /\ Other(f) = e
  BY OtherFacts
<1>2. TypeOK /\ EntryInv(e) /\ QuietInv(e) /\ QuietInv(f)
      /\ (connections <= 1 => AckInv(e) /\ AnnouncedInv(e) /\ AckInv(f) /\ AnnouncedInv(f))
  BY <1>1 DEF MuxInv
<1>3. phase' \in [End -> Select .. TcpServed] /\ UNCHANGED <<accepted, connections, read, lost>>
  BY <1>2, PhaseType, PhasesInRange DEF Process
<1>4. CASE ~isMux(e)
  <2>1. UNCHANGED <<mux, chan, delivered>>
    BY <1>4 DEF Process
  <2>2. TypeOK'
    BY <1>2, <1>3, <2>1 DEF TypeOK
  <2> QED BY <1>3, <2>1, <2>2, NothingKeepsInv
<1>5. CASE isMux(e)
  <2>1. /\ m \in MuxState /\ EntryOK(m, read[e], read[f], delivered[e], connections)
        /\ read[e] \in 0 .. MaxUnits /\ delivered[e] \in 0 .. MaxUnits
    BY <1>5, OwnEntry
  <2>2. /\ mux' = [mux EXCEPT ![e] = IF Communicates(m) THEN Processed(m) ELSE NoMux]
        /\ delivered' = [delivered EXCEPT ![e] =
              IF m.localSocketWriteState = "OPENED" THEN @ + m.toApp ELSE @]
    BY <1>5 DEF Process
  <2>3. /\ mux'[e] = IF Communicates(m) THEN Processed(m) ELSE NoMux
        /\ delivered'[e] = IF m.localSocketWriteState = "OPENED"
                           THEN delivered[e] + m.toApp ELSE delivered[e]
        /\ mux'[f] = mux[f] /\ delivered'[f] = delivered[f]
    BY <1>1, <1>2, <2>2 DEF TypeOK
  <2>4. /\ Processed(m) \in MuxState /\ Processed(m) # NoMux
        /\ Processed(m).acked = m.acked /\ Processed(m).received = m.received
        /\ Processed(m).localSocketReadState = m.localSocketReadState
        /\ Processed(m).localSocketWriteState = m.localSocketWriteState
        /\ Processed(m).remoteOutstandingData = m.remoteOutstandingData
    BY <2>1, ProcessedType DEF MuxState, NoMux
  <2>5. /\ delivered[e] + m.toApp \in 0 .. MaxUnits
        /\ m.localSocketWriteState = "OPENED" => delivered[e] + m.toApp = inOrder(m.received)
        /\ m.localSocketWriteState = "OPENED" =>
             EntryOK(Processed(m), read[e], read[f], delivered[e] + m.toApp, connections)
    BY <2>1, ProcessedOK
  <2>6. /\ chan' \in [End -> Seq(Message)] /\ chan'[e] = chan[e]
        /\ \A p \in Range(chan'[f]) : p \in Range(chan[f]) \/ p \in SentOf(m)
        /\ Len(chan'[f]) <= Capacity
    BY <1>5, ProcessChannels
  <2> HIDE DEF f, m
  <2>7. TypeOK'
    <3>1. mux' \in [End -> MuxState \cup {NoMux}]
      BY <1>2, <2>2, <2>4 DEF TypeOK
    <3>2. delivered' \in [End -> 0 .. MaxUnits]
      BY <1>2, <2>2, <2>5 DEF TypeOK
    <3> QED BY <1>2, <1>3, <2>6, <3>1, <3>2 DEF TypeOK
  <2>8. Frame(e)
    BY <1>1, <1>2, <1>3, <2>3, ReadKept DEF Frame, TypeOK, f
  <2>9. /\ \A g \in End : Started(g)' <=> Started(g)
        /\ Started(e)
        /\ isMux(e)' <=> Communicates(m)
    BY <1>2, <1>3, <1>5, <2>3, <2>4 DEF Started, EntryInv, isMux
  <2>10. Communicates(m) => m.localSocketWriteState = "OPENED"
    BY DEF Communicates
  <2>11. EntryInv(e)'
    BY <1>3, <2>3, <2>5, <2>9, <2>10 DEF EntryInv, f
  <2>12. QuietInv(e)' /\ QuietInv(f)'
    <3>1. accepted
      BY <1>2, <2>9 DEF QuietInv
    <3>2. \A p \in SentOf(m) : p.type = "DATA" => p.units \subseteq 1 .. read[e]
      <4>1. m.queued \subseteq 1 .. m.nread /\ m.nread <= read[e] /\ m.nread \in Nat
            /\ read[e] \in Nat
        BY <1>2, <2>1 DEF EntryOK, MuxState, TypeOK
      <4>2. 1 .. m.nread \subseteq 1 .. read[e]
        BY <4>1
      <4> QED BY <4>1, <4>2 DEF SentOf
    <3>3. QuietInv(e)'
      BY <1>1, <1>2, <1>3, <2>3, <2>6, <2>9, <3>1 DEF QuietInv
    <3>4. ASSUME NEW p \in Range(chan'[f]), p.type = "DATA"
          PROVE  p.units \subseteq 1 .. read'[e]
      BY <1>1, <1>2, <1>3, <2>6, <3>2, <3>4 DEF QuietInv
    <3>5. QuietInv(f)'
      BY <1>1, <1>2, <1>3, <2>3, <2>6, <2>9, <3>1, <3>4 DEF QuietInv
    <3> QED BY <3>3, <3>5
  <2>13. Acknowledgeable(e) = m.received /\ m.received \in SUBSET Unit
         /\ m.received \subseteq Acknowledgeable(e)'
    <3>1. m.received \in SUBSET Unit
      BY <2>1 DEF MuxState
    <3> QED BY <1>5, <2>3, <2>4, <2>9, <3>1 DEF Acknowledgeable, m
  <2>14. Hears(e)
    BY <1>5, <2>3, <2>4, <2>6, <2>9, <2>13 DEF Hears, m
  <2>15. ASSUME connections <= 1 PROVE AckInv(f)'
    <3>1. PICK known \in SUBSET m.received :
            /\ isMux(f) => mux[f].acked \subseteq known
            /\ \A p \in Range(chan[f]) : p.type = "ACK" => p.units \subseteq known
      BY <1>1, <1>2, <2>13, <2>15 DEF AckInv
    <3>2. \A p \in SentOf(m) : p.type = "ACK" => p.units \subseteq m.received
      BY <2>1 DEF SentOf, EntryOK
    <3>3. \A p \in Range(chan'[f]) : p.type = "ACK" => p.units \subseteq m.received
      BY <2>6, <3>1, <3>2
    <3>4. isMux(f)' => mux'[f].acked \subseteq m.received
      BY <2>3, <3>1 DEF isMux
    <3>5. isMux(e)' => inOrder(m.received) <= delivered'[e]
      <4>1. inOrder(m.received) \in Nat
        BY <2>13, InOrderType
      <4> QED BY <2>3, <2>5, <2>9, <2>10, <4>1
    <3> QED BY <1>1, <2>13, <3>3, <3>4, <3>5 DEF AckInv
  <2>16. ASSUME connections <= 1 PROVE AnnouncedInv(f)'
    <3> SUFFICES ASSUME Announced(f)'
                 PROVE  /\ 1 .. read'[e] \subseteq Acknowledgeable(f)'
                        /\ Started(e)'
                        /\ isMux(e)' => mux'[e].localSocketReadState = "CLOSED_ACKNOWLEDGED"
      BY <1>1 DEF AnnouncedInv
    <3>1. Announced(f) \/ Announces(m)
      BY <2>3, <2>6 DEF Announced, SentOf, isMux
    <3>2. 1 .. read[e] \subseteq Acknowledgeable(f)
          /\ m.localSocketReadState = "CLOSED_ACKNOWLEDGED"
      <4>1. CASE Announced(f)
        BY <1>1, <1>2, <1>5, <2>16, <4>1 DEF AnnouncedInv, m
      <4>2. CASE Announces(m)
        <5>1. 1 .. m.nread \subseteq m.acked /\ m.nread = read[e]
          BY <2>1, <2>16, <4>2 DEF Announces, EntryOK
        <5>2. m.acked \subseteq Acknowledgeable(f)
          BY <1>2, <1>5, <2>16 DEF AckInv, f, m
        <5> QED BY <4>2, <5>1, <5>2 DEF Announces
      <4> QED BY <3>1, <4>1, <4>2
    <3>3. Acknowledgeable(f) \subseteq Acknowledgeable(f)'
      BY <1>2, <2>7, <2>8, PeerAcknowledgeable DEF f
    <3> QED BY <1>3, <2>3, <2>4, <2>9, <3>2, <3>3
  <2>17. connections' = connections
    BY <1>3
  <2> QED BY <1>2, <2>7, <2>8, <2>11, <2>12, <2>14, <2>15, <2>16, <2>17, StepInv,
             HearsInStep DEF f
<1> QED BY <1>4, <1>5

-----------------------------------------------------------------------------
(* The invariant, and what follows from it *)

LEMMA InitInv == Init => MuxInv
<1> SUFFICES ASSUME Init PROVE MuxInv
  OBVIOUS
<1>1. \A e \in End : /\ mux[e] = NoMux /\ ~isMux(e) /\ ~Started(e) /\ chan[e] = <<>>
                     /\ read[e] = 0 /\ delivered[e] = 0
  BY DEF Init, isMux, Started
<1>2. TypeOK
  <2>1. 0 \in 0 .. MaxUnits /\ 0 \in 0 .. MaxLosses /\ 0 \in Nat /\ 0 \in 0 .. 4
    BY MuxAssumption
  <2>2. <<>> \in Seq(Message)
    OBVIOUS
  <2>3. mux \in [End -> MuxState \cup {NoMux}] /\ chan \in [End -> Seq(Message)]
    BY <2>2 DEF Init
  <2> QED BY <2>1, <2>3 DEF Init, TypeOK, Select, TcpServed
<1>3. Range(<<>>) = {} /\ Len(<<>>) <= Capacity
  BY MuxAssumption DEF Range
<1>4. \A e \in End : EntryInv(e) /\ QuietInv(e)
  BY <1>1, <1>3 DEF EntryInv, QuietInv
<1>5. ASSUME NEW e \in End PROVE AckInv(e) /\ AnnouncedInv(e)
  <2>1. Other(e) \in End
    BY OtherFacts
  <2>2. {} \in SUBSET Acknowledgeable(Other(e))
    OBVIOUS
  <2> QED BY <1>1, <1>3, <2>1, <2>2 DEF AckInv, AnnouncedInv, Announced
<1> QED BY <1>2, <1>4, <1>5 DEF MuxInv

LEMMA StutterInv == MuxInv /\ UNCHANGED vars => MuxInv'
<1> SUFFICES ASSUME MuxInv, UNCHANGED vars PROVE MuxInv'
  OBVIOUS
<1>1. TypeOK'
  BY DEF MuxInv, TypeOK, vars
<1> QED BY <1>1, NothingKeepsInv DEF vars

LEMMA NextInv == MuxInv /\ [Next]_vars => MuxInv'
BY AcceptInv, TimeOutInv, ReceiveFirstInv, ReceiveFirstNoServerInv, ReceiveInv,
   ReceiveSenselessInv, ReadTcpInv, ReadTcpFailsInv, ReadEndInv, ProcessInv,
   ProcessFailsInv, ElapseInv, LoseInv, StutterInv
DEF Next

\* MuxInv is an invariant: what is under way between the two ends, and what each knows of
\* the other, stays true, whatever the network does with it.
THEOREM MuxInvHolds == Spec => []MuxInv
<1>1. Init => MuxInv
  BY InitInv
<1>2. MuxInv /\ [Next]_vars => MuxInv'
  BY NextInv
<1> QED BY <1>1, <1>2, PTL DEF Spec

\* Every variable keeps its type; in particular an application is never given more than
\* the other wrote, and a channel holds nothing but packets of the protocol.
THEOREM TypeOKHolds == Spec => []TypeOK
<1>1. MuxInv => TypeOK
  BY DEF MuxInv
<1> QED BY <1>1, MuxInvHolds, PTL

\* No packet leaves an entry without a socket in the table (the catch-all of
\* handleIncomingUdp, looper.c).
THEOREM EveryEntryHasSocketHolds == Spec => []EveryEntryHasSocket
<1>1. MuxInv => EveryEntryHasSocket
  BY DEF MuxInv, EntryInv, EntryOK, EveryEntryHasSocket
<1> QED BY <1>1, MuxInvHolds, PTL

\* An end that was told so has all the data there is.
LEMMA InvAnnounced == MuxInv => AnnouncedIsDelivered
<1> SUFFICES ASSUME MuxInv, connections <= 1, NEW e \in End, isMux(e),
                    mux[e].remoteOutstandingData = "CLOSED_ACKNOWLEDGED",
                    mux[e].localSocketWriteState = "OPENED"
             PROVE  delivered[e] + mux[e].toApp = read[Other(e)]
  BY DEF AnnouncedIsDelivered
<1>1. /\ EntryOK(mux[e], read[e], read[Other(e)], delivered[e], connections)
      /\ read[Other(e)] \in 0 .. MaxUnits
  BY OwnEntry
<1>2. 1 .. read[Other(e)] \subseteq mux[e].received
  BY DEF MuxInv, AnnouncedInv, Announced, Acknowledgeable
<1>3. mux[e].received = 1 .. read[Other(e)]
  BY <1>1, <1>2 DEF EntryOK
<1>4. inOrder(mux[e].received) = read[Other(e)]
  BY <1>1, <1>3, InOrderAll
<1> QED BY <1>1, <1>4 DEF EntryOK

\* The announcement that no data is outstanding overtakes no data.
THEOREM AnnouncedIsDeliveredHolds == Spec => []AnnouncedIsDelivered
BY InvAnnounced, MuxInvHolds, PTL

LEMMA InvAcked == MuxInv => AckedIsDelivered
<1> SUFFICES ASSUME MuxInv, connections <= 1, NEW e \in End, isMux(e), isMux(Other(e)),
                    mux[Other(e)].localSocketWriteState = "OPENED"
             PROVE  inOrder(mux[e].acked) <= delivered[Other(e)]
  BY DEF AckedIsDelivered
<1>1. PICK known \in SUBSET Acknowledgeable(Other(e)) :
        mux[e].acked \subseteq known /\ inOrder(known) <= delivered[Other(e)]
  BY DEF MuxInv, AckInv
<1>2. known \in SUBSET Unit /\ delivered[Other(e)] \in Nat
  <2>1. mux[Other(e)] \in MuxState /\ delivered[Other(e)] \in 0 .. MaxUnits
    BY OwnEntry, OtherFacts
  <2> QED BY <2>1 DEF Acknowledgeable, MuxState
<1>3. inOrder(mux[e].acked) \in Nat /\ inOrder(known) \in Nat
      /\ inOrder(mux[e].acked) <= inOrder(known)
  BY <1>1, <1>2, InOrderMonotone
<1> QED BY <1>1, <1>2, <1>3

\* What an encoder forgets, its peer's application was given.
THEOREM AckedIsDeliveredHolds == Spec => []AckedIsDelivered
BY InvAcked, MuxInvHolds, PTL

\* A step gives the client no second entry.
LEMMA NextNeverReopens ==
  ASSUME MuxInv, [Next]_vars, accepted, ~isMux(CLIENT)
  PROVE  ~isMux(CLIENT)'
<1>1. CLIENT \in End /\ TypeOK /\ mux[CLIENT] = NoMux
  BY DEF End, MuxInv, isMux
<1> SUFFICES mux'[CLIENT] = NoMux
  BY DEF isMux
<1>2. CASE UNCHANGED mux
  BY <1>1, <1>2
<1>3. CASE Accept
  BY <1>3 DEF Accept
<1>4. ASSUME NEW e \in End, NEW i \in Arrivals(e), NEW k, NEW reply, Handled(e, i, k, reply),
             e = CLIENT => k = NoMux
      PROVE  mux'[CLIENT] = NoMux
  BY <1>1, <1>4 DEF Handled, TypeOK
<1>5. ASSUME NEW e \in End, ReceiveFirst(e) PROVE mux'[CLIENT] = NoMux
  <2>1. PICK i \in Arrivals(e) :
          /\ Opens(e, assignMux(e), chan[e][i])
          /\ Handled(e, i, Connected(assignMux(e), chan[e][i]), <<>>)
    BY <1>5 DEF ReceiveFirst
  <2>2. e # CLIENT
    BY <2>1 DEF Opens, CLIENT, PROXY
  <2> QED BY <1>4, <2>1, <2>2
<1>6. ASSUME NEW e \in End, ReceiveFirstNoServer(e) \/ ReceiveSenseless(e)
      PROVE  mux'[CLIENT] = NoMux
  BY <1>4, <1>6 DEF ReceiveFirstNoServer, ReceiveSenseless
<1>7. ASSUME NEW e \in End, Receive(e) PROVE mux'[CLIENT] = NoMux
  <2>1. PICK i \in Arrivals(e) :
          /\ MakesSense(assignMux(e), chan[e][i])
          /\ Handled(e, i, Understood(assignMux(e), chan[e][i]), ReplyTo(chan[e][i]))
    BY <1>7 DEF Receive
  <2>2. ASSUME e = CLIENT PROVE Understood(assignMux(e), chan[e][i]) = NoMux
    <3>1. chan[e][i] \in Message
      BY <1>1, <2>1 DEF TypeOK, Arrivals
    <3> QED BY <2>1, <2>2, <3>1, ReceivedWithout
  <2> QED BY <1>4, <2>1, <2>2
<1>8. ASSUME NEW e \in End, isMux(e), NEW k, mux' = [mux EXCEPT ![e] = k]
      PROVE  mux'[CLIENT] = NoMux
  BY <1>1, <1>8 DEF isMux, TypeOK
<1>9. ASSUME NEW e \in End, TimeOut(e) \/ ReadTcp(e) \/ ReadTcpFails(e) \/ ProcessFails(e)
      PROVE  mux'[CLIENT] = NoMux
  BY <1>8, <1>9 DEF TimeOut, ReadTcp, ReadTcpFails, ProcessFails, Readable
<1>10. ASSUME NEW e \in End, ReadEnd(e) \/ Elapse(e) PROVE mux'[CLIENT] = NoMux
  <2>1. \A g \in End : g # e => mux'[g] = mux[g]
    BY <1>1, <1>10 DEF ReadEnd, Elapse, TypeOK
  <2>2. isMux(e)
    BY <1>10 DEF ReadEnd, Elapse, Readable
  <2> QED BY <1>1, <2>1, <2>2 DEF isMux
<1>11. ASSUME NEW e \in End, Process(e) PROVE mux'[CLIENT] = NoMux
  <2>1. CASE isMux(e)
    BY <1>8, <1>11, <2>1 DEF Process
  <2>2. CASE ~isMux(e)
    BY <1>2, <1>11, <2>2 DEF Process
  <2> QED BY <2>1, <2>2
<1>12. ASSUME NEW e \in End, Lose(e) PROVE mux'[CLIENT] = NoMux
  BY <1>2, <1>12 DEF Lose
<1> QED BY <1>2, <1>3, <1>5, <1>6, <1>7, <1>9, <1>10, <1>11, <1>12 DEF Next, vars

\* A client that removed its entry gets no other for that connection, whatever arrives.
THEOREM ClientNeverReopensHolds == Spec => ClientNeverReopens
<1>1. MuxInv /\ [Next]_vars => [accepted /\ ~isMux(CLIENT) => ~isMux(CLIENT)']_vars
  BY NextNeverReopens
<1> QED BY <1>1, MuxInvHolds, PTL DEF Spec, ClientNeverReopens

-----------------------------------------------------------------------------
(* What the applications see *)

\* Neither application sees a change of end g itself, of what it will hear.
SameEnd(g) ==
  /\ EndAt(g)' = EndAt(g)
  /\ EndedAt(g)' <=> EndedAt(g)
  /\ BrokenAt(g)' <=> BrokenAt(g)

SameTold(g) == ToldAt(g)' <=> ToldAt(g)

\* A step of the connection, or none.
ConnStep == [Conn!Next]_(Conn!vars)

LEMMA ConnEnds == Conn!End = End /\ \A e : Conn!Other(e) = Other(e)
BY DEF Conn!End, End, Conn!Other, Other

LEMMA SeenTypes ==
  /\ \A e : EndedAt(e) \in BOOLEAN /\ BrokenAt(e) \in BOOLEAN /\ ToldAt(e) \in BOOLEAN
  /\ \A e : EndedAt(e)' \in BOOLEAN /\ BrokenAt(e)' \in BOOLEAN /\ ToldAt(e)' \in BOOLEAN
BY DEF EndedAt, BrokenAt, ToldAt

-----------------------------------------------------------------------------
(* The steps of the connection, end by end *)

LEMMA SameSeen ==
  ASSUME \A g \in End : SameEnd(g)
  PROVE  UNCHANGED << [e \in End |-> EndAt(e)], [e \in End |-> EndedAt(e)],
                      [e \in End |-> BrokenAt(e)] >>
BY SeenTypes DEF SameEnd

LEMMA SameTolds ==
  ASSUME \A g \in End : SameTold(g)
  PROVE  UNCHANGED [e \in End |-> ToldAt(e)]
BY SeenTypes DEF SameTold

LEMMA SeesNothing ==
  ASSUME \A g \in End : SameEnd(g) /\ SameTold(g), UNCHANGED <<read, delivered, connections>>
  PROVE  ConnStep
BY SameSeen, SameTolds DEF ConnStep, Conn!vars

\* The news that e is to hear is lost, or is heard of an end that is not there.
LEMMA SeesLoss ==
  ASSUME NEW e \in End, \A g \in End : SameEnd(g), SameTold(Other(e)), ToldAt(e)' => ToldAt(e),
         UNCHANGED <<read, delivered, connections>>
  PROVE  ConnStep
<1>1. \A g \in End : g = e \/ g = Other(e)
  BY OtherFacts
<1>2. CASE ToldAt(e)'
  <2>1. \A g \in End : SameTold(g)
    BY <1>1, <1>2 DEF SameTold
  <2> QED BY <2>1, SeesNothing
<1>3. CASE ~ToldAt(e)'
  <2>1. [g \in End |-> ToldAt(g)]' = [[g \in End |-> ToldAt(g)] EXCEPT ![e] = FALSE]
    BY <1>1, <1>3, SeenTypes DEF SameTold
  <2>2. Conn!Miss(e)
    BY <2>1, SameSeen DEF Conn!Miss
  <2> QED BY <2>2, ConnEnds DEF ConnStep, Conn!Next
<1> QED BY <1>2, <1>3

\* An end that is not there may say so.
LEMMA SeesTold ==
  ASSUME NEW e \in End, \A g \in End : SameEnd(g), SameTold(Other(e)), ToldAt(e) => ToldAt(e)',
         EndAt(Other(e)) # "open", UNCHANGED <<read, delivered, connections>>
  PROVE  ConnStep
<1>1. Other(e) \in End /\ \A g \in End : g = e \/ g = Other(e)
  BY OtherFacts
<1>2. CASE ~ToldAt(e)'
  <2>1. \A g \in End : SameTold(g)
    BY <1>1, <1>2 DEF SameTold
  <2> QED BY <2>1, SeesNothing
<1>3. CASE ToldAt(e)'
  <2>1. [g \in End |-> ToldAt(g)]' = [[g \in End |-> ToldAt(g)] EXCEPT ![e] = TRUE]
    BY <1>1, <1>3, SeenTypes DEF SameTold
  <2>2. Conn!Tell(e)
    BY <1>1, <2>1, SameSeen, ConnEnds DEF Conn!Tell
  <2> QED BY <2>2, ConnEnds DEF ConnStep, Conn!Next
<1> QED BY <1>2, <1>3

\* The connection begins at an end: the client, then the proxy.
LEMMA SeesAccept ==
  ASSUME EndAt(CLIENT) = "none", EndAt(CLIENT)' = "open", SameEnd(PROXY),
         EndedAt(CLIENT)' <=> EndedAt(CLIENT), BrokenAt(CLIENT)' <=> BrokenAt(CLIENT),
         \A g \in End : SameTold(g), UNCHANGED <<read, delivered, connections>>
  PROVE  ConnStep
<1>1. [g \in End |-> EndAt(g)]' = [[g \in End |-> EndAt(g)] EXCEPT ![CLIENT] = "open"]
  BY DEF SameEnd, End
<1>2. UNCHANGED << [e \in End |-> EndedAt(e)], [e \in End |-> BrokenAt(e)] >>
  BY SeenTypes DEF SameEnd, End
<1>3. Conn!Accept
  BY <1>1, <1>2, SameTolds DEF Conn!Accept, End
<1> QED BY <1>3 DEF ConnStep, Conn!Next

LEMMA SeesConnect ==
  ASSUME EndAt(CLIENT) # "none", EndAt(PROXY) # "open", EndAt(PROXY)' = "open", SameEnd(CLIENT),
         EndedAt(PROXY)' <=> EndedAt(PROXY), BrokenAt(PROXY)' <=> BrokenAt(PROXY),
         \A g \in End : SameTold(g), UNCHANGED read,
         delivered' = [delivered EXCEPT ![PROXY] = 0], connections' = connections + 1
  PROVE  ConnStep
<1>1. [g \in End |-> EndAt(g)]' = [[g \in End |-> EndAt(g)] EXCEPT ![PROXY] = "open"]
  BY DEF SameEnd, End
<1>2. UNCHANGED << [e \in End |-> EndedAt(e)], [e \in End |-> BrokenAt(e)] >>
  BY SeenTypes DEF SameEnd, End
<1>3. Conn!Connect
  BY <1>1, <1>2, SameTolds DEF Conn!Connect, End
<1> QED BY <1>3 DEF ConnStep, Conn!Next

LEMMA SeesWrite ==
  ASSUME NEW e \in End, EndAt(e) = "open", ~EndedAt(e),
         \A g \in End : SameEnd(g) /\ SameTold(g),
         read' = [read EXCEPT ![e] = @ + 1], UNCHANGED <<delivered, connections>>
  PROVE  ConnStep
<1>1. Conn!Write(e)
  BY SameSeen, SameTolds DEF Conn!Write
<1> QED BY <1>1, ConnEnds DEF ConnStep, Conn!Next

\* An application that wrote its last.
LEMMA SeesEnded ==
  ASSUME NEW e \in End, EndAt(e) = "open", EndAt(e)' = "open", EndedAt(e)',
         BrokenAt(e)' <=> BrokenAt(e), SameEnd(Other(e)), \A g \in End : SameTold(g),
         UNCHANGED <<read, delivered, connections>>
  PROVE  ConnStep
<1>1. \A g \in End : g = e \/ g = Other(e)
  BY OtherFacts
<1>2. [g \in End |-> EndedAt(g)]' = [[g \in End |-> EndedAt(g)] EXCEPT ![e] = TRUE]
  BY <1>1, SeenTypes DEF SameEnd
<1>3. UNCHANGED << [g \in End |-> EndAt(g)], [g \in End |-> BrokenAt(g)] >>
  BY <1>1, SeenTypes DEF SameEnd
<1>4. Conn!WriteEnd(e)
  BY <1>2, <1>3, SameTolds DEF Conn!WriteEnd
<1> QED BY <1>4, ConnEnds DEF ConnStep, Conn!Next

\* An application that takes no more.
LEMMA SeesBroken ==
  ASSUME NEW e \in End, EndAt(e) = "open", EndAt(e)' = "open", BrokenAt(e)',
         EndedAt(e)' <=> EndedAt(e), SameEnd(Other(e)), \A g \in End : SameTold(g),
         UNCHANGED <<read, delivered, connections>>
  PROVE  ConnStep
<1>1. \A g \in End : g = e \/ g = Other(e)
  BY OtherFacts
<1>2. [g \in End |-> BrokenAt(g)]' = [[g \in End |-> BrokenAt(g)] EXCEPT ![e] = TRUE]
  BY <1>1, SeenTypes DEF SameEnd
<1>3. UNCHANGED << [g \in End |-> EndAt(g)], [g \in End |-> EndedAt(g)] >>
  BY <1>1, SeenTypes DEF SameEnd
<1>4. Conn!Break(e)
  BY <1>2, <1>3, SameTolds DEF Conn!Break
<1> QED BY <1>4, ConnEnds DEF ConnStep, Conn!Next

\* The application of e gets more of what the other wrote, and no other gets anything.
Given(e) ==
  /\ delivered'[Other(e)] = delivered[Other(e)]
  /\ delivered[e] <= delivered'[e] /\ delivered'[e] <= read[Other(e)]
  /\ delivered'[e] # delivered[e] => ~BrokenAt(e)

LEMMA SeesGiven ==
  ASSUME NEW e \in End, Given(e)
  PROVE  Conn!Gives(e)
<1>1. \A g \in End \ {e} : g = Other(e)
  BY OtherFacts
<1> QED BY <1>1, ConnEnds DEF Conn!Gives, Given

LEMMA SeesDeliver ==
  ASSUME NEW e \in End, EndAt(e) = "open", Given(e), \A g \in End : SameEnd(g) /\ SameTold(g),
         UNCHANGED <<read, connections>>
  PROVE  ConnStep
<1>1. Conn!Deliver(e)
  BY SameSeen, SameTolds, SeesGiven DEF Conn!Deliver
<1> QED BY <1>1, ConnEnds DEF ConnStep, Conn!Next

\* An end that leaves: because of its application, of what it hears, or because all is done.
LEMMA SeesLeave ==
  ASSUME NEW e \in End, EndAt(e) = "open", EndAt(e)' = "gone", ~EndedAt(e)', ~BrokenAt(e)',
         SameEnd(Other(e)), Given(e), UNCHANGED <<read, connections>>,
         \/ BrokenAt(e) \/ ToldAt(e) \/ connections > 1
         \/ /\ delivered'[e] = read[Other(e)]
            /\ EndedAt(Other(e)) \/ EndAt(Other(e)) # "open",
         \/ SameTold(e) /\ (ToldAt(Other(e)) => ToldAt(Other(e))')
         \/ (ToldAt(e)' => ToldAt(e)) /\ SameTold(Other(e))
  PROVE  ConnStep
<1>1. Other(e) \in End /\ \A g \in End : g = e \/ g = Other(e)
  BY OtherFacts
<1>2. [g \in End |-> EndAt(g)]' = [[g \in End |-> EndAt(g)] EXCEPT ![e] = "gone"]
  BY <1>1 DEF SameEnd
<1>3. /\ [g \in End |-> EndedAt(g)]' = [[g \in End |-> EndedAt(g)] EXCEPT ![e] = FALSE]
      /\ [g \in End |-> BrokenAt(g)]' = [[g \in End |-> BrokenAt(g)] EXCEPT ![e] = FALSE]
  BY <1>1, SeenTypes DEF SameEnd
<1>4. Conn!HasAll(e) <=> /\ delivered'[e] = read[Other(e)]
                         /\ EndedAt(Other(e)) \/ EndAt(Other(e)) # "open"
  BY <1>1, ConnEnds DEF Conn!HasAll
<1> DEFINE told == [g \in End |-> ToldAt(g)]
<1>5. \/ told' = [told EXCEPT ![Other(e)] = TRUE]
      \/ told' \in { told, [told EXCEPT ![e] = FALSE] }
  <2>1. CASE \A g \in End : SameTold(g)
    BY <2>1, SameTolds
  <2>2. CASE SameTold(e) /\ ~ToldAt(Other(e)) /\ ToldAt(Other(e))'
    <3>1. told' = [told EXCEPT ![Other(e)] = TRUE]
      BY <1>1, <2>2, SeenTypes DEF SameTold
    <3> QED BY <3>1
  <2>3. CASE SameTold(Other(e)) /\ ToldAt(e) /\ ~ToldAt(e)'
    <3>1. told' = [told EXCEPT ![e] = FALSE]
      BY <1>1, <2>3, SeenTypes DEF SameTold
    <3> QED BY <3>1
  <2> QED BY <1>1, <2>1, <2>2, <2>3 DEF SameTold
<1>6. Conn!Leave(e)
  BY <1>1, <1>2, <1>3, <1>4, <1>5, SeesGiven, ConnEnds DEF Conn!Leave
<1> QED BY <1>6, ConnEnds DEF ConnStep, Conn!Next


-----------------------------------------------------------------------------
(* The steps of an end *)

\* A step of e, which only e's entry can show.
LEMMA SameOther ==
  ASSUME NEW e \in End, UNCHANGED accepted, connections' = connections,
         mux'[Other(e)] = mux[Other(e)]
  PROVE  SameEnd(Other(e)) /\ (Started(e)' <=> Started(e))
BY OtherFacts DEF SameEnd, EndAt, EndedAt, BrokenAt, Started, isMux

LEMMA SameNews ==
  ASSUME NEW g \in End, chan'[g] = chan[g] PROVE SameTold(g)
BY DEF SameTold, ToldAt

\* An entry that stays one, of the same sockets.
LEMMA SameEntry ==
  ASSUME NEW e \in End, isMux(e), isMux(e)',
         mux'[e].localSocketReadState = "CLOSED_ACKNOWLEDGED" <=>
           mux[e].localSocketReadState = "CLOSED_ACKNOWLEDGED",
         mux'[e].localSocketWriteState = "OPENED" <=> mux[e].localSocketWriteState = "OPENED"
  PROVE  SameEnd(e)
BY DEF SameEnd, EndAt, EndedAt, BrokenAt

\* A step of e on its own entry, that leaves its sockets alone.
LEMMA WorkSeesNothing ==
  ASSUME MuxInv, NEW e \in End, isMux(e), NEW k, k # NoMux, mux' = [mux EXCEPT ![e] = k],
         k.localSocketReadState = mux[e].localSocketReadState,
         k.localSocketWriteState = mux[e].localSocketWriteState,
         UNCHANGED <<chan, accepted, connections>>
  PROVE  \A g \in End : SameEnd(g) /\ SameTold(g)
<1>1. mux'[e] = k /\ mux'[Other(e)] = mux[Other(e)] /\ isMux(e)'
  BY OtherFacts DEF MuxInv, TypeOK, isMux
<1>2. SameEnd(e)
  BY <1>1, SameEntry
<1>3. SameEnd(Other(e))
  BY <1>1, SameOther
<1> QED BY <1>2, <1>3, OtherFacts, SameNews

LEMMA TimeOutSeen == \A e \in End : MuxInv /\ TimeOut(e) => ConnStep
<1> SUFFICES ASSUME NEW e \in End, MuxInv, TimeOut(e) PROVE ConnStep
  OBVIOUS
<1> DEFINE k == onTimeOut(mux[e])
<1>1. /\ isMux(e) /\ mux' = [mux EXCEPT ![e] = k]
      /\ UNCHANGED <<chan, accepted, connections, read, delivered>>
  BY DEF TimeOut
<1>2. /\ k \in MuxState /\ SameButEncoder(mux[e], k)
  BY <1>1, OwnEntry, OnTimeOutOK
<1> HIDE DEF k
<1>3. k # NoMux
  BY <1>2 DEF MuxState, NoMux
<1> QED BY <1>1, <1>2, <1>3, WorkSeesNothing, SeesNothing DEF SameButEncoder

LEMMA ReadTcpSeen == \A e \in End : MuxInv /\ ReadTcp(e) => ConnStep
<1> SUFFICES ASSUME NEW e \in End, MuxInv, ReadTcp(e) PROVE ConnStep
  OBVIOUS
<1> DEFINE k == handleInClear(mux[e], 1)
<1>1. /\ isMux(e) /\ mux' = [mux EXCEPT ![e] = k]
      /\ mux[e].localSocketReadState = "OPENED" /\ read[e] < MaxUnits
      /\ read' = [read EXCEPT ![e] = @ + 1]
      /\ UNCHANGED <<chan, accepted, connections, delivered>>
  BY DEF ReadTcp, Readable
<1>2. read[e] \in 0 .. MaxUnits /\ read[e] + 1 <= MaxUnits /\ 1 \in Nat
  BY <1>1, OwnEntry, MuxAssumption
<1>3. k \in MuxState /\ SameButEncoder(mux[e], k)
  BY <1>1, <1>2, OwnEntry, HandleInClearOK
<1> HIDE DEF k
<1>4. k # NoMux
  BY <1>3 DEF MuxState, NoMux
<1>5. \A g \in End : SameEnd(g) /\ SameTold(g)
  BY <1>1, <1>3, <1>4, WorkSeesNothing DEF SameButEncoder
<1>6. EndAt(e) = "open" /\ ~EndedAt(e)
  BY <1>1 DEF EndAt, EndedAt
<1> QED BY <1>1, <1>5, <1>6, SeesWrite

LEMMA ReadTcpFailsSeen == \A e \in End : MuxInv /\ ReadTcpFails(e) => ConnStep
<1> SUFFICES ASSUME NEW e \in End, MuxInv, ReadTcpFails(e) PROVE ConnStep
  OBVIOUS
<1> DEFINE k == handleInClear(mux[e], 0)
<1>1. /\ isMux(e) /\ mux' = [mux EXCEPT ![e] = k]
      /\ UNCHANGED <<chan, accepted, connections, read, delivered>>
  BY DEF ReadTcpFails, Readable
<1>2. read[e] \in 0 .. MaxUnits /\ read[e] + 0 <= MaxUnits /\ 0 \in Nat
  BY <1>1, OwnEntry, MuxAssumption
<1>3. k \in MuxState /\ SameButEncoder(mux[e], k)
  BY <1>1, <1>2, OwnEntry, HandleInClearOK
<1> HIDE DEF k
<1>4. k # NoMux
  BY <1>3 DEF MuxState, NoMux
<1> QED BY <1>1, <1>3, <1>4, WorkSeesNothing, SeesNothing DEF SameButEncoder

LEMMA ElapseSeen == \A e \in End : MuxInv /\ Elapse(e) => ConnStep
<1> SUFFICES ASSUME NEW e \in End, MuxInv, Elapse(e) PROVE ConnStep
  OBVIOUS
<1> DEFINE k == [mux[e] EXCEPT !.announced = FALSE]
<1>1. /\ isMux(e) /\ mux' = [mux EXCEPT ![e] = k]
      /\ UNCHANGED <<chan, accepted, connections, read, delivered>>
  BY DEF Elapse, MuxInv, TypeOK
<1>2. /\ k \in MuxState
      /\ k.localSocketReadState = mux[e].localSocketReadState
      /\ k.localSocketWriteState = mux[e].localSocketWriteState
  <2>1. mux[e] \in MuxState
    BY <1>1, OwnEntry
  <2> QED BY <2>1 DEF MuxState
<1> HIDE DEF k
<1>3. k # NoMux
  BY <1>2 DEF MuxState, NoMux
<1> QED BY <1>1, <1>2, <1>3, WorkSeesNothing, SeesNothing

LEMMA ReadEndSeen == \A e \in End : MuxInv /\ ReadEnd(e) => ConnStep
<1> SUFFICES ASSUME NEW e \in End, MuxInv, ReadEnd(e) PROVE ConnStep
  OBVIOUS
<1> DEFINE k == [mux[e] EXCEPT !.localSocketReadState = "CLOSED_ACKNOWLEDGED"]
<1>1. /\ isMux(e) /\ mux' = [mux EXCEPT ![e] = k]
      /\ UNCHANGED <<chan, accepted, connections, read, delivered>>
  BY DEF ReadEnd, Readable, MuxInv, TypeOK
<1>2. /\ k \in MuxState
      /\ k.localSocketReadState = "CLOSED_ACKNOWLEDGED"
      /\ k.localSocketWriteState = mux[e].localSocketWriteState
  <2>1. mux[e] \in MuxState
    BY <1>1, OwnEntry
  <2> QED BY <2>1 DEF MuxState
<1> HIDE DEF k
<1>3. mux'[e] = k /\ mux'[Other(e)] = mux[Other(e)] /\ isMux(e)'
  BY <1>1, <1>2, OtherFacts DEF MuxInv, TypeOK, isMux, MuxState, NoMux
<1>4. /\ EndAt(e) = "open" /\ EndAt(e)' = "open" /\ EndedAt(e)'
      /\ BrokenAt(e)' <=> BrokenAt(e)
  BY <1>1, <1>2, <1>3 DEF EndAt, EndedAt, BrokenAt
<1> QED BY <1>1, <1>3, <1>4, SameOther, SameNews, SeesEnded

LEMMA ProcessFailsSeen == \A e \in End : MuxInv /\ ProcessFails(e) => ConnStep
<1> SUFFICES ASSUME NEW e \in End, MuxInv, ProcessFails(e) PROVE ConnStep
  OBVIOUS
<1> DEFINE k == Failed(mux[e])
<1>1. /\ isMux(e) /\ mux' = [mux EXCEPT ![e] = k]
      /\ UNCHANGED <<chan, accepted, connections, read, delivered>>
  BY DEF ProcessFails
<1>2. /\ k.localSocketReadState = mux[e].localSocketReadState
      /\ k.localSocketWriteState = "CLOSED_NOT_ACKNOWLEDGED" /\ k # NoMux
  <2>1. mux[e] \in MuxState
    BY <1>1, OwnEntry
  <2> QED BY <2>1 DEF Failed, MuxState, NoMux
<1> HIDE DEF k
<1>3. mux'[e] = k /\ mux'[Other(e)] = mux[Other(e)] /\ isMux(e)'
  BY <1>1, <1>2, OtherFacts DEF MuxInv, TypeOK, isMux
<1>4. /\ EndAt(e) = "open" /\ EndAt(e)' = "open" /\ BrokenAt(e)'
      /\ EndedAt(e)' <=> EndedAt(e)
  BY <1>1, <1>2, <1>3 DEF EndAt, EndedAt, BrokenAt
<1> QED BY <1>1, <1>3, <1>4, SameOther, SameNews, SeesBroken

\* A packet lost is, if it was a CLOSE, news that is lost.
LEMMA LoseSeen == \A e \in End : MuxInv /\ Lose(e) => ConnStep
<1> SUFFICES ASSUME NEW e \in End, MuxInv, Lose(e) PROVE ConnStep
  OBVIOUS
<1>1. PICK i \in Arrivals(e) : chan' = [chan EXCEPT ![e] = RemoveAt(@, i)]
  BY DEF Lose
<1>2. UNCHANGED <<mux, accepted, connections, read, delivered>>
  BY DEF Lose
<1>3. /\ chan[e] \in Seq(Message) /\ i \in DOMAIN chan[e]
      /\ chan'[e] = RemoveAt(chan[e], i) /\ chan'[Other(e)] = chan[Other(e)]
  BY <1>1, OtherFacts DEF MuxInv, TypeOK, Arrivals
<1>4. ToldAt(e)' => ToldAt(e)
  <2>1. Range(RemoveAt(chan[e], i)) \subseteq Range(chan[e])
    BY <1>3, TakenFacts
  <2> QED BY <1>3, <2>1 DEF ToldAt
<1>5. \A g \in End : SameEnd(g)
  BY <1>2 DEF SameEnd, EndAt, EndedAt, BrokenAt, Started, isMux
<1> QED BY <1>2, <1>3, <1>4, <1>5, OtherFacts, SameNews, SeesLoss

LEMMA AcceptSeen == MuxInv /\ Accept => ConnStep
<1> SUFFICES ASSUME MuxInv, Accept PROVE ConnStep
  OBVIOUS
<1>1. CLIENT \in End /\ Other(CLIENT) = PROXY /\ PROXY # CLIENT
  BY DEF End, Other, CLIENT, PROXY
<1>2. /\ acceptedMux # NoMux
      /\ acceptedMux.localSocketReadState = "OPENED"
      /\ acceptedMux.localSocketWriteState = "OPENED"
  BY DEF acceptedMux, newMux, NoMux
<1>3. /\ ~accepted /\ accepted' /\ mux' = [mux EXCEPT ![CLIENT] = acceptedMux]
      /\ UNCHANGED <<chan, connections, read, delivered>>
  BY DEF Accept
<1>4. mux'[CLIENT] = acceptedMux /\ mux'[PROXY] = mux[PROXY]
  BY <1>1, <1>3 DEF MuxInv, TypeOK, End
<1>5. ~isMux(CLIENT) /\ isMux(CLIENT)'
  BY <1>1, <1>2, <1>3, <1>4 DEF MuxInv, EntryInv, Started, isMux
<1>6. EndAt(CLIENT) = "none" /\ EndAt(CLIENT)' = "open"
  BY <1>3, <1>5 DEF EndAt, Started
<1>7. /\ EndedAt(CLIENT)' <=> EndedAt(CLIENT)
      /\ BrokenAt(CLIENT)' <=> BrokenAt(CLIENT)
  BY <1>2, <1>4, <1>5 DEF EndedAt, BrokenAt
<1>8. SameEnd(PROXY)
  BY <1>1, <1>3, <1>4 DEF SameEnd, EndAt, EndedAt, BrokenAt, Started, isMux
<1> QED BY <1>3, <1>6, <1>7, <1>8, SameNews, SeesAccept


-----------------------------------------------------------------------------
(* Receiving *)

\* A packet that is no CLOSE, and whose reply is none, is no news.
LEMMA HandledNews ==
  ASSUME MuxInv, NEW e \in End, NEW i \in Arrivals(e), NEW k, NEW reply \in Seq(Message),
         Handled(e, i, k, reply)
  PROVE  /\ ToldAt(e)' => ToldAt(e)
         /\ chan[e][i].type = "CLOSE" => ToldAt(e)
         /\ chan[e][i].type # "CLOSE" => SameTold(e)
         /\ ToldAt(Other(e)) => ToldAt(Other(e))'
         /\ (\A p \in Range(reply) : p.type # "CLOSE") => SameTold(Other(e))
         /\ mux'[e] = k /\ mux'[Other(e)] = mux[Other(e)]
         /\ UNCHANGED <<accepted, read>> /\ accepted
<1>1. /\ chan[e][i] \in Range(chan[e])
      /\ Range(chan'[e]) \subseteq Range(chan[e])
      /\ Range(chan[e]) \subseteq Range(chan'[e]) \cup {chan[e][i]}
      /\ Range(chan'[Other(e)]) \subseteq Range(chan[Other(e)]) \cup Range(reply)
      /\ Range(chan[Other(e)]) \subseteq Range(chan'[Other(e)])
      /\ accepted
  BY HandledChannels
<1>2. /\ mux'[e] = k /\ mux'[Other(e)] = mux[Other(e)]
      /\ UNCHANGED <<accepted, read>>
  BY OtherFacts DEF Handled, MuxInv, TypeOK
<1>3. /\ ToldAt(e)' => ToldAt(e)
      /\ chan[e][i].type = "CLOSE" => ToldAt(e)
      /\ chan[e][i].type # "CLOSE" => SameTold(e)
  BY <1>1 DEF ToldAt, SameTold
<1>4. /\ ToldAt(Other(e)) => ToldAt(Other(e))'
      /\ (\A p \in Range(reply) : p.type # "CLOSE") => SameTold(Other(e))
  BY <1>1 DEF ToldAt, SameTold
<1> QED BY <1>1, <1>2, <1>3, <1>4

\* An end that is not there sends a CLOSE back.
LEMMA RefusedSeen ==
  ASSUME MuxInv, NEW e \in End, ~isMux(e), NEW i \in Arrivals(e), chan[e][i].type # "CLOSE",
         Handled(e, i, NoMux, Refusal), UNCHANGED <<connections, delivered>>
  PROVE  ConnStep
<1>1. Refusal \in Seq(Message)
  BY RefusalType DEF Refusal, Control
<1>2. /\ SameTold(e) /\ (ToldAt(Other(e)) => ToldAt(Other(e))')
      /\ mux'[e] = NoMux /\ mux'[Other(e)] = mux[Other(e)] /\ UNCHANGED <<accepted, read>>
  BY <1>1, HandledNews
<1>3. SameEnd(Other(e)) /\ (Started(e)' <=> Started(e))
  BY <1>2, SameOther
<1>4. SameEnd(e) /\ EndAt(e) # "open"
  BY <1>2, <1>3 DEF SameEnd, EndAt, EndedAt, BrokenAt, isMux
<1>5. Other(e) \in End /\ Other(Other(e)) = e /\ \A g \in End : g = e \/ g = Other(e)
  BY OtherFacts
<1> QED BY <1>2, <1>3, <1>4, <1>5, SeesTold

LEMMA ReceiveFirstNoServerSeen ==
  \A e \in End : MuxInv /\ ReceiveFirstNoServer(e) => ConnStep
<1> SUFFICES ASSUME NEW e \in End, MuxInv, ReceiveFirstNoServer(e) PROVE ConnStep
  OBVIOUS
<1>1. PICK i \in Arrivals(e) : Opens(e, assignMux(e), chan[e][i]) /\ Handled(e, i, NoMux, Refusal)
  BY DEF ReceiveFirstNoServer
<1>2. ~isMux(e) /\ chan[e][i].type # "CLOSE"
  BY <1>1, OpensWithout DEF Opens
<1>3. UNCHANGED <<connections, delivered>>
  BY DEF ReceiveFirstNoServer
<1> QED BY <1>1, <1>2, <1>3, RefusedSeen

LEMMA ReceiveSenselessSeen == \A e \in End : MuxInv /\ ReceiveSenseless(e) => ConnStep
<1> SUFFICES ASSUME NEW e \in End, MuxInv, ReceiveSenseless(e) PROVE ConnStep
  OBVIOUS
<1>1. PICK i \in Arrivals(e) :
        ~MakesSense(assignMux(e), chan[e][i]) /\ Handled(e, i, NoMux, Refusal)
  BY DEF ReceiveSenseless
<1>2. ~isMux(e) /\ chan[e][i].type # "CLOSE"
  BY <1>1 DEF MakesSense, assignMux, MuxInv, EntryInv, EntryOK
<1>3. UNCHANGED <<connections, delivered>>
  BY DEF ReceiveSenseless
<1> QED BY <1>1, <1>2, <1>3, RefusedSeen

LEMMA ReceiveFirstSeen == \A e \in End : MuxInv /\ ReceiveFirst(e) => ConnStep
<1> SUFFICES ASSUME NEW e \in End, MuxInv, ReceiveFirst(e) PROVE ConnStep
  OBVIOUS
<1>1. PICK i \in Arrivals(e) :
        /\ Opens(e, assignMux(e), chan[e][i])
        /\ Handled(e, i, Connected(assignMux(e), chan[e][i]), <<>>)
  BY DEF ReceiveFirst
<1> DEFINE k == Connected(newMux, chan[e][i])
<1>2. e = PROXY /\ Other(e) = CLIENT /\ ~isMux(e) /\ Handled(e, i, k, <<>>)
      /\ chan[e][i].type # "CLOSE"
  BY <1>1, OpensWithout DEF Opens, Other, CLIENT, PROXY
<1>3. connections' = connections + 1 /\ delivered' = [delivered EXCEPT ![e] = 0]
      /\ connections \in Nat
  BY DEF ReceiveFirst, MuxInv, TypeOK
<1>4. /\ SameTold(e) /\ SameTold(Other(e)) /\ accepted
      /\ mux'[e] = k /\ mux'[Other(e)] = mux[Other(e)] /\ UNCHANGED <<accepted, read>>
  BY <1>2, HandledNews, RefusalType
<1>5. k # NoMux /\ k.localSocketReadState = "OPENED" /\ k.localSocketWriteState = "OPENED"
  <2>1. chan[e][i] \in Message /\ chan[e][i] \in Range(chan[e])
    BY <1>2, HandledChannels, RefusalType
  <2>2. chan[e][i].type = "DATA" => chan[e][i].units \subseteq 1 .. read[Other(e)]
    BY <2>1 DEF MuxInv, QuietInv
  <2>3. 0 \in 0 .. MaxUnits /\ read[Other(e)] \in 0 .. MaxUnits
    BY OtherFacts, MuxAssumption DEF MuxInv, TypeOK
  <2>4. /\ k \in MuxState
        /\ k.localSocketReadState = "OPENED" /\ k.localSocketWriteState = "OPENED"
    BY <2>1, <2>2, <2>3, ConnectedOK
  <2> QED BY <2>4 DEF MuxState, NoMux
<1> HIDE DEF k
<1>6. EndAt(PROXY) # "open" /\ EndAt(PROXY)' = "open" /\ EndAt(CLIENT) # "none"
  BY <1>2, <1>4, <1>5 DEF EndAt, isMux, Started
<1>7. /\ EndedAt(PROXY)' <=> EndedAt(PROXY)
      /\ BrokenAt(PROXY)' <=> BrokenAt(PROXY)
  BY <1>2, <1>4, <1>5 DEF EndedAt, BrokenAt, isMux
<1>8. SameEnd(CLIENT)
  BY <1>2, <1>4 DEF SameEnd, EndAt, EndedAt, BrokenAt, isMux, Started
<1>9. \A g \in End : SameTold(g)
  BY <1>2, <1>4 DEF End
<1> QED BY <1>2, <1>3, <1>4, <1>6, <1>7, <1>8, <1>9, SeesConnect

\* An entry owes its application no more than the other wrote.
LEMMA OwedBound ==
  ASSUME MuxInv, NEW e \in End, isMux(e)
  PROVE  /\ delivered[e] \in Nat /\ mux[e].toApp \in Nat
         /\ delivered[e] + mux[e].toApp <= read[Other(e)] /\ delivered[e] <= read[Other(e)]
<1> DEFINE m == mux[e]
<1>1. /\ m \in MuxState /\ EntryOK(m, read[e], read[Other(e)], delivered[e], connections)
      /\ read[Other(e)] \in 0 .. MaxUnits /\ delivered[e] \in 0 .. MaxUnits
  BY OwnEntry
<1>2. m.toApp \in 0 .. MaxUnits /\ m.received \in SUBSET (1 .. read[Other(e)])
      /\ delivered[e] + m.toApp <= inOrder(m.received)
  BY <1>1 DEF EntryOK, MuxState
<1>3. inOrder(m.received) \in Nat /\ inOrder(m.received) <= read[Other(e)]
  BY <1>1, <1>2, InOrderBound
<1> QED BY <1>1, <1>2, <1>3, MuxAssumption

\* A CLOSE makes an end leave, or is news no more.
LEMMA ClosedSeen ==
  ASSUME MuxInv, NEW e \in End, NEW i \in Arrivals(e), chan[e][i].type = "CLOSE",
         Handled(e, i, NoMux, <<>>), UNCHANGED <<connections, delivered>>
  PROVE  ConnStep
<1>1. /\ ToldAt(e) /\ (ToldAt(e)' => ToldAt(e)) /\ SameTold(Other(e))
      /\ mux'[e] = NoMux /\ mux'[Other(e)] = mux[Other(e)] /\ UNCHANGED <<accepted, read>>
  BY HandledNews, RefusalType
<1>2. SameEnd(Other(e)) /\ (Started(e)' <=> Started(e))
  BY <1>1, SameOther
<1>3. CASE ~isMux(e)
  <2>1. SameEnd(e)
    BY <1>1, <1>2, <1>3 DEF SameEnd, EndAt, EndedAt, BrokenAt, isMux
  <2> QED BY <1>1, <1>2, <2>1, OtherFacts, SeesLoss
<1>4. CASE isMux(e)
  <2>1. Started(e)
    BY <1>4 DEF MuxInv, EntryInv
  <2>2. /\ EndAt(e) = "open" /\ EndAt(e)' = "gone" /\ ~EndedAt(e)' /\ ~BrokenAt(e)'
    BY <1>1, <1>2, <1>4, <2>1 DEF EndAt, EndedAt, BrokenAt, isMux
  <2>3. delivered[e] <= read[Other(e)]
    BY <1>4, OwedBound
  <2>4. delivered[e] <= delivered[e]
    BY OwnEntry, <1>4
  <2>5. Given(e)
    BY <2>3, <2>4 DEF Given
  <2> QED BY <1>1, <1>2, <2>2, <2>5, SeesLeave
<1> QED BY <1>3, <1>4

LEMMA ReceiveSeen == \A e \in End : MuxInv /\ Receive(e) => ConnStep
<1> SUFFICES ASSUME NEW e \in End, MuxInv, Receive(e) PROVE ConnStep
  OBVIOUS
<1> DEFINE m == assignMux(e)
<1>1. PICK i \in Arrivals(e) :
        /\ MakesSense(m, chan[e][i])
        /\ Handled(e, i, Understood(m, chan[e][i]), ReplyTo(chan[e][i]))
  BY DEF Receive
<1> DEFINE msg == chan[e][i]
           k == Understood(m, msg)
<1>2. UNCHANGED <<connections, delivered>> /\ msg \in Message
  BY <1>1 DEF Receive, MuxInv, TypeOK, Arrivals
<1>3. CASE msg.type = "CLOSE"
  <2>1. k = NoMux /\ ReplyTo(msg) = <<>>
    BY <1>3 DEF Understood, ReplyTo
  <2> QED BY <1>1, <1>2, <1>3, <2>1, ClosedSeen
<1>4. CASE msg.type # "CLOSE"
  <2>1. isMux(e) /\ m = mux[e]
    BY <1>1, <1>2, <1>4, ReceivedWithout DEF assignMux
  <2>2. /\ ReplyTo(msg) \in Seq(Message)
        /\ \A p \in Range(ReplyTo(msg)) : p.type # "CLOSE"
    BY <1>2, ReplyType
  <2>3. /\ SameTold(e) /\ SameTold(Other(e))
        /\ mux'[e] = k /\ mux'[Other(e)] = mux[Other(e)] /\ UNCHANGED <<accepted, read>>
    BY <1>1, <1>4, <2>2, HandledNews
  <2>4. /\ k # NoMux
        /\ k.localSocketReadState = m.localSocketReadState
        /\ k.localSocketWriteState = "OPENED" => m.localSocketWriteState = "OPENED"
    <3>1. msg \in Range(chan[e])
      BY <1>1, <2>2, HandledChannels
    <3>2. msg.type = "DATA" => msg.units \subseteq 1 .. read[Other(e)]
      BY <3>1 DEF MuxInv, QuietInv
    <3>3. Heard(m, msg, k)
      BY <1>2, <1>4, <2>1, <3>2, OwnEntry, UnderstoodOK
    <3> QED BY <3>3 DEF Heard, MuxState, NoMux
  <2> HIDE DEF k, msg, m
  <2>5. isMux(e)' /\ EndAt(e) = "open" /\ EndAt(e)' = "open" /\ (EndedAt(e)' <=> EndedAt(e))
    BY <2>1, <2>3, <2>4 DEF isMux, EndAt, EndedAt
  <2>6. SameEnd(Other(e))
    BY <1>2, <2>3, SameOther
  <2>7. \A g \in End : SameTold(g)
    BY <2>3, OtherFacts
  <2>8. CASE BrokenAt(e)'
    BY <1>2, <2>3, <2>5, <2>6, <2>7, <2>8, SeesBroken
  <2>9. CASE ~BrokenAt(e)'
    <3>1. ~BrokenAt(e)
      BY <2>1, <2>3, <2>4, <2>5, <2>9 DEF BrokenAt
    <3>2. \A g \in End : SameEnd(g)
      BY <2>5, <2>6, <2>9, <3>1, OtherFacts DEF SameEnd
    <3> QED BY <1>2, <2>3, <2>7, <3>2, SeesNothing
  <2> QED BY <2>8, <2>9
<1> QED BY <1>3, <1>4


-----------------------------------------------------------------------------
(* The end of an iteration, and the refinement *)

\* An end that can still communicate says nothing of leaving.
LEMMA ProcessNews ==
  ASSUME MuxInv, NEW e \in End, isMux(e), Process(e)
  PROVE  /\ SameTold(e)
         /\ ToldAt(Other(e)) => ToldAt(Other(e))'
         /\ Communicates(mux[e]) => SameTold(Other(e))
<1>1. /\ chan'[e] = chan[e]
      /\ \A p \in Range(chan'[Other(e)]) : p \in Range(chan[Other(e)]) \/ p \in SentOf(mux[e])
      /\ Range(chan[Other(e)]) \subseteq Range(chan'[Other(e)])
  BY ProcessChannels
<1>2. \A p \in SentOf(mux[e]) : p.type = "CLOSE" => ~Communicates(mux[e])
  BY DEF SentOf
<1> QED BY <1>1, <1>2 DEF SameTold, ToldAt

\* An end that may leave: it cannot write, or it has all there is.
LEMMA UselessSeen ==
  ASSUME MuxInv, NEW e \in End, isMux(e), ~Communicates(mux[e]), connections <= 1, ~BrokenAt(e)
  PROVE  /\ delivered[e] + mux[e].toApp = read[Other(e)]
         /\ EndedAt(Other(e)) \/ EndAt(Other(e)) # "open"
<1>1. mux[e] \in MuxState
  BY OwnEntry
<1>2. /\ mux[e].localSocketWriteState = "OPENED"
      /\ mux[e].remoteOutstandingData = "CLOSED_ACKNOWLEDGED"
  BY <1>1 DEF Communicates, BrokenAt, MuxState
<1>3. AnnouncedIsDelivered /\ AnnouncedInv(e)
  BY InvAnnounced DEF MuxInv
<1>4. delivered[e] + mux[e].toApp = read[Other(e)]
  BY <1>2, <1>3 DEF AnnouncedIsDelivered
<1>5. isMux(Other(e)) => mux[Other(e)].localSocketReadState = "CLOSED_ACKNOWLEDGED"
  BY <1>2, <1>3 DEF AnnouncedInv, Announced
<1> QED BY <1>4, <1>5 DEF EndedAt, EndAt

LEMMA ProcessSeen == \A e \in End : MuxInv /\ Process(e) => ConnStep
<1> SUFFICES ASSUME NEW e \in End, MuxInv, Process(e) PROVE ConnStep
  OBVIOUS
<1> DEFINE m == mux[e]
<1>1. UNCHANGED <<accepted, connections, read>>
  BY DEF Process
<1>2. CASE ~isMux(e)
  <2>1. UNCHANGED <<mux, chan, delivered>>
    BY <1>2 DEF Process
  <2>2. \A g \in End : SameEnd(g)
    BY <1>1, <2>1 DEF SameEnd, EndAt, EndedAt, BrokenAt, Started, isMux
  <2> QED BY <1>1, <2>1, <2>2, SameNews, SeesNothing
<1>3. CASE isMux(e)
  <2>1. /\ mux' = [mux EXCEPT ![e] = IF Communicates(m) THEN Processed(m) ELSE NoMux]
        /\ delivered' = [delivered EXCEPT ![e] =
              IF m.localSocketWriteState = "OPENED" THEN @ + m.toApp ELSE @]
    BY <1>3 DEF Process
  <2>2. /\ mux'[e] = IF Communicates(m) THEN Processed(m) ELSE NoMux
        /\ mux'[Other(e)] = mux[Other(e)]
        /\ delivered'[e] = IF m.localSocketWriteState = "OPENED"
                           THEN delivered[e] + m.toApp ELSE delivered[e]
        /\ delivered'[Other(e)] = delivered[Other(e)]
    BY <2>1, OtherFacts DEF MuxInv, TypeOK
  <2>3. m \in MuxState /\ connections \in Nat
    BY <1>3, OwnEntry
  <2>4. /\ Processed(m) # NoMux
        /\ Processed(m).localSocketReadState = m.localSocketReadState
        /\ Processed(m).localSocketWriteState = m.localSocketWriteState
    BY <2>3, ProcessedType DEF MuxState, NoMux
  <2>5. Given(e)
    <3>1. /\ delivered[e] \in Nat /\ m.toApp \in Nat /\ delivered[e] <= read[Other(e)]
          /\ delivered[e] + m.toApp <= read[Other(e)]
      BY <1>3, OwedBound
    <3>2. delivered'[e] # delivered[e] => ~BrokenAt(e)
      BY <2>2 DEF BrokenAt
    <3> HIDE DEF m
    <3> QED BY <2>2, <3>1, <3>2 DEF Given
  <2>6. SameEnd(Other(e)) /\ (Started(e)' <=> Started(e)) /\ Started(e)
    BY <1>1, <1>3, <2>2, SameOther DEF MuxInv, EntryInv
  <2>7. SameTold(e) /\ (ToldAt(Other(e)) => ToldAt(Other(e))')
        /\ (Communicates(m) => SameTold(Other(e)))
    BY <1>3, ProcessNews
  <2>8. EndAt(e) = "open"
    BY <1>3 DEF EndAt
  <2>9. CASE Communicates(m)
    <3>1. SameEnd(e)
      BY <1>3, <2>2, <2>4, <2>9, SameEntry DEF isMux
    <3> QED BY <1>1, <2>5, <2>6, <2>7, <2>8, <2>9, <3>1, OtherFacts, SeesDeliver
  <2>10. CASE ~Communicates(m)
    <3>1. EndAt(e)' = "gone" /\ ~EndedAt(e)' /\ ~BrokenAt(e)'
      BY <2>2, <2>6, <2>10 DEF EndAt, EndedAt, BrokenAt, isMux
    <3>2. \/ BrokenAt(e) \/ connections > 1
          \/ /\ delivered'[e] = read[Other(e)]
             /\ EndedAt(Other(e)) \/ EndAt(Other(e)) # "open"
      <4> SUFFICES ASSUME ~BrokenAt(e), connections <= 1
                   PROVE  /\ delivered'[e] = read[Other(e)]
                          /\ EndedAt(Other(e)) \/ EndAt(Other(e)) # "open"
        BY <2>3
      <4>1. m.localSocketWriteState = "OPENED"
        BY <1>3 DEF BrokenAt
      <4> QED BY <1>3, <2>2, <2>10, <4>1, UselessSeen
    <3> QED BY <1>1, <2>5, <2>6, <2>7, <2>8, <3>1, <3>2, SeesLeave
  <2> QED BY <2>9, <2>10
<1> QED BY <1>2, <1>3

LEMMA InitSeen == Init => Conn!Init
<1> SUFFICES ASSUME Init PROVE Conn!Init
  OBVIOUS
<1>1. \A e \in End : mux[e] = NoMux /\ chan[e] = <<>> /\ ~accepted /\ connections = 0
  BY DEF Init
<1>2. \A e \in End : EndAt(e) = "none" /\ ~EndedAt(e) /\ ~BrokenAt(e) /\ ~ToldAt(e)
  BY <1>1 DEF EndAt, EndedAt, BrokenAt, ToldAt, Started, isMux, Range
<1>3. /\ [e \in End |-> EndAt(e)] = [e \in End |-> "none"]
      /\ [e \in End |-> EndedAt(e)] = [e \in End |-> FALSE]
      /\ [e \in End |-> BrokenAt(e)] = [e \in End |-> FALSE]
      /\ [e \in End |-> ToldAt(e)] = [e \in End |-> FALSE]
  BY <1>2, SeenTypes
<1>4. read = [e \in End |-> 0] /\ delivered = [e \in End |-> 0] /\ connections = 0
  BY DEF Init
<1> QED BY <1>3, <1>4, ConnEnds DEF Conn!Init

LEMMA StutterSeen == UNCHANGED vars => ConnStep
<1> SUFFICES ASSUME UNCHANGED vars PROVE ConnStep
  OBVIOUS
<1>1. \A g \in End : SameEnd(g) /\ SameTold(g)
  BY DEF vars, SameEnd, SameTold, EndAt, EndedAt, BrokenAt, ToldAt, Started, isMux
<1> QED BY <1>1, SeesNothing DEF vars

LEMMA NextSeen == MuxInv /\ [Next]_vars => ConnStep
BY AcceptSeen, TimeOutSeen, ReceiveFirstSeen, ReceiveFirstNoServerSeen, ReceiveSeen,
   ReceiveSenselessSeen, ReadTcpSeen, ReadTcpFailsSeen, ReadEndSeen, ProcessSeen,
   ProcessFailsSeen, ElapseSeen, LoseSeen, StutterSeen
DEF Next

\* The two ends implement one connection, whatever the network loses, delays or
\* repeats: no application is given what the other did not write, and no end is left by
\* its own end while it could go on, but at a second connection to the server.
THEOREM ImplementsConnectionHolds == Spec => ImplementsConnection
<1>1. Init => Conn!Init
  BY InitSeen
<1>2. MuxInv /\ [Next]_vars => [Conn!Next]_(Conn!vars)
  BY NextSeen DEF ConnStep
<1> QED BY <1>1, <1>2, MuxInvHolds, PTL DEF Spec, ImplementsConnection, Conn!Spec
=============================================================================

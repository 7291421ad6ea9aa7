----------------------------- MODULE LossBuffer -----------------------------
(***************************************************************************)
(* The ring of decoding.c that measures losses: an entry per sequence      *)
(* number for the last LOSS_BUFFER_SIZE of them.  A packet newer than all  *)
(* before marks the ones it overtook as lost; an older one marks its entry *)
(* as received, found by its distance from the newest.  The counts go into *)
(* every ACK, after the packet it acknowledges was entered.                *)
(***************************************************************************)
EXTENDS Integers, FiniteSets

CONSTANTS
  LOSS_BUFFER_SIZE,  \* 512 in the program
  MaxSeqNo,          \* bound: sequence numbers of a behaviour
  MaxLate            \* how far behind the newest a packet may arrive

ASSUME LossBufferAssumption ==
  LOSS_BUFFER_SIZE \in Nat \ {0} /\ MaxSeqNo \in Nat /\ MaxLate \in Nat

VARIABLES
  isReceived, currentIndex,  \* lossInformationBuffer
  lastSeqReceived,           \* of decoderstate
  arrived                    \* the sequence numbers that did arrive

vars == <<isReceived, currentIndex, lastSeqReceived, arrived>>

Index == 0 .. LOSS_BUFFER_SIZE - 1

unknown == -1
false == 0
true == 1

Init ==
  /\ isReceived = [i \in Index |-> unknown]
  /\ currentIndex = 0
  /\ lastSeqReceived = 0
  /\ arrived = {}

-----------------------------------------------------------------------------
(* The end of handleInCoded *)

\* Mutated: what was overtaken keeps its old entry.
OvertakenByNone(delta) == {}

\* The entries of the packets that one delta later overtook.
Overtaken(delta) ==
  { i % LOSS_BUFFER_SIZE : i \in currentIndex + 1 .. currentIndex + delta - 1 }

\* Mutated: the packet's own entry is not marked.
EnteredOvertaken(delta) ==
  [i \in Index |-> IF i \in Overtaken(delta) THEN false ELSE isReceived[i]]

\* The ring once the packet delta after the newest is entered.
Entered(delta) ==
  [i \in Index |->
    IF i = (currentIndex + delta) % LOSS_BUFFER_SIZE THEN true
    ELSE IF i \in Overtaken(delta) THEN false ELSE isReceived[i]]

\* Mutated: the index is not brought back into the ring.
EnterNewerUnwrapped(delta) ==
  /\ delta > 0
  /\ isReceived' = Entered(delta)
  /\ currentIndex' = currentIndex + delta

EnterNewer(delta) ==
  /\ delta > 0
  /\ isReceived' = Entered(delta)
  /\ currentIndex' = (currentIndex + delta) % LOSS_BUFFER_SIZE

\* One turn is added before the remainder, which makes the index positive for a
\* packet less than a turn late.  Later ones write before the array, where the
\* remainder of C is negative, or to the entry of a newer packet.
EnterOlder(delta) ==
  /\ delta <= 0
  /\ LET i == currentIndex + delta + LOSS_BUFFER_SIZE
     IN  isReceived' = IF i < 0 /\ i % LOSS_BUFFER_SIZE # 0 THEN isReceived
                       ELSE [isReceived EXCEPT ![i % LOSS_BUFFER_SIZE] = true]
  /\ UNCHANGED currentIndex

Receive ==
  \E seqNo \in 0 .. MaxSeqNo - 1 :
    /\ lastSeqReceived - seqNo <= MaxLate
    /\ LET delta == seqNo - lastSeqReceived IN EnterNewer(delta) \/ EnterOlder(delta)
    /\ lastSeqReceived' = IF lastSeqReceived > seqNo THEN lastSeqReceived ELSE seqNo
    /\ arrived' = arrived \cup {seqNo}

Next == Receive

Spec == Init /\ [][Next]_vars

-----------------------------------------------------------------------------
(* countLoss *)

lost == Cardinality({ i \in Index : isReceived[i] = false })

total == Cardinality({ i \in Index : isReceived[i] # unknown })

-----------------------------------------------------------------------------
(* Properties *)

TypeOK ==
  /\ isReceived \in [Index -> {unknown, false, true}]
  /\ currentIndex \in Index
  /\ lastSeqReceived \in Nat
  /\ arrived \subseteq 0 .. MaxSeqNo - 1

\* The last LOSS_BUFFER_SIZE sequence numbers, from the second of the connection.
Window ==
  { s \in lastSeqReceived - LOSS_BUFFER_SIZE + 1 .. lastSeqReceived : s > 0 }

\* The losses an ACK reports are the packets of the window that did not arrive,
\* whatever the order they came in, how often and how far apart; the very first
\* packet counts only once it arrives, since lastSeqReceived starts at its number.
LossesCounted ==
  arrived # {} =>
    /\ lost = Cardinality(Window \ arrived)
    /\ total - lost = Cardinality(arrived \cap
                        (lastSeqReceived - LOSS_BUFFER_SIZE + 1 .. lastSeqReceived))

\* An ACK reports at least one packet received, so that the encoder divides by
\* something and its ratio stays below one (LossAssumption of Packet).
SomeReceived == arrived # {} => lost < total

=============================================================================

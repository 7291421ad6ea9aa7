---------------------------- MODULE MuxProtocol ----------------------------
(***************************************************************************)
(* The life of one multiplexed connection: the entry each end keeps for it *)
(* in its table (muxstate of protocol.h), the packets that open, half-     *)
(* close and close it, and the loop of looper.c that handles them.         *)
(*                                                                         *)
(* Both ends run infiniteWaitLoop.  An iteration serves, in this order and *)
(* each only if it is ready, the timer, one UDP packet, the listener (at   *)
(* the client) and the TCP socket, then processes the entry: writes to the *)
(* application, sends what was queued, announces changes and removes the   *)
(* entry if it is of no more use.  phase says how far each end is.         *)
(*                                                                         *)
(* The coding layer is reduced to what the control reads of it: the data   *)
(* of a direction are units 1..n, a DATA packet carries one, an ACK the    *)
(* units received; CodedLink is that layer in full.                        *)
(***************************************************************************)
EXTENDS Integers, Sequences, FiniteSets, SequencesExt

CONSTANTS
  MaxUnits,   \* bound: units an application writes
  MaxLosses,  \* bound: packets the network loses
  MaxConnections, \* bound: connections the proxy opens to the server
  Reorder,    \* how many places a packet may come early
  Capacity,   \* bound: packets the network holds in one direction
  AppsFail,   \* whether a write to an application may fail
  AccurateTimers  \* whether an armed timer waits for the network to be empty

ASSUME MuxAssumption ==
  /\ MaxUnits \in Nat /\ MaxLosses \in Nat /\ MaxConnections \in Nat /\ Reorder \in Nat /\ Capacity \in Nat
  /\ AppsFail \in BOOLEAN /\ AccurateTimers \in BOOLEAN

CLIENT == "client"
PROXY  == "proxy"
End == {CLIENT, PROXY}
Other(e) == IF e = CLIENT THEN PROXY ELSE CLIENT

Unit == 1 .. MaxUnits

Control ==
  {"CLOSE", "EMPTY", "WRITE_CLOSED", "WRITE_CLOSED_ACK",
   "NO_OUTSTANDING_DATA", "NO_OUTSTANDING_DATA_ACK"}

Message == [type : Control \cup {"DATA", "ACK"}, units : SUBSET Unit]

control(type) == [type |-> type, units |-> {}]

\* The fields of muxstate the code tests.  localSocketReadState is CLOSED after
\* the application's end of file; the encoder is nread, acked, queued (its
\* dataToSend) and its timer, the decoder received, toApp and acks (its ackToSend).
MuxState ==
  [state                  : {"INIT", "SIMPLEX", "DUPLEX"},
   localSocketReadState   : {"INIT", "OPENED", "CLOSED_ACKNOWLEDGED"},
   localSocketWriteState  : {"INIT", "OPENED", "CLOSED_NOT_ACKNOWLEDGED",
                             "CLOSED_ACKNOWLEDGED"},
   remoteSocketWriteState : {"OPENED", "CLOSED_ACKNOWLEDGED"},
   localOutstandingData   : {"INIT", "CLOSED_NOT_ACKNOWLEDGED", "CLOSED_ACKNOWLEDGED"},
   remoteOutstandingData  : {"OPENED", "CLOSED_ACKNOWLEDGED"},
   announced              : BOOLEAN,  \* lastOutstandingSent is less than a timeout ago
   nread                  : 0 .. MaxUnits,
   acked                  : SUBSET Unit,
   queued                 : SUBSET Unit,
   isOutstandingData      : BOOLEAN,
   nextTimeout            : {"infinite", "armed", "past"},
   received               : SUBSET Unit,
   toApp                  : 0 .. MaxUnits,
   acks                   : Seq(SUBSET Unit)]

NoMux == [state |-> "none"]

VARIABLES
  mux,         \* each end's entry for the connection, or NoMux
  phase,       \* how far each end's iteration is
  chan,        \* chan[e]: packets under way to e
  accepted,    \* whether the client's listener accepted the connection
  connections, \* how many connections to the server the proxy opened
  read,        \* read[e]: units e ever read of its application
  delivered,   \* delivered[e]: units e wrote to its application, per connection
  lost         \* packets lost so far

vars == <<mux, phase, chan, accepted, connections, read, delivered, lost>>

Select == 0
TimerServed == 1
UdpServed == 2
ListenerServed == 3
TcpServed == 4

Init ==
  /\ mux = [e \in End |-> NoMux]
  /\ phase = [e \in End |-> Select]
  /\ chan = [e \in End |-> <<>>]
  /\ accepted = FALSE
  /\ connections = 0
  /\ read = [e \in End |-> 0]
  /\ delivered = [e \in End |-> 0]
  /\ lost = 0

isMux(e) == mux[e] # NoMux

\* A new entry of assignMux, with a new encoder and decoder.
newMux ==
  [state |-> "INIT", localSocketReadState |-> "INIT", localSocketWriteState |-> "INIT",
   remoteSocketWriteState |-> "OPENED", localOutstandingData |-> "INIT",
   remoteOutstandingData |-> "OPENED", announced |-> FALSE,
   nread |-> 0, acked |-> {}, queued |-> {}, isOutstandingData |-> FALSE,
   nextTimeout |-> "infinite", received |-> {}, toApp |-> 0, acks |-> <<>>]

assignMux(e) == IF isMux(e) THEN mux[e] ELSE newMux

-----------------------------------------------------------------------------
(* The network *)

Arrivals(e) == { i \in DOMAIN chan[e] : i <= Reorder + 1 }

\* Packets sent to an end; what the network cannot hold it drops.
Carry(packets, new) ==
  SubSeq(packets \o new, 1, IF Len(packets \o new) < Capacity
                            THEN Len(packets \o new) ELSE Capacity)

Lose(e) ==
  /\ lost < MaxLosses
  /\ \E i \in Arrivals(e) : chan' = [chan EXCEPT ![e] = RemoveAt(@, i)]
  /\ lost' = lost + 1
  /\ UNCHANGED <<mux, phase, accepted, connections, read, delivered>>

-----------------------------------------------------------------------------
(* The coding layer, as far as the control depends on it *)

Unacked(m) == { u \in Unit : u <= m.nread /\ u \notin m.acked }

\* onWindowUpdate sends what the peer lacks, or finds that it lacks nothing.
onWindowUpdate(m) ==
  IF ~m.isOutstandingData THEN m
  ELSE [m EXCEPT !.queued = @ \cup Unacked(m), !.isOutstandingData = Unacked(m) # {}]

handleInClear(m, n) ==
  onWindowUpdate([m EXCEPT !.nread = @ + n, !.isOutstandingData = TRUE])

onTimeOut(m) ==
  onWindowUpdate([m EXCEPT !.nextTimeout = IF m.isOutstandingData THEN "armed" ELSE "past"])

\* An ACK of packets this encoder never sent is not looked at.
onAck(m, units) ==
  LET known == units \cap 1 .. m.nread
      after == onWindowUpdate([m EXCEPT !.acked = @ \cup known])
  IN  IF known = {} THEN m
      ELSE [after EXCEPT !.nextTimeout = IF after.isOutstandingData THEN "armed" ELSE "infinite"]

\* How many of the first units are all there.
inOrder(units) == Cardinality({ u \in units : 1 .. u \subseteq units })

\* Mutated: all that is in order is handed over again.
handleInCodedAnew(m, units) ==
  LET got == m.received \cup units
  IN  [m EXCEPT !.received = got, !.toApp = @ + inOrder(got), !.acks = Append(@, got)]

handleInCoded(m, units) ==
  LET got == m.received \cup units
  IN  [m EXCEPT !.received = got,
                !.toApp = @ + inOrder(got) - inOrder(m.received),
                !.acks = Append(@, got)]

-----------------------------------------------------------------------------
(* The timer *)

\* The loop reaches a step once the timer, if it is long due, was served.
Reaches(e, step) ==
  /\ phase[e] < step
  /\ isMux(e) /\ mux[e].nextTimeout = "past" => phase[e] # Select

TimeOut(e) ==
  /\ phase[e] = Select
  /\ isMux(e)
  /\ mux[e].nextTimeout # "infinite"
  /\ AccurateTimers /\ mux[e].nextTimeout = "armed" => \A f \in End : chan[f] = <<>>
  /\ mux' = [mux EXCEPT ![e] = onTimeOut(@)]
  /\ phase' = [phase EXCEPT ![e] = TimerServed]
  /\ UNCHANGED <<chan, accepted, connections, read, delivered, lost>>

-----------------------------------------------------------------------------
(* handleIncomingUdp: what a packet makes of the entry m it was assigned to, *)
(* and what is sent back at once.                                            *)

\* Mutated: the client connects as well.
OpensAnywhere(e, m, msg) == m.state = "INIT" /\ msg.type \in {"DATA", "EMPTY"}

\* "First DATA/EMPTY": connect to the server, and pass the data on.
Opens(e, m, msg) ==
  e = PROXY /\ m.state = "INIT" /\ msg.type \in {"DATA", "EMPTY"}

Connected(m, msg) ==
  LET opened == [m EXCEPT !.state = "DUPLEX", !.localSocketReadState = "OPENED",
                          !.localSocketWriteState = "OPENED"]
  IN  IF msg.type = "DATA" THEN handleInCoded(opened, msg.units) ELSE opened

\* A packet of an entry whose socket is open; one that only closes.
Understood(m, msg) ==
  CASE msg.type = "DATA" ->
         LET duplex == [m EXCEPT !.state = "DUPLEX"]
         IN  IF m.localSocketWriteState = "OPENED"
             THEN handleInCoded(duplex, msg.units) ELSE duplex
    [] msg.type = "ACK" -> onAck([m EXCEPT !.state = "DUPLEX"], msg.units)
    [] msg.type = "CLOSE" -> NoMux
    [] msg.type = "EMPTY" -> m
    [] msg.type = "WRITE_CLOSED" ->
         [m EXCEPT !.remoteSocketWriteState = "CLOSED_ACKNOWLEDGED"]
    [] msg.type = "WRITE_CLOSED_ACK" ->
         [m EXCEPT !.localSocketWriteState = "CLOSED_ACKNOWLEDGED"]
    [] msg.type = "NO_OUTSTANDING_DATA" ->
         [m EXCEPT !.remoteOutstandingData = "CLOSED_ACKNOWLEDGED"]
    [] msg.type = "NO_OUTSTANDING_DATA_ACK" ->
         [m EXCEPT !.localOutstandingData = "CLOSED_ACKNOWLEDGED"]

ReplyTo(msg) ==
  CASE msg.type = "WRITE_CLOSED" -> <<control("WRITE_CLOSED_ACK")>>
    [] msg.type = "NO_OUTSTANDING_DATA" -> <<control("NO_OUTSTANDING_DATA_ACK")>>
    [] OTHER -> <<>>

\* Mutated: control packets are handled in any state.
MakesSenseInAnyState(m, msg) == m.state # "INIT" \/ msg.type \notin {"DATA", "EMPTY"}

MakesSense(m, msg) == m.state # "INIT" \/ msg.type = "CLOSE"

\* The i-th packet under way to e was handled: m is left, reply goes back.
Handled(e, i, m, reply) ==
  /\ mux' = [mux EXCEPT ![e] = m]
  /\ chan' = [chan EXCEPT ![e] = RemoveAt(@, i), ![Other(e)] = Carry(@, reply)]
  /\ phase' = [phase EXCEPT ![e] = UdpServed]
  /\ UNCHANGED <<accepted, read, lost>>

ReceiveFirst(e) ==
  /\ Reaches(e, UdpServed)
  /\ connections < MaxConnections
  /\ \E i \in Arrivals(e) :
       /\ Opens(e, assignMux(e), chan[e][i])
       /\ Handled(e, i, Connected(assignMux(e), chan[e][i]), <<>>)
  /\ connections' = connections + 1
  /\ delivered' = [delivered EXCEPT ![e] = 0]

\* Mutated: the entry goes without a word.
RefusalSilent == <<>>

Refusal == <<control("CLOSE")>>

ReceiveFirstNoServer(e) ==
  /\ Reaches(e, UdpServed)
  /\ \E i \in Arrivals(e) :
       /\ Opens(e, assignMux(e), chan[e][i])
       /\ Handled(e, i, NoMux, Refusal)
  /\ UNCHANGED <<connections, delivered>>

Receive(e) ==
  /\ Reaches(e, UdpServed)
  /\ \E i \in Arrivals(e) :
       /\ MakesSense(assignMux(e), chan[e][i])
       /\ Handled(e, i, Understood(assignMux(e), chan[e][i]), ReplyTo(chan[e][i]))
  /\ UNCHANGED <<connections, delivered>>

\* The catch-all: the sender is told to close, and the entry goes.
ReceiveSenseless(e) ==
  /\ Reaches(e, UdpServed)
  /\ \E i \in Arrivals(e) :
       /\ ~Opens(e, assignMux(e), chan[e][i])
       /\ ~MakesSense(assignMux(e), chan[e][i])
       /\ Handled(e, i, NoMux, Refusal)
  /\ UNCHANGED <<connections, delivered>>

-----------------------------------------------------------------------------
(* The TCP sockets *)

acceptedMux ==
  [newMux EXCEPT !.state = "SIMPLEX", !.localSocketReadState = "OPENED",
                 !.localSocketWriteState = "OPENED", !.nextTimeout = "armed"]

\* handleIncomingTcpListener: one connection, whose identifier is never reused.
Accept ==
  /\ ~accepted
  /\ Reaches(CLIENT, ListenerServed)
  /\ mux' = [mux EXCEPT ![CLIENT] = acceptedMux]
  /\ accepted' = TRUE
  /\ phase' = [phase EXCEPT ![CLIENT] = ListenerServed]
  /\ UNCHANGED <<chan, connections, read, delivered, lost>>

\* The socket is only watched while it is open for reading.
Readable(e) ==
  /\ Reaches(e, TcpServed)
  /\ isMux(e)
  /\ mux[e].localSocketReadState = "OPENED"

ReadTcp(e) ==
  /\ Readable(e)
  /\ read[e] < MaxUnits
  /\ mux' = [mux EXCEPT ![e] = handleInClear(@, 1)]
  /\ read' = [read EXCEPT ![e] = @ + 1]
  /\ phase' = [phase EXCEPT ![e] = TcpServed]
  /\ UNCHANGED <<chan, accepted, connections, delivered, lost>>

\* A read that fails reaches the encoder as one of nothing.
ReadTcpFails(e) ==
  /\ AppsFail
  /\ Readable(e)
  /\ mux' = [mux EXCEPT ![e] = handleInClear(@, 0)]
  /\ phase' = [phase EXCEPT ![e] = TcpServed]
  /\ UNCHANGED <<chan, accepted, connections, read, delivered, lost>>

ReadEnd(e) ==
  /\ Readable(e)
  /\ mux' = [mux EXCEPT ![e].localSocketReadState = "CLOSED_ACKNOWLEDGED"]
  /\ phase' = [phase EXCEPT ![e] = TcpServed]
  /\ UNCHANGED <<chan, accepted, connections, read, delivered, lost>>

-----------------------------------------------------------------------------
(* The end of an iteration *)

\* Mutated: EMPTY is sent while something is queued.
SendsEmptyWithData(m) == m.state = "SIMPLEX" /\ m.queued # {}

SendsEmpty(m) == m.state = "SIMPLEX" /\ m.queued = {}

\* Mutated: the end is announced while data is under way.
AnnouncesAtOnce(m) ==
  /\ m.localSocketReadState = "CLOSED_ACKNOWLEDGED"
  /\ m.localOutstandingData # "CLOSED_ACKNOWLEDGED"
  /\ ~m.announced

\* Mutated: as the tests of looper.c line 313, for a state that is never entered.
AnnouncesIfOpened(m) ==
  /\ m.localSocketReadState = "CLOSED_ACKNOWLEDGED"
  /\ ~m.isOutstandingData
  /\ m.localOutstandingData = "OPENED"
  /\ ~m.announced

\* The application closed and the peer has all it wrote.
Announces(m) ==
  /\ m.localSocketReadState = "CLOSED_ACKNOWLEDGED"
  /\ ~m.isOutstandingData
  /\ m.localOutstandingData # "CLOSED_ACKNOWLEDGED"
  /\ ~m.announced

\* Mutated: an end is of no use once its application ended.
CommunicatesBothWays(m) ==
  /\ m.localSocketReadState = "OPENED" /\ m.localSocketWriteState = "OPENED"
  /\ m.remoteOutstandingData = "OPENED"

\* "Local <= Remote possible"; the other two tests ask for a local outstanding
\* data that is OPENED, which it never is.
Communicates(m) ==
  m.localSocketWriteState = "OPENED" /\ m.remoteOutstandingData = "OPENED"

\* Mutated: only an end whose application failed says goodbye.
GoodbyeIfFailed(m) ==
  IF m.localSocketWriteState = "OPENED" THEN <<>> ELSE <<control("CLOSE")>>

Goodbye(m) == IF Communicates(m) THEN <<>> ELSE <<control("CLOSE")>>

\* The k-th of the units, by itself.
nth(units, k) == { u \in units : Cardinality(units \cap 1 .. u) = k }

Sent(m) ==
  [k \in DOMAIN m.acks |-> [type |-> "ACK", units |-> m.acks[k]]]
  \o (IF SendsEmpty(m) THEN <<control("EMPTY")>> ELSE <<>>)
  \o [k \in 1 .. Cardinality(m.queued) |->
       [type |-> "DATA", units |-> nth(m.queued, k)]]
  \o (IF m.localSocketWriteState = "CLOSED_NOT_ACKNOWLEDGED"
      THEN <<control("WRITE_CLOSED")>> ELSE <<>>)
  \o (IF Announces(m) THEN <<control("NO_OUTSTANDING_DATA")>> ELSE <<>>)
  \o Goodbye(m)

\* The test before sending assigns: the peer's closed write is forgotten.
Processed(m) ==
  [m EXCEPT !.toApp = 0, !.acks = <<>>, !.queued = {},
            !.nextTimeout = IF SendsEmpty(m) THEN "armed" ELSE @,
            !.remoteSocketWriteState = "OPENED",
            !.localOutstandingData = IF Announces(m) THEN "CLOSED_NOT_ACKNOWLEDGED" ELSE @,
            !.announced = @ \/ Announces(m)]

Process(e) ==
  /\ phase[e] # Select
  /\ phase' = [phase EXCEPT ![e] = Select]
  /\ IF isMux(e)
     THEN /\ chan' = [chan EXCEPT ![Other(e)] = Carry(@, Sent(mux[e]))]
          /\ mux' = [mux EXCEPT ![e] = IF Communicates(@) THEN Processed(@) ELSE NoMux]
          /\ delivered' = [delivered EXCEPT ![e] =
               IF mux[e].localSocketWriteState = "OPENED" THEN @ + mux[e].toApp ELSE @]
     ELSE UNCHANGED <<chan, mux, delivered>>
  /\ UNCHANGED <<accepted, connections, read, lost>>

\* Mutated: the socket counts as open, although data was dropped.
FailedStillOpen(m) == [m EXCEPT !.toApp = 0]

Failed(m) ==
  [m EXCEPT !.localSocketWriteState = "CLOSED_NOT_ACKNOWLEDGED", !.toApp = 0]

\* A write to the application fails: the data is dropped and the rest of the
\* iteration left out; the ACK of the data goes out in the next one.
ProcessFails(e) ==
  /\ AppsFail
  /\ phase[e] # Select
  /\ isMux(e)
  /\ mux[e].localSocketWriteState = "OPENED" /\ mux[e].toApp > 0
  /\ phase' = [phase EXCEPT ![e] = Select]
  /\ mux' = [mux EXCEPT ![e] = Failed(@)]
  /\ UNCHANGED <<chan, accepted, connections, read, delivered, lost>>

\* STATE_RETRANSMIT_TIMEOUT passes since the last NO_OUTSTANDING_DATA.
Elapse(e) ==
  /\ isMux(e)
  /\ mux[e].announced
  /\ mux' = [mux EXCEPT ![e].announced = FALSE]
  /\ UNCHANGED <<phase, chan, accepted, connections, read, delivered, lost>>

Next ==
  \/ Accept
  \/ \E e \in End :
       \/ TimeOut(e)
       \/ ReceiveFirst(e) \/ ReceiveFirstNoServer(e) \/ Receive(e) \/ ReceiveSenseless(e)
       \/ ReadTcp(e) \/ ReadTcpFails(e) \/ ReadEnd(e)
       \/ Process(e) \/ ProcessFails(e)
       \/ Elapse(e) \/ Lose(e)

Spec == Init /\ [][Next]_vars

-----------------------------------------------------------------------------
(* Properties *)

\* Every variable keeps its type.
TypeOK ==
  /\ mux \in [End -> MuxState \cup {NoMux}]
  /\ phase \in [End -> Select .. TcpServed]
  /\ chan \in [End -> Seq(Message)]
  /\ accepted \in BOOLEAN
  /\ connections \in Nat
  /\ read \in [End -> 0 .. MaxUnits]
  /\ delivered \in [End -> 0 .. MaxUnits]
  /\ lost \in 0 .. MaxLosses

\* No packet, however late, leaves an entry without a socket in the table: the
\* loop would never look at it again, and never remove it.
EveryEntryHasSocket ==
  \A e \in End : isMux(e) =>
    /\ mux[e].state # "INIT"
    /\ mux[e].localSocketReadState # "INIT"
    /\ mux[e].localSocketWriteState # "INIT"

\* An end that is told that no data is outstanding has written all the other end
\* read, or cannot write: no packet of data is overtaken by the announcement.
AnnouncedIsDelivered ==
  connections <= 1 =>
    \A e \in End :
      /\ isMux(e)
      /\ mux[e].remoteOutstandingData = "CLOSED_ACKNOWLEDGED"
      /\ mux[e].localSocketWriteState = "OPENED"
      => delivered[e] + mux[e].toApp = read[Other(e)]

\* What is acknowledged was written to the application before, as long as the
\* acknowledging end can write to it.
AckedIsDelivered ==
  connections <= 1 =>
    \A e \in End :
      /\ isMux(e) /\ isMux(Other(e))
      /\ mux[Other(e)].localSocketWriteState = "OPENED"
      => inOrder(mux[e].acked) <= delivered[Other(e)]

\* Whether the end ever had an entry with a socket.
Started(e) == IF e = CLIENT THEN accepted ELSE connections > 0

\* What an end may have acknowledged: at most what it received, while it has an
\* entry; nothing before its first.
Acknowledgeable(e) ==
  IF isMux(e) THEN mux[e].received ELSE IF Started(e) THEN Unit ELSE {}

\* An entry has a socket, its encoder holds what was read for it, and its decoder what
\* the other end read: it owes its application no more than came in order.  The two ends
\* have read r and ro, the application was given d, and c connections were made.
EntryOK(m, r, ro, d, c) ==
  /\ m.state # "INIT" /\ m.localSocketReadState # "INIT" /\ m.localSocketWriteState # "INIT"
  /\ m.nread <= r
  /\ c <= 1 => m.nread = r
  /\ m.queued \subseteq 1 .. m.nread
  /\ ~m.isOutstandingData => 1 .. m.nread \subseteq m.acked
  /\ m.received \subseteq 1 .. ro
  /\ \A k \in DOMAIN m.acks : m.acks[k] \subseteq m.received
  /\ d + m.toApp <= inOrder(m.received)
  /\ m.localSocketWriteState = "OPENED" => d + m.toApp = inOrder(m.received)

EntryInv(e) ==
  isMux(e) => /\ Started(e)
              /\ EntryOK(mux[e], read[e], read[Other(e)], delivered[e], connections)

\* Before its first entry an end did nothing, and before the client's nothing is
\* under way; packets of data carry what was read.
QuietInv(e) ==
  /\ ~Started(e) => read[e] = 0 /\ delivered[e] = 0
  /\ ~accepted => ~Started(e) /\ chan[e] = <<>>
  /\ Len(chan[e]) <= Capacity
  /\ \A p \in Range(chan[e]) : p.type = "DATA" => p.units \subseteq 1 .. read[Other(e)]

\* All acknowledgements e has or gets are of units its peer has written to its
\* application, if it can write.
AckInv(e) ==
  \E known \in SUBSET Acknowledgeable(Other(e)) :
    /\ isMux(e) => mux[e].acked \subseteq known
    /\ \A p \in Range(chan[e]) : p.type = "ACK" => p.units \subseteq known
    /\ isMux(Other(e)) /\ mux[Other(e)].localSocketWriteState = "OPENED" =>
         inOrder(known) <= delivered[Other(e)]

\* e was, or will be, told that its peer has no data outstanding.
Announced(e) ==
  \/ isMux(e) /\ mux[e].remoteOutstandingData = "CLOSED_ACKNOWLEDGED"
  \/ \E p \in Range(chan[e]) : p.type = "NO_OUTSTANDING_DATA"

\* That is so: the peer reads no more, and e received all it read.
AnnouncedInv(e) ==
  Announced(e) =>
    /\ 1 .. read[Other(e)] \subseteq Acknowledgeable(e)
    /\ Started(Other(e))
    /\ isMux(Other(e)) => mux[Other(e)].localSocketReadState = "CLOSED_ACKNOWLEDGED"

\* The inductive invariant behind AnnouncedIsDelivered, AckedIsDelivered and
\* ImplementsConnection.
MuxInv ==
  /\ TypeOK
  /\ \A e \in End : EntryInv(e) /\ QuietInv(e)
  /\ connections <= 1 => \A e \in End : AckInv(e) /\ AnnouncedInv(e)

\* A client that removed its entry never gets another for the same connection,
\* whatever still arrives.
ClientNeverReopens == [][accepted /\ ~isMux(CLIENT) => ~isMux(CLIENT)']_vars

\* What the applications see of an end: whether it serves them, has all its
\* application writes, can write to it, and will hear that the other is not there.
EndAt(e) == IF isMux(e) THEN "open" ELSE IF Started(e) THEN "gone" ELSE "none"
EndedAt(e) == isMux(e) /\ mux[e].localSocketReadState = "CLOSED_ACKNOWLEDGED"
BrokenAt(e) == isMux(e) /\ mux[e].localSocketWriteState # "OPENED"
ToldAt(e) == \E p \in Range(chan[e]) : p.type = "CLOSE"

\* The two applications see one connection: each is given what the other wrote, and
\* neither is cut off while its end could go on, whatever is lost, late or repeated.
Conn ==
  INSTANCE Connection WITH
    Client  <- CLIENT,
    Proxy   <- PROXY,
    end     <- [e \in End |-> EndAt(e)],
    ended   <- [e \in End |-> EndedAt(e)],
    broken  <- [e \in End |-> BrokenAt(e)],
    told    <- [e \in End |-> ToldAt(e)],
    written <- read,
    got     <- delivered,
    count   <- connections

ImplementsConnection == Conn!Spec

\* "Check for states => is it still possible to communicate ?" (looper.c line
\* 300): an end that gives up has an application that may not say more, or a peer
\* that could not write it.
GivesUpOnlyWhenUseless ==
  [][\A e \in End :
       Process(e) /\ isMux(e) /\ ~isMux(e)' =>
         \/ mux[e].localSocketReadState = "CLOSED_ACKNOWLEDGED"
         \/ ~isMux(Other(e))
         \/ mux[Other(e)].localSocketWriteState # "OPENED"]_vars

=============================================================================

----------------------------- MODULE EventLoop -----------------------------
(***************************************************************************)
(* One end's infiniteWaitLoop over a table of connections: what the        *)
(* connections do to each other through the table, whose entries move up   *)
(* when one is removed, through the set of sockets select() found ready,   *)
(* through the descriptors the system reuses, and through the pass that    *)
(* serves them in turn and that a failed write ends.                       *)
(*                                                                         *)
(* An iteration is taken in steps: select() and the timers, one UDP packet,*)
(* the listener, the TCP sockets one by one, the entries one by one.  Of   *)
(* an entry is kept what decides which socket is watched, what waits to be *)
(* sent and whether it stays; MuxProtocol has the rest.                    *)
(***************************************************************************)
EXTENDS Integers, Sequences, SequencesExt

CONSTANTS
  Key,    \* what tells connections apart: ports, addresses, randomId
  MaxFd   \* bound: descriptors the process may have for connections

ASSUME LoopAssumption == MaxFd \in Nat

CLIENT == "client"
PROXY  == "proxy"

Fd == 1 .. MaxFd

\* toApp: the decoder has data for the application.  toSend: the decoder has ACKs,
\* or the encoder packets, for the peer.
Mux ==
  [key                   : Key,
   sock_fd               : Fd,
   localSocketReadState  : {"OPENED", "CLOSED"},
   localSocketWriteState : {"OPENED", "CLOSED"},
   remoteOutstandingData : {"OPENED", "CLOSED"},
   toApp                 : BOOLEAN,
   toSend                : BOOLEAN]

VARIABLES
  cliproxy,   \* which end this is
  muxTable,
  stage,      \* the step of the iteration that is next
  i,          \* the entry a pass is at
  rd_set,     \* the sockets select() found ready
  open,       \* the descriptors that are open
  lost,       \* those of them that no entry ever named, or will name
  fresh       \* those opened since select()

vars == <<cliproxy, muxTable, stage, i, rd_set, open, lost, fresh>>

Init ==
  /\ cliproxy \in {CLIENT, PROXY}
  /\ muxTable = <<>>
  /\ stage = "select"
  /\ i = 1
  /\ rd_set = {}
  /\ open = {}
  /\ lost = {}
  /\ fresh = {}

-----------------------------------------------------------------------------
(* The table *)

IsEntry(n, key) == n \in DOMAIN muxTable /\ muxTable[n].key = key

IsKnown(key) == \E n \in DOMAIN muxTable : IsEntry(n, key)

\* The entry assignMux appends, as its callers leave it.
newMux(key, fd) ==
  [key |-> key, sock_fd |-> fd,
   localSocketReadState |-> "OPENED", localSocketWriteState |-> "OPENED",
   remoteOutstandingData |-> "OPENED", toApp |-> FALSE, toSend |-> FALSE]

Free == Fd \ open

IsLowest(fd) == fd \in Free /\ \A other \in Free : fd <= other

\* Mutated: the socket stays open.
removeMuxUnclosed(n) ==
  /\ muxTable' = RemoveAt(muxTable, n)
  /\ UNCHANGED open

\* Close the socket and move the later entries up; the program exits if close() fails.
removeMux(n) ==
  /\ muxTable[n].sock_fd \in open
  /\ muxTable' = RemoveAt(muxTable, n)
  /\ open' = open \ {muxTable[n].sock_fd}

\* A socket is made: the system gives the lowest descriptor that is free.
Opened(fd) ==
  /\ IsLowest(fd)
  /\ open' = open \cup {fd}
  /\ fresh' = fresh \cup {fd}

-----------------------------------------------------------------------------
(* select() and the timers *)

Watched == { muxTable[n].sock_fd : n \in
               { m \in DOMAIN muxTable : muxTable[m].localSocketReadState = "OPENED" } }

\* select() returns, and the timers that are due make encoders send again.
Select ==
  /\ stage = "select"
  /\ stage' = "udp"
  /\ rd_set' \in SUBSET Watched
  /\ \E due \in SUBSET DOMAIN muxTable :
       muxTable' = [n \in DOMAIN muxTable |->
                     [muxTable[n] EXCEPT !.toSend = @ \/ n \in due]]
  /\ i' = 1
  /\ UNCHANGED <<cliproxy, open, lost, fresh>>

-----------------------------------------------------------------------------
(* handleIncomingUdp: at most one packet *)

\* Mutated: all packets that wait are handled.
ServedUdpAndMore == stage = "udp" /\ stage' \in {"udp", "listener"} /\ UNCHANGED i

ServedUdp == stage = "udp" /\ stage' = "listener" /\ UNCHANGED i

\* No packet, or one of a connection that is not known and is not opened: assignMux
\* makes an entry and removeMux takes it away again.
ReceiveNothing ==
  /\ ServedUdp
  /\ UNCHANGED <<cliproxy, muxTable, rd_set, open, lost, fresh>>

\* "First DATA/EMPTY": the server accepts.
ReceiveFirst ==
  /\ cliproxy = PROXY
  /\ ServedUdp
  /\ \E key \in Key, fd \in Free, isData \in BOOLEAN, isDecoded \in BOOLEAN :
       /\ ~IsKnown(key)
       /\ Opened(fd)
       /\ isDecoded => isData
       /\ muxTable' = Append(muxTable,
            [newMux(key, fd) EXCEPT !.toSend = isData, !.toApp = isDecoded])
  /\ UNCHANGED <<cliproxy, rd_set, lost>>

\* The server refuses: the entry goes, whose sock_fd is still -1, and the socket
\* that was to be connected is left open.
ReceiveFirstNoServer ==
  /\ cliproxy = PROXY
  /\ ServedUdp
  /\ \E key \in Key, fd \in Free :
       /\ ~IsKnown(key)
       /\ Opened(fd)
       /\ lost' = lost \cup {fd}
  /\ UNCHANGED <<cliproxy, muxTable, rd_set>>

\* A packet for a connection that goes on: DATA that lets the decoder hand over, DATA
\* or an ACK after which there is something to send, WRITE_CLOSED_ACK and
\* NO_OUTSTANDING_DATA; the others change nothing that is kept here.
Receive ==
  /\ ServedUdp
  /\ \E n \in DOMAIN muxTable :
       \/ /\ muxTable[n].localSocketWriteState = "OPENED"
          /\ muxTable' = [muxTable EXCEPT ![n].toApp = TRUE, ![n].toSend = TRUE]
       \/ muxTable' = [muxTable EXCEPT ![n].toSend = TRUE]
       \/ muxTable' = [muxTable EXCEPT ![n].localSocketWriteState = "CLOSED"]
       \/ muxTable' = [muxTable EXCEPT ![n].remoteOutstandingData = "CLOSED"]
  /\ UNCHANGED <<cliproxy, rd_set, open, lost, fresh>>

ReceiveClose ==
  /\ ServedUdp
  /\ \E n \in DOMAIN muxTable : removeMux(n)
  /\ UNCHANGED <<cliproxy, rd_set, lost, fresh>>

-----------------------------------------------------------------------------
(* handleIncomingTcpListener *)

ServedListener == stage = "listener" /\ stage' = "tcp" /\ i' = 1

AcceptNothing ==
  /\ ServedListener
  /\ UNCHANGED <<cliproxy, muxTable, rd_set, open, lost, fresh>>

Accept ==
  /\ cliproxy = CLIENT
  /\ ServedListener
  /\ \E key \in Key, fd \in Free :
       /\ ~IsKnown(key)
       /\ Opened(fd)
       /\ muxTable' = Append(muxTable, newMux(key, fd))
  /\ UNCHANGED <<cliproxy, rd_set, lost>>

\* A second application whose connection has the key of another: randomId is the
\* same for all that are accepted in one second.  The entry found keeps its socket.
AcceptKnown ==
  /\ cliproxy = CLIENT
  /\ ServedListener
  /\ \E n \in DOMAIN muxTable, fd \in Free :
       /\ Opened(fd)
       /\ lost' = lost \cup {fd}
       /\ muxTable' = [muxTable EXCEPT ![n].localSocketReadState = "OPENED",
                                       ![n].localSocketWriteState = "OPENED"]
  /\ UNCHANGED <<cliproxy, rd_set>>

-----------------------------------------------------------------------------
(* handleIncomingTcpConnected, for each socket that select() found ready *)

AtSocket == stage = "tcp" /\ i \in DOMAIN muxTable

IsSet == muxTable[i].sock_fd \in rd_set

PassSocket ==
  /\ AtSocket /\ ~IsSet
  /\ i' = i + 1
  /\ UNCHANGED <<cliproxy, muxTable, stage, rd_set, open, lost, fresh>>

\* The encoder takes no more, the application's end of file, or data for the encoder.
ReadTcp ==
  /\ AtSocket /\ IsSet
  /\ \/ UNCHANGED muxTable
     \/ muxTable' = [muxTable EXCEPT ![i].localSocketReadState = "CLOSED"]
     \/ muxTable' = [muxTable EXCEPT ![i].toSend = TRUE]
  /\ i' = i + 1
  /\ UNCHANGED <<cliproxy, stage, rd_set, open, lost, fresh>>

EndTcp ==
  /\ stage = "tcp" /\ i \notin DOMAIN muxTable
  /\ stage' = "process"
  /\ i' = 1
  /\ UNCHANGED <<cliproxy, muxTable, rd_set, open, lost, fresh>>

-----------------------------------------------------------------------------
(* "Process DATA, ACKs, data to the application, and state variations" *)

AtEntry == stage = "process" /\ i \in DOMAIN muxTable

Writes(m) == m.localSocketWriteState = "OPENED" /\ m.toApp

\* "Local <= Remote possible", the only test that ever succeeds.
Communicates(m) ==
  m.localSocketWriteState = "OPENED" /\ m.remoteOutstandingData = "OPENED"

Served(m) ==
  [m EXCEPT !.toSend = FALSE, !.toApp = @ /\ m.localSocketWriteState # "OPENED"]

Process ==
  /\ AtEntry
  /\ Communicates(muxTable[i])
  /\ muxTable' = [muxTable EXCEPT ![i] = Served(@)]
  /\ i' = i + 1
  /\ UNCHANGED <<cliproxy, stage, rd_set, open, lost, fresh>>

\* Mutated: without "Compensate for the remove sliding".
RemovedAtSliding == i' = i + 1

RemovedAt == i' = i

ProcessRemoves ==
  /\ AtEntry
  /\ ~Communicates(muxTable[i])
  /\ removeMux(i)
  /\ RemovedAt
  /\ UNCHANGED <<cliproxy, stage, rd_set, lost, fresh>>

\* FD_ZERO begins the next iteration.
NextIteration ==
  /\ stage' = "select"
  /\ rd_set' = {}
  /\ fresh' = {}
  /\ UNCHANGED <<cliproxy, open, lost>>

EndProcess ==
  /\ stage = "process" /\ i \notin DOMAIN muxTable
  /\ NextIteration
  /\ UNCHANGED <<muxTable, i>>

\* Mutated: the application may be written to again.
FailedStillOpen(m) == [m EXCEPT !.toApp = FALSE]

Failed(m) == [m EXCEPT !.toApp = FALSE, !.localSocketWriteState = "CLOSED"]

\* A write to the application fails: the pass ends there.
ProcessFails ==
  /\ AtEntry
  /\ Writes(muxTable[i])
  /\ muxTable' = [muxTable EXCEPT ![i] = Failed(@)]
  /\ NextIteration
  /\ UNCHANGED i

Next ==
  \/ Select
  \/ ReceiveNothing \/ ReceiveFirst \/ ReceiveFirstNoServer \/ Receive \/ ReceiveClose
  \/ AcceptNothing \/ Accept \/ AcceptKnown
  \/ PassSocket \/ ReadTcp \/ EndTcp
  \/ Process \/ ProcessRemoves \/ ProcessFails \/ EndProcess

Spec == Init /\ [][Next]_vars

\* A read of a socket that has nothing to be read waits for the application.
Blocked == AtSocket /\ IsSet /\ muxTable[i].sock_fd \in fresh

\* Nothing else stops the loop: select() returns when its delay is over, and the
\* applications read what is written to them.
Fairness == WF_vars(~Blocked /\ Next)

LiveSpec == Spec /\ Fairness

-----------------------------------------------------------------------------
(* Properties *)

TypeOK ==
  /\ cliproxy \in {CLIENT, PROXY}
  /\ muxTable \in Seq(Mux)
  /\ stage \in {"select", "udp", "listener", "tcp", "process"}
  /\ i \in 1 .. Len(muxTable) + 1
  /\ rd_set \subseteq Fd
  /\ open \subseteq Fd
  /\ lost \subseteq open
  /\ fresh \subseteq Fd

\* Every entry has an open socket of its own and a key of its own, and apart from the
\* sockets that refused or mistaken connections left behind no other is open: close()
\* does not fail, no connection reads or writes another's socket, and all that
\* removeMux is given it closes.
DescriptorsAccounted ==
  /\ \A n, m \in DOMAIN muxTable :
       muxTable[n].sock_fd = muxTable[m].sock_fd \/ muxTable[n].key = muxTable[m].key
         => n = m
  /\ open = lost \cup { muxTable[n].sock_fd : n \in DOMAIN muxTable }
  /\ \A n \in DOMAIN muxTable : muxTable[n].sock_fd \notin lost

\* At the proxy every socket that is read is one select() found ready, not another
\* with the same descriptor: the loop never waits for an application.
ProxyNeverBlocks == cliproxy = PROXY => ~Blocked

\* What waits for the peer between two iterations waits behind the entry whose write
\* failed: no removal makes the pass leave out an entry.
WaitsBehindFailure ==
  stage = "select" =>
    \A n \in DOMAIN muxTable :
      muxTable[n].toSend => i <= n /\ muxTable[i].localSocketWriteState = "CLOSED"

Waits(key) == \E n \in DOMAIN muxTable : IsEntry(n, key) /\ muxTable[n].toSend

\* Failing applications of other connections do not keep a connection from sending for
\* ever, as long as the loop is not blocked: each ends one pass only.
WaitingIsServed == \A key \in Key : Waits(key) ~> (~Waits(key) \/ Blocked)

=============================================================================

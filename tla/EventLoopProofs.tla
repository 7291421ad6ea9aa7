-------------------------- MODULE EventLoopProofs --------------------------
(***************************************************************************)
(* Proofs about EventLoop, for any set of keys and any number of           *)
(* descriptors: the table stays in step with the descriptors that are open *)
(* while entries are appended, removed and moved up, the proxy reads no    *)
(* socket select() did not find ready, and a pass leaves out no entry.     *)
(***************************************************************************)
EXTENDS EventLoop, SequenceTheorems, TLAPS

\* In an iteration nothing is opened before the UDP packet, at the proxy nothing
\* after it, and what select() found ready was open.
ReadyInv ==
  /\ stage = "udp" => i = 1
  /\ stage \in {"select", "udp"} => fresh = {}
  /\ stage = "udp" => rd_set \subseteq open
  /\ cliproxy = PROXY => rd_set \cap fresh = {}

\* The entries the pass has left behind have nothing that waits.
PassInv ==
  stage = "process" => \A n \in 1 .. i - 1 : ~muxTable[n].toSend

LoopInv == TypeOK /\ DescriptorsAccounted /\ ReadyInv /\ PassInv /\ WaitsBehindFailure

-----------------------------------------------------------------------------
(* Tables *)

\* What is left when an entry is removed: those before it, and those behind moved up.
LEMMA Removed ==
  ASSUME NEW S, NEW s \in Seq(S), NEW n \in 1 .. Len(s)
  PROVE  /\ RemoveAt(s, n) \in Seq(S)
         /\ Len(RemoveAt(s, n)) = Len(s) - 1
         /\ \A m \in 1 .. Len(s) - 1 :
              RemoveAt(s, n)[m] = IF m < n THEN s[m] ELSE s[m + 1]
<1> DEFINE before == SubSeq(s, 1, n - 1)
           behind == SubSeq(s, n + 1, Len(s))
<1>1. Len(s) \in Nat /\ n \in Nat /\ 1 <= n /\ n <= Len(s)
  BY LenProperties
<1>2. /\ before \in Seq(S) /\ Len(before) = n - 1
      /\ \A m \in 1 .. n - 1 : before[m] = s[m]
  BY <1>1, LenProperties, SubSeqProperties, ElementOfSeq
<1>3. /\ behind \in Seq(S) /\ Len(behind) = Len(s) - n
      /\ \A m \in 1 .. Len(s) - n : behind[m] = s[m + n]
  BY <1>1, LenProperties, SubSeqProperties, ElementOfSeq
<1>4. /\ before \o behind \in Seq(S)
      /\ Len(before \o behind) = Len(s) - 1
      /\ \A m \in 1 .. Len(s) - 1 :
           (before \o behind)[m] = IF m < n THEN before[m] ELSE behind[m - (n - 1)]
  <2> HIDE DEF before, behind
  <2>1. /\ before \o behind \in Seq(S)
        /\ Len(before \o behind) = Len(before) + Len(behind)
        /\ \A m \in 1 .. Len(before) + Len(behind) :
             (before \o behind)[m] = IF m <= Len(before) THEN before[m]
                                                        ELSE behind[m - Len(before)]
    BY <1>2, <1>3, ConcatProperties
  <2>2. \A m \in 1 .. Len(s) - 1 : m <= Len(before) <=> m < n
    BY <1>1, <1>2
  <2>3. Len(before) + Len(behind) = Len(s) - 1 /\ Len(before) = n - 1
    BY <1>1, <1>2, <1>3
  <2>4. \A m \in 1 .. Len(s) - 1 :
          (before \o behind)[m] = IF m < n THEN before[m] ELSE behind[m - (n - 1)]
    BY <2>1, <2>2, <2>3, Zenon
  <2> QED
    BY <2>1, <2>3, <2>4
<1>5. ASSUME NEW m \in 1 .. Len(s) - 1
      PROVE  (before \o behind)[m] = IF m < n THEN s[m] ELSE s[m + 1]
  <2> HIDE DEF before, behind
  <2>1. CASE m < n
    BY <1>1, <1>2, <1>4, <2>1
  <2>2. CASE ~(m < n)
    <3>1. m - (n - 1) \in 1 .. Len(s) - n /\ m - (n - 1) + n = m + 1
      BY <1>1, <2>2
    <3> QED
      BY <1>1, <1>3, <1>4, <2>2, <3>1
  <2> QED
    BY <2>1, <2>2
<1> QED
  BY <1>4, <1>5 DEF RemoveAt

\* The removal leaves the table in step with the descriptors.
LEMMA RemoveMuxAccounted ==
  ASSUME TypeOK, DescriptorsAccounted, NEW n \in DOMAIN muxTable, removeMux(n), lost' = lost
  PROVE  /\ DescriptorsAccounted'
         /\ muxTable' \in Seq(Mux) /\ Len(muxTable') = Len(muxTable) - 1
         /\ open' \subseteq Fd /\ lost' \subseteq open'
         /\ \A m \in 1 .. Len(muxTable') :
              muxTable'[m] = IF m < n THEN muxTable[m] ELSE muxTable[m + 1]
<1> DEFINE from(m) == IF m < n THEN m ELSE m + 1
<1>1. /\ muxTable' \in Seq(Mux) /\ Len(muxTable') = Len(muxTable) - 1
      /\ \A m \in 1 .. Len(muxTable') : muxTable'[m] = muxTable[from(m)]
      /\ n \in 1 .. Len(muxTable) /\ Len(muxTable) \in Nat
      /\ DOMAIN muxTable = 1 .. Len(muxTable) /\ DOMAIN muxTable' = 1 .. Len(muxTable')
  <2>1. /\ muxTable \in Seq(Mux) /\ Len(muxTable) \in Nat
        /\ DOMAIN muxTable = 1 .. Len(muxTable) /\ n \in 1 .. Len(muxTable)
    BY DEF TypeOK
  <2>2. /\ muxTable' \in Seq(Mux) /\ Len(muxTable') = Len(muxTable) - 1
        /\ \A m \in 1 .. Len(muxTable) - 1 :
             muxTable'[m] = IF m < n THEN muxTable[m] ELSE muxTable[m + 1]
    BY <2>1, Removed DEF removeMux
  <2>3. \A m \in 1 .. Len(muxTable') : muxTable'[m] = muxTable[from(m)]
    BY <2>1, <2>2
  <2> QED
    BY <2>1, <2>2, <2>3
<1>2. /\ \A m \in DOMAIN muxTable' : from(m) \in DOMAIN muxTable /\ from(m) # n
      /\ \A m1, m2 \in DOMAIN muxTable' : from(m1) = from(m2) => m1 = m2
      /\ \A k \in DOMAIN muxTable : k # n => \E m \in DOMAIN muxTable' : from(m) = k
  <2>1. ASSUME NEW k \in DOMAIN muxTable, k # n
        PROVE  \E m \in DOMAIN muxTable' : from(m) = k
    <3>1. CASE k < n
      <4>1. k \in DOMAIN muxTable' /\ from(k) = k
        BY <1>1, <3>1
      <4> QED
        BY <4>1
    <3>2. CASE ~(k < n)
      <4>1. k - 1 \in DOMAIN muxTable' /\ from(k - 1) = k
        BY <1>1, <2>1, <3>2
      <4> QED
        BY <4>1
    <3> QED
      BY <3>1, <3>2
  <2> QED
    BY <1>1, <2>1
<1>3. \A m, k \in DOMAIN muxTable' :
        muxTable'[m].sock_fd = muxTable'[k].sock_fd \/ muxTable'[m].key = muxTable'[k].key
          => m = k
  <2> SUFFICES ASSUME NEW m \in DOMAIN muxTable', NEW k \in DOMAIN muxTable',
                      \/ muxTable'[m].sock_fd = muxTable'[k].sock_fd
                      \/ muxTable'[m].key = muxTable'[k].key
               PROVE  m = k
    OBVIOUS
  <2>1. muxTable'[m] = muxTable[from(m)] /\ muxTable'[k] = muxTable[from(k)]
    BY <1>1
  <2>2. from(m) \in DOMAIN muxTable /\ from(k) \in DOMAIN muxTable
    BY <1>2
  <2> HIDE DEF from
  <2>3. from(m) = from(k)
    BY <2>1, <2>2 DEF DescriptorsAccounted
  <2> QED
    BY <1>2, <2>3
<1>4. open' = lost' \cup { muxTable'[m].sock_fd : m \in DOMAIN muxTable' }
  <2>1. ASSUME NEW m \in DOMAIN muxTable'
        PROVE  muxTable'[m].sock_fd \in open'
    BY <1>1, <1>2 DEF DescriptorsAccounted, removeMux
  <2>2. lost \subseteq open'
    BY <1>1 DEF DescriptorsAccounted, removeMux
  <2>3. ASSUME NEW fd \in open', fd \notin lost
        PROVE  \E m \in DOMAIN muxTable' : fd = muxTable'[m].sock_fd
    <3>1. PICK k \in DOMAIN muxTable : k # n /\ muxTable[k].sock_fd = fd
      BY <2>3 DEF DescriptorsAccounted, removeMux
    <3>2. PICK m \in DOMAIN muxTable' : from(m) = k
      BY <1>2, <3>1
    <3> QED
      BY <1>1, <3>1, <3>2
  <2> QED
    BY <2>1, <2>2, <2>3
<1>5. \A m \in DOMAIN muxTable' : muxTable'[m].sock_fd \notin lost'
  BY <1>1, <1>2 DEF DescriptorsAccounted
<1> QED
  BY <1>1, <1>3, <1>4, <1>5 DEF DescriptorsAccounted, removeMux, TypeOK

\* So does an entry appended for a new socket and a new key.
LEMMA AppendedAccounted ==
  ASSUME TypeOK, DescriptorsAccounted, NEW fd \in Free, Opened(fd), lost' = lost,
         NEW m \in Mux, m.sock_fd = fd, ~IsKnown(m.key),
         muxTable' = Append(muxTable, m)
  PROVE  /\ DescriptorsAccounted'
         /\ muxTable' \in Seq(Mux) /\ Len(muxTable') = Len(muxTable) + 1
         /\ open' \subseteq Fd /\ lost' \subseteq open' /\ fresh' \subseteq Fd
<1>1. /\ muxTable' \in Seq(Mux) /\ Len(muxTable') = Len(muxTable) + 1
      /\ \A n \in DOMAIN muxTable : muxTable'[n] = muxTable[n]
      /\ muxTable'[Len(muxTable) + 1] = m
      /\ DOMAIN muxTable' = DOMAIN muxTable \cup {Len(muxTable) + 1}
      /\ Len(muxTable) + 1 \notin DOMAIN muxTable
  BY DEF TypeOK
<1>2. /\ fd \notin open /\ open' = open \cup {fd}
      /\ \A n \in DOMAIN muxTable : muxTable[n].sock_fd # fd /\ muxTable[n].key # m.key
  BY DEF Free, Opened, DescriptorsAccounted, IsKnown, IsEntry
<1>3. \A n, k \in DOMAIN muxTable' :
        muxTable'[n].sock_fd = muxTable'[k].sock_fd \/ muxTable'[n].key = muxTable'[k].key
          => n = k
  BY <1>1, <1>2 DEF DescriptorsAccounted
<1>4. open' = lost' \cup { muxTable'[n].sock_fd : n \in DOMAIN muxTable' }
  BY <1>1, <1>2 DEF DescriptorsAccounted
<1>5. \A n \in DOMAIN muxTable' : muxTable'[n].sock_fd \notin lost'
  BY <1>1, <1>2 DEF DescriptorsAccounted
<1> QED
  BY <1>1, <1>2, <1>3, <1>4, <1>5 DEF DescriptorsAccounted, TypeOK, Free, Opened

\* A step that changes neither a key nor a descriptor of an entry.
LEMMA SameAccounted ==
  ASSUME TypeOK, DescriptorsAccounted, DOMAIN muxTable' = DOMAIN muxTable,
         \A n \in DOMAIN muxTable : /\ muxTable'[n].key = muxTable[n].key
                                    /\ muxTable'[n].sock_fd = muxTable[n].sock_fd
  PROVE  /\ UNCHANGED <<open, lost>> => DescriptorsAccounted'
         /\ \A fd \in Free : Opened(fd) /\ lost' = lost \cup {fd} => DescriptorsAccounted'
<1>1. ASSUME UNCHANGED <<open, lost>>
      PROVE  DescriptorsAccounted'
  BY <1>1 DEF DescriptorsAccounted
<1>2. ASSUME NEW fd \in Free, Opened(fd), lost' = lost \cup {fd}
      PROVE  DescriptorsAccounted'
  BY <1>2 DEF DescriptorsAccounted, Opened, Free
<1> QED
  BY <1>1, <1>2

\* Entries changed in place make a table of the same length.
LEMMA ChangedType ==
  ASSUME TypeOK, muxTable' = [n \in DOMAIN muxTable |-> muxTable'[n]],
         \A n \in DOMAIN muxTable : muxTable'[n] \in Mux
  PROVE  /\ muxTable' \in Seq(Mux)
         /\ Len(muxTable') = Len(muxTable)
         /\ DOMAIN muxTable' = DOMAIN muxTable
<1>1. DOMAIN muxTable = 1 .. Len(muxTable) /\ Len(muxTable) \in Nat
  BY DEF TypeOK
<1> QED
  BY <1>1

\* What changes nothing but the state of connections keeps the table accounted for.
LEMMA ChangedAccounted ==
  ASSUME TypeOK, DescriptorsAccounted,
         muxTable' = [n \in DOMAIN muxTable |-> muxTable'[n]],
         \A n \in DOMAIN muxTable : /\ muxTable'[n] \in Mux
                                    /\ muxTable'[n].key = muxTable[n].key
                                    /\ muxTable'[n].sock_fd = muxTable[n].sock_fd
  PROVE  /\ muxTable' \in Seq(Mux)
         /\ Len(muxTable') = Len(muxTable)
         /\ DOMAIN muxTable' = DOMAIN muxTable
         /\ UNCHANGED <<open, lost>> => DescriptorsAccounted'
         /\ \A fd \in Free : Opened(fd) /\ lost' = lost \cup {fd} => DescriptorsAccounted'
BY ChangedType, SameAccounted

LEMMA ReplacedAccounted ==
  ASSUME TypeOK, DescriptorsAccounted, NEW n \in DOMAIN muxTable, NEW m \in Mux,
         muxTable' = [muxTable EXCEPT ![n] = m],
         m.key = muxTable[n].key, m.sock_fd = muxTable[n].sock_fd
  PROVE  /\ muxTable' \in Seq(Mux)
         /\ Len(muxTable') = Len(muxTable)
         /\ DOMAIN muxTable' = DOMAIN muxTable
         /\ muxTable'[n] = m
         /\ \A k \in DOMAIN muxTable : k # n => muxTable'[k] = muxTable[k]
         /\ UNCHANGED <<open, lost>> => DescriptorsAccounted'
         /\ \A fd \in Free : Opened(fd) /\ lost' = lost \cup {fd} => DescriptorsAccounted'
<1>1. /\ DOMAIN muxTable = 1 .. Len(muxTable) /\ Len(muxTable) \in Nat
      /\ \A k \in DOMAIN muxTable : muxTable[k] \in Mux
  BY DEF TypeOK
<1>2. /\ muxTable' = [k \in DOMAIN muxTable |-> muxTable'[k]]
      /\ \A k \in DOMAIN muxTable : muxTable'[k] = IF k = n THEN m ELSE muxTable[k]
  OBVIOUS
<1>3. \A k \in DOMAIN muxTable : /\ muxTable'[k] \in Mux
                                /\ muxTable'[k].key = muxTable[k].key
                                /\ muxTable'[k].sock_fd = muxTable[k].sock_fd
  BY <1>1, <1>2
<1> QED
  BY <1>2, <1>3, ChangedAccounted

-----------------------------------------------------------------------------
(* The iteration *)

LEMMA InitInv == Init => LoopInv
BY DEF Init, LoopInv, TypeOK, DescriptorsAccounted, ReadyInv, PassInv, WaitsBehindFailure

LEMMA SelectInv == LoopInv /\ Select => LoopInv'
<1> SUFFICES ASSUME LoopInv, Select
             PROVE  LoopInv'
  OBVIOUS
<1> USE DEF LoopInv
<1>1. PICK due \in SUBSET DOMAIN muxTable :
        muxTable' = [n \in DOMAIN muxTable |-> [muxTable[n] EXCEPT !.toSend = @ \/ n \in due]]
  BY DEF Select
<1>2. \A n \in DOMAIN muxTable :
        /\ muxTable'[n] \in Mux
        /\ muxTable'[n].key = muxTable[n].key /\ muxTable'[n].sock_fd = muxTable[n].sock_fd
  <2> SUFFICES ASSUME NEW n \in DOMAIN muxTable
               PROVE  /\ muxTable'[n] \in Mux
                      /\ muxTable'[n].key = muxTable[n].key
                      /\ muxTable'[n].sock_fd = muxTable[n].sock_fd
    OBVIOUS
  <2>1. muxTable[n] \in Mux
    BY DEF TypeOK
  <2>2. (muxTable[n].toSend \/ n \in due) \in BOOLEAN
    BY Zenon
  <2>3. PICK b \in BOOLEAN : muxTable'[n] = [muxTable[n] EXCEPT !.toSend = b]
    BY <1>1, <2>2
  <2> QED
    BY <2>1, <2>3 DEF Mux
<1>3. /\ muxTable' \in Seq(Mux) /\ Len(muxTable') = Len(muxTable)
      /\ DescriptorsAccounted'
  BY <1>1, <1>2, ChangedAccounted DEF Select
<1>4. Watched \subseteq open
  BY DEF Watched, DescriptorsAccounted
<1>5. TypeOK'
  BY <1>3, <1>4 DEF Select, TypeOK
<1> QED
  BY <1>3, <1>4, <1>5 DEF Select, ReadyInv, PassInv, WaitsBehindFailure

\* One UDP packet, whatever it does to the table.
LEMMA ServedUdpInv ==
  ASSUME LoopInv, ServedUdp, UNCHANGED <<cliproxy, rd_set>>, DescriptorsAccounted',
         muxTable' \in Seq(Mux), open' \subseteq Fd, lost' \subseteq open',
         fresh' \subseteq fresh \cup Free
  PROVE  LoopInv'
<1> USE DEF LoopInv
<1>1. i' = 1 /\ stage' = "listener" /\ rd_set' \subseteq open /\ fresh = {}
  BY DEF ServedUdp, ReadyInv
<1>2. fresh' \subseteq Fd
  BY DEF Free, TypeOK
<1>3. rd_set' \cap fresh' = {}
  BY <1>1 DEF Free
<1>4. Len(muxTable') \in Nat
  BY LenProperties
<1>5. TypeOK'
  BY <1>1, <1>2, <1>4 DEF TypeOK
<1> QED
  BY <1>1, <1>3, <1>5 DEF ReadyInv, PassInv, WaitsBehindFailure

LEMMA ReceiveNothingInv == LoopInv /\ ReceiveNothing => LoopInv'
<1> SUFFICES ASSUME LoopInv, ReceiveNothing
             PROVE  LoopInv'
  OBVIOUS
<1>1. DescriptorsAccounted'
  BY DEF LoopInv, ReceiveNothing, DescriptorsAccounted
<1> QED
  BY <1>1, ServedUdpInv DEF LoopInv, ReceiveNothing, TypeOK

LEMMA ReceiveFirstInv == LoopInv /\ ReceiveFirst => LoopInv'
<1> SUFFICES ASSUME LoopInv, ReceiveFirst
             PROVE  LoopInv'
  OBVIOUS
<1>1. PICK key \in Key, fd \in Free, isData \in BOOLEAN, isDecoded \in BOOLEAN :
        /\ ~IsKnown(key) /\ Opened(fd)
        /\ muxTable' = Append(muxTable,
             [newMux(key, fd) EXCEPT !.toSend = isData, !.toApp = isDecoded])
  BY DEF ReceiveFirst
<1> DEFINE m == [newMux(key, fd) EXCEPT !.toSend = isData, !.toApp = isDecoded]
<1>2. m \in Mux /\ m.sock_fd = fd /\ m.key = key
  BY DEF newMux, Mux, Free
<1> HIDE DEF m
<1>3. /\ DescriptorsAccounted' /\ muxTable' \in Seq(Mux)
      /\ open' \subseteq Fd /\ lost' \subseteq open'
  BY <1>1, <1>2, AppendedAccounted DEF LoopInv, ReceiveFirst, m
<1> QED
  BY <1>1, <1>3, ServedUdpInv DEF ReceiveFirst, Opened

LEMMA ReceiveFirstNoServerInv == LoopInv /\ ReceiveFirstNoServer => LoopInv'
<1> SUFFICES ASSUME LoopInv, ReceiveFirstNoServer
             PROVE  LoopInv'
  OBVIOUS
<1>1. PICK fd \in Free : Opened(fd) /\ lost' = lost \cup {fd}
  BY DEF ReceiveFirstNoServer
<1>2. DescriptorsAccounted'
  BY <1>1, SameAccounted DEF LoopInv, ReceiveFirstNoServer
<1> QED
  BY <1>1, <1>2, ServedUdpInv DEF LoopInv, ReceiveFirstNoServer, Opened, TypeOK, Free

LEMMA ReceiveInv == LoopInv /\ Receive => LoopInv'
<1> SUFFICES ASSUME LoopInv, Receive
             PROVE  LoopInv'
  OBVIOUS
<1>1. PICK n \in DOMAIN muxTable :
       \/ muxTable' = [muxTable EXCEPT ![n].toApp = TRUE, ![n].toSend = TRUE]
       \/ muxTable' = [muxTable EXCEPT ![n].toSend = TRUE]
       \/ muxTable' = [muxTable EXCEPT ![n].localSocketWriteState = "CLOSED"]
       \/ muxTable' = [muxTable EXCEPT ![n].remoteOutstandingData = "CLOSED"]
  BY DEF Receive
<1>2. \A k \in DOMAIN muxTable : muxTable[k] \in Mux
  BY DEF LoopInv, TypeOK
<1>3. PICK m : /\ muxTable' = [muxTable EXCEPT ![n] = m]
               /\ \/ m = [muxTable[n] EXCEPT !.toApp = TRUE, !.toSend = TRUE]
                  \/ m = [muxTable[n] EXCEPT !.toSend = TRUE]
                  \/ m = [muxTable[n] EXCEPT !.localSocketWriteState = "CLOSED"]
                  \/ m = [muxTable[n] EXCEPT !.remoteOutstandingData = "CLOSED"]
  BY <1>1
<1>4. m \in Mux /\ m.key = muxTable[n].key /\ m.sock_fd = muxTable[n].sock_fd
  BY <1>2, <1>3 DEF Mux
<1>5. muxTable' \in Seq(Mux) /\ DescriptorsAccounted'
  BY <1>3, <1>4, ReplacedAccounted DEF LoopInv, Receive
<1> QED
  BY <1>5, ServedUdpInv DEF LoopInv, Receive, TypeOK

LEMMA ReceiveCloseInv == LoopInv /\ ReceiveClose => LoopInv'
<1> SUFFICES ASSUME LoopInv, ReceiveClose
             PROVE  LoopInv'
  OBVIOUS
<1>1. PICK n \in DOMAIN muxTable : removeMux(n)
  BY DEF ReceiveClose
<1>2. /\ DescriptorsAccounted' /\ muxTable' \in Seq(Mux)
      /\ open' \subseteq Fd /\ lost' \subseteq open'
  BY <1>1, RemoveMuxAccounted DEF LoopInv, ReceiveClose
<1> QED
  BY <1>2, ServedUdpInv DEF ReceiveClose
\* The listener.
LEMMA AcceptNothingInv == LoopInv /\ AcceptNothing => LoopInv'
<1> SUFFICES ASSUME LoopInv, AcceptNothing
             PROVE  LoopInv'
  OBVIOUS
<1>1. DescriptorsAccounted'
  BY DEF LoopInv, AcceptNothing, DescriptorsAccounted
<1>2. TypeOK'
  BY LenProperties DEF LoopInv, AcceptNothing, ServedListener, TypeOK
<1> QED
  BY <1>1, <1>2
  DEF LoopInv, AcceptNothing, ServedListener, ReadyInv, PassInv, WaitsBehindFailure

LEMMA AcceptInv == LoopInv /\ Accept => LoopInv'
<1> SUFFICES ASSUME LoopInv, Accept
             PROVE  LoopInv'
  OBVIOUS
<1>1. PICK key \in Key, fd \in Free :
        ~IsKnown(key) /\ Opened(fd) /\ muxTable' = Append(muxTable, newMux(key, fd))
  BY DEF Accept
<1> DEFINE m == newMux(key, fd)
<1>2. m \in Mux /\ m.sock_fd = fd /\ m.key = key
  BY DEF newMux, Mux, Free
<1> HIDE DEF m
<1>3. /\ DescriptorsAccounted' /\ muxTable' \in Seq(Mux)
      /\ open' \subseteq Fd /\ lost' \subseteq open' /\ fresh' \subseteq Fd
  BY <1>1, <1>2, AppendedAccounted DEF LoopInv, Accept, m
<1>4. Len(muxTable') \in Nat
  BY <1>3, LenProperties
<1>5. TypeOK'
  BY <1>3, <1>4 DEF LoopInv, Accept, ServedListener, TypeOK
<1> QED
  BY <1>3, <1>5
  DEF LoopInv, Accept, ServedListener, ReadyInv, PassInv, WaitsBehindFailure, CLIENT, PROXY

LEMMA AcceptKnownInv == LoopInv /\ AcceptKnown => LoopInv'
<1> SUFFICES ASSUME LoopInv, AcceptKnown
             PROVE  LoopInv'
  OBVIOUS
<1>1. PICK n \in DOMAIN muxTable, fd \in Free :
        /\ Opened(fd) /\ lost' = lost \cup {fd}
        /\ muxTable' = [muxTable EXCEPT ![n].localSocketReadState = "OPENED",
                                       ![n].localSocketWriteState = "OPENED"]
  BY DEF AcceptKnown
<1>2. PICK m : /\ muxTable' = [muxTable EXCEPT ![n] = m]
               /\ m = [muxTable[n] EXCEPT !.localSocketReadState = "OPENED",
                                         !.localSocketWriteState = "OPENED"]
  BY <1>1
<1>3. m \in Mux /\ m.key = muxTable[n].key /\ m.sock_fd = muxTable[n].sock_fd
  <2>1. muxTable[n] \in Mux
    BY DEF LoopInv, TypeOK
  <2> QED
    BY <1>2, <2>1 DEF Mux
<1>4. /\ muxTable' \in Seq(Mux) /\ DescriptorsAccounted'
      /\ Len(muxTable') = Len(muxTable)
  BY <1>1, <1>2, <1>3, ReplacedAccounted DEF LoopInv
<1>5. Len(muxTable') \in Nat
  BY <1>4, LenProperties
<1>6. TypeOK'
  BY <1>1, <1>4, <1>5 DEF LoopInv, AcceptKnown, ServedListener, TypeOK, Opened, Free
<1> QED
  BY <1>4, <1>6
  DEF LoopInv, AcceptKnown, ServedListener, ReadyInv, PassInv, WaitsBehindFailure,
      CLIENT, PROXY

\* The TCP sockets.
LEMMA PassSocketInv == LoopInv /\ PassSocket => LoopInv'
<1> SUFFICES ASSUME LoopInv, PassSocket
             PROVE  LoopInv'
  OBVIOUS
<1>1. DescriptorsAccounted'
  BY DEF LoopInv, PassSocket, DescriptorsAccounted
<1>2. i \in 1 .. Len(muxTable) /\ Len(muxTable) \in Nat
  BY DEF LoopInv, PassSocket, AtSocket, TypeOK
<1>3. TypeOK'
  BY <1>2 DEF LoopInv, PassSocket, TypeOK
<1> QED
  BY <1>1, <1>3
  DEF LoopInv, PassSocket, AtSocket, ReadyInv, PassInv, WaitsBehindFailure

LEMMA ReadTcpInv == LoopInv /\ ReadTcp => LoopInv'
<1> SUFFICES ASSUME LoopInv, ReadTcp
             PROVE  LoopInv'
  OBVIOUS
<1>1. i \in DOMAIN muxTable /\ i \in 1 .. Len(muxTable) /\ Len(muxTable) \in Nat
  BY DEF LoopInv, ReadTcp, AtSocket, TypeOK
<1>2. muxTable[i] \in Mux
  BY <1>1 DEF LoopInv, TypeOK
<1>3. PICK m : /\ muxTable' = [muxTable EXCEPT ![i] = m]
               /\ \/ m = muxTable[i]
                  \/ m = [muxTable[i] EXCEPT !.localSocketReadState = "CLOSED"]
                  \/ m = [muxTable[i] EXCEPT !.toSend = TRUE]
  <2>1. muxTable = [muxTable EXCEPT ![i] = muxTable[i]]
    BY DEF LoopInv, TypeOK
  <2> QED
    BY <2>1 DEF ReadTcp
<1>4. m \in Mux /\ m.key = muxTable[i].key /\ m.sock_fd = muxTable[i].sock_fd
  BY <1>2, <1>3 DEF Mux
<1>5. /\ muxTable' \in Seq(Mux) /\ DescriptorsAccounted'
      /\ Len(muxTable') = Len(muxTable)
  BY <1>1, <1>3, <1>4, ReplacedAccounted DEF LoopInv, ReadTcp
<1>6. TypeOK'
  BY <1>1, <1>5 DEF LoopInv, ReadTcp, TypeOK
<1> QED
  BY <1>5, <1>6
  DEF LoopInv, ReadTcp, AtSocket, ReadyInv, PassInv, WaitsBehindFailure

LEMMA EndTcpInv == LoopInv /\ EndTcp => LoopInv'
<1> SUFFICES ASSUME LoopInv, EndTcp
             PROVE  LoopInv'
  OBVIOUS
<1>1. DescriptorsAccounted'
  BY DEF LoopInv, EndTcp, DescriptorsAccounted
<1>2. TypeOK'
  BY LenProperties DEF LoopInv, EndTcp, TypeOK
<1>3. 1 .. i' - 1 = {}
  BY DEF EndTcp
<1> QED
  BY <1>1, <1>2, <1>3 DEF LoopInv, EndTcp, ReadyInv, PassInv, WaitsBehindFailure

-----------------------------------------------------------------------------
(* The pass over the entries *)

LEMMA ProcessInv == LoopInv /\ Process => LoopInv'
<1> SUFFICES ASSUME LoopInv, Process
             PROVE  LoopInv'
  OBVIOUS
<1> DEFINE m == Served(muxTable[i])
<1>1. i \in DOMAIN muxTable /\ i \in 1 .. Len(muxTable) /\ Len(muxTable) \in Nat
  BY DEF LoopInv, Process, AtEntry, TypeOK
<1>2. muxTable[i] \in Mux
  BY <1>1 DEF LoopInv, TypeOK
<1>3. m \in Mux /\ m.key = muxTable[i].key /\ m.sock_fd = muxTable[i].sock_fd /\ ~m.toSend
  <2>1. (muxTable[i].toApp /\ muxTable[i].localSocketWriteState # "OPENED") \in BOOLEAN
    BY Zenon
  <2>2. PICK b \in BOOLEAN : m = [muxTable[i] EXCEPT !.toSend = FALSE, !.toApp = b]
    BY <2>1 DEF Served
  <2> HIDE DEF m
  <2> QED
    BY <1>2, <2>2 DEF Mux
<1>4. muxTable' = [muxTable EXCEPT ![i] = m]
  BY DEF Process
<1> HIDE DEF m
<1>5. /\ muxTable' \in Seq(Mux) /\ DescriptorsAccounted'
      /\ Len(muxTable') = Len(muxTable)
      /\ muxTable'[i] = m
      /\ \A k \in DOMAIN muxTable : k # i => muxTable'[k] = muxTable[k]
  BY <1>1, <1>3, <1>4, ReplacedAccounted DEF LoopInv, Process
<1>6. TypeOK'
  BY <1>1, <1>5 DEF LoopInv, Process, TypeOK
<1>7. PassInv'
  <2> SUFFICES ASSUME NEW k \in 1 .. i' - 1
               PROVE  ~muxTable'[k].toSend
    BY DEF PassInv
  <2>1. k \in 1 .. i /\ k \in DOMAIN muxTable
    BY <1>1 DEF Process, LoopInv, TypeOK
  <2>2. CASE k = i
    BY <1>3, <1>5, <2>2
  <2>3. CASE k # i
    BY <1>1, <1>5, <2>1, <2>3 DEF LoopInv, PassInv, Process, AtEntry
  <2> QED
    BY <2>2, <2>3
<1> QED
  BY <1>5, <1>6, <1>7
  DEF LoopInv, Process, AtEntry, ReadyInv, WaitsBehindFailure

\* The entries behind the one removed move up, and i stays: none is left out.
LEMMA ProcessRemovesInv == LoopInv /\ ProcessRemoves => LoopInv'
<1> SUFFICES ASSUME LoopInv, ProcessRemoves
             PROVE  LoopInv'
  OBVIOUS
<1>1. i \in DOMAIN muxTable /\ i \in 1 .. Len(muxTable) /\ Len(muxTable) \in Nat
  BY DEF LoopInv, ProcessRemoves, AtEntry, TypeOK
<1>2. /\ DescriptorsAccounted'
      /\ muxTable' \in Seq(Mux) /\ Len(muxTable') = Len(muxTable) - 1
      /\ open' \subseteq Fd /\ lost' \subseteq open'
      /\ \A m \in 1 .. Len(muxTable') :
           muxTable'[m] = IF m < i THEN muxTable[m] ELSE muxTable[m + 1]
  BY <1>1, RemoveMuxAccounted DEF LoopInv, ProcessRemoves
<1>3. TypeOK'
  BY <1>1, <1>2 DEF LoopInv, ProcessRemoves, RemovedAt, TypeOK
<1>4. \A n \in 1 .. i' - 1 : ~muxTable'[n].toSend
  <2> SUFFICES ASSUME NEW n \in 1 .. i' - 1
               PROVE  ~muxTable'[n].toSend
    OBVIOUS
  <2>1. n \in 1 .. i - 1 /\ n \in 1 .. Len(muxTable') /\ n < i
    BY <1>1, <1>2 DEF ProcessRemoves, RemovedAt
  <2> QED
    BY <1>2, <2>1 DEF LoopInv, PassInv, ProcessRemoves, AtEntry
<1> QED
  BY <1>2, <1>3, <1>4
  DEF LoopInv, ProcessRemoves, AtEntry, ReadyInv, PassInv, WaitsBehindFailure

LEMMA ProcessFailsInv == LoopInv /\ ProcessFails => LoopInv'
<1> SUFFICES ASSUME LoopInv, ProcessFails
             PROVE  LoopInv'
  OBVIOUS
<1> DEFINE m == Failed(muxTable[i])
<1>1. i \in DOMAIN muxTable /\ i \in 1 .. Len(muxTable) /\ Len(muxTable) \in Nat
  BY DEF LoopInv, ProcessFails, AtEntry, TypeOK
<1>2. muxTable[i] \in Mux
  BY <1>1 DEF LoopInv, TypeOK
<1>3. /\ m \in Mux /\ m.key = muxTable[i].key /\ m.sock_fd = muxTable[i].sock_fd
      /\ m.localSocketWriteState = "CLOSED"
  BY <1>2 DEF Failed, Mux
<1>4. muxTable' = [muxTable EXCEPT ![i] = m]
  BY DEF ProcessFails
<1> HIDE DEF m
<1>5. /\ muxTable' \in Seq(Mux) /\ DescriptorsAccounted'
      /\ Len(muxTable') = Len(muxTable)
      /\ muxTable'[i] = m
      /\ \A k \in DOMAIN muxTable : k # i => muxTable'[k] = muxTable[k]
      /\ DOMAIN muxTable' = DOMAIN muxTable
  BY <1>1, <1>3, <1>4, ReplacedAccounted DEF LoopInv, ProcessFails, NextIteration
<1>6. TypeOK'
  BY <1>1, <1>5 DEF LoopInv, ProcessFails, NextIteration, TypeOK
<1>7. WaitsBehindFailure'
  <2> SUFFICES ASSUME NEW n \in DOMAIN muxTable', muxTable'[n].toSend
               PROVE  i' <= n /\ muxTable'[i'].localSocketWriteState = "CLOSED"
    BY DEF WaitsBehindFailure
  <2>1. i' = i /\ n \in 1 .. Len(muxTable) /\ n \in DOMAIN muxTable
    BY <1>5 DEF ProcessFails, LoopInv, TypeOK
  <2>2. ~(n <= i - 1)
    BY <1>1, <1>5, <2>1 DEF LoopInv, PassInv, ProcessFails, AtEntry
  <2> QED
    BY <1>1, <1>3, <1>5, <2>1, <2>2
<1> QED
  BY <1>5, <1>6, <1>7 DEF LoopInv, ProcessFails, NextIteration, ReadyInv, PassInv

LEMMA EndProcessInv == LoopInv /\ EndProcess => LoopInv'
<1> SUFFICES ASSUME LoopInv, EndProcess
             PROVE  LoopInv'
  OBVIOUS
<1>1. DescriptorsAccounted'
  BY DEF LoopInv, EndProcess, NextIteration, DescriptorsAccounted
<1>2. TypeOK'
  BY DEF LoopInv, EndProcess, NextIteration, TypeOK
<1>3. \A n \in DOMAIN muxTable : ~muxTable[n].toSend
  <2>1. i = Len(muxTable) + 1 /\ DOMAIN muxTable = 1 .. Len(muxTable)
    BY LenProperties DEF LoopInv, EndProcess, TypeOK
  <2> QED
    BY <2>1 DEF LoopInv, EndProcess, PassInv
<1> QED
  BY <1>1, <1>2, <1>3
  DEF LoopInv, EndProcess, NextIteration, ReadyInv, PassInv, WaitsBehindFailure

LEMMA StutterInv == LoopInv /\ UNCHANGED vars => LoopInv'
<1> SUFFICES ASSUME LoopInv, UNCHANGED vars
             PROVE  LoopInv'
  OBVIOUS
<1> QED
  BY DEF vars, LoopInv, TypeOK, DescriptorsAccounted, ReadyInv, PassInv, WaitsBehindFailure

-----------------------------------------------------------------------------
(* What holds of every run *)

LEMMA NextInv == LoopInv /\ [Next]_vars => LoopInv'
<1> SUFFICES ASSUME LoopInv, [Next]_vars
             PROVE  LoopInv'
  OBVIOUS
<1>1. CASE Next
  BY <1>1, SelectInv, ReceiveNothingInv, ReceiveFirstInv, ReceiveFirstNoServerInv,
     ReceiveInv, ReceiveCloseInv, AcceptNothingInv, AcceptInv, AcceptKnownInv,
     PassSocketInv, ReadTcpInv, EndTcpInv, ProcessInv, ProcessRemovesInv,
     ProcessFailsInv, EndProcessInv
  DEF Next
<1>2. CASE UNCHANGED vars
  BY <1>2, StutterInv
<1> QED
  BY <1>1, <1>2

\* The invariant of the loop's proofs holds whatever the connections, the packets and
\* the order of the sockets.
THEOREM LoopInvHolds == Spec => []LoopInv
<1>1. Init => LoopInv
  BY InitInv
<1>2. LoopInv /\ [Next]_vars => LoopInv'
  BY NextInv
<1> QED
  BY <1>1, <1>2, PTL DEF Spec

\* The table keeps its type, and the place of a pass stays in it or just behind it.
THEOREM TypeOKHolds == Spec => []TypeOK
<1>1. LoopInv => TypeOK
  BY DEF LoopInv
<1> QED
  BY <1>1, LoopInvHolds, PTL

\* Any number of connections are made and removed: each keeps a socket of its own that
\* is open, and nothing else is open but what failed or mistaken connections left.
THEOREM DescriptorsAccountedHolds == Spec => []DescriptorsAccounted
<1>1. LoopInv => DescriptorsAccounted
  BY DEF LoopInv
<1> QED
  BY <1>1, LoopInvHolds, PTL

\* The proxy reads no socket that select() did not find ready, however descriptors are
\* closed and given again in the middle of an iteration.
THEOREM ProxyNeverBlocksHolds == Spec => []ProxyNeverBlocks
<1>1. LoopInv => ProxyNeverBlocks
  BY DEF LoopInv, ReadyInv, ProxyNeverBlocks, Blocked, IsSet
<1> QED
  BY <1>1, LoopInvHolds, PTL

\* A pass leaves out no entry, however many it removes.
THEOREM WaitsBehindFailureHolds == Spec => []WaitsBehindFailure
<1>1. LoopInv => WaitsBehindFailure
  BY DEF LoopInv
<1> QED
  BY <1>1, LoopInvHolds, PTL

=============================================================================

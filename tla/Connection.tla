----------------------------- MODULE Connection -----------------------------
(***************************************************************************)
(* What the two ends promise the two applications of one connection, with  *)
(* neither packets nor timers: bytes are delivered as they were written,   *)
(* an end that cannot be helped leaves, and one that can is not cut off.   *)
(***************************************************************************)
EXTENDS Integers

CONSTANTS Client, Proxy

End == {Client, Proxy}
Other(e) == IF e = Client THEN Proxy ELSE Client

VARIABLES
  end,      \* end[e]: "none" before the connection is made there, "open" or "gone"
  ended,    \* ended[e]: e's application wrote its last
  broken,   \* broken[e]: e's application takes no more
  told,     \* told[e]: e is about to hear that the other end is not there
  written,  \* written[e]: how much e's application wrote
  got,      \* got[e]: how much e's application was given
  count     \* connections made to the server

vars == <<end, ended, broken, told, written, got, count>>

Init ==
  /\ end = [e \in End |-> "none"]
  /\ ended = [e \in End |-> FALSE] /\ broken = [e \in End |-> FALSE]
  /\ told = [e \in End |-> FALSE]
  /\ written = [e \in End |-> 0] /\ got = [e \in End |-> 0]
  /\ count = 0

Accept ==
  /\ end[Client] = "none"
  /\ end' = [end EXCEPT ![Client] = "open"]
  /\ UNCHANGED <<ended, broken, told, written, got, count>>

\* A late packet of the client may make the proxy connect to the server once more.
Connect ==
  /\ end[Client] # "none" /\ end[Proxy] # "open"
  /\ end' = [end EXCEPT ![Proxy] = "open"]
  /\ got' = [got EXCEPT ![Proxy] = 0]
  /\ count' = count + 1
  /\ UNCHANGED <<ended, broken, told, written>>

Write(e) ==
  /\ end[e] = "open" /\ ~ended[e]
  /\ written' = [written EXCEPT ![e] = @ + 1]
  /\ UNCHANGED <<end, ended, broken, told, got, count>>

WriteEnd(e) ==
  /\ end[e] = "open"
  /\ ended' = [ended EXCEPT ![e] = TRUE]
  /\ UNCHANGED <<end, broken, told, written, got, count>>

Break(e) ==
  /\ end[e] = "open"
  /\ broken' = [broken EXCEPT ![e] = TRUE]
  /\ UNCHANGED <<end, ended, told, written, got, count>>

\* An application is given more of what the other wrote, and nothing else.
Gives(e) ==
  /\ \A f \in End \ {e} : got'[f] = got[f]
  /\ got[e] <= got'[e] /\ got'[e] <= written[Other(e)]
  /\ got'[e] # got[e] => ~broken[e]

Deliver(e) ==
  /\ end[e] = "open"
  /\ Gives(e)
  /\ UNCHANGED <<end, ended, broken, told, written, count>>

\* All the other application wrote was given to this one, and it writes no more.
HasAll(e) ==
  /\ got'[e] = written[Other(e)]
  /\ ended[Other(e)] \/ end[Other(e)] # "open"

\* An end leaves one application alone only if that takes no more, if the other end is
\* not there, or if the other application ended and all it wrote was given.  Nothing is
\* promised once a second connection to the server was made.
Leave(e) ==
  /\ end[e] = "open"
  /\ Gives(e)
  /\ broken[e] \/ told[e] \/ HasAll(e) \/ count > 1
  /\ end' = [end EXCEPT ![e] = "gone"]
  /\ ended' = [ended EXCEPT ![e] = FALSE] /\ broken' = [broken EXCEPT ![e] = FALSE]
  /\ \/ told' = [told EXCEPT ![Other(e)] = TRUE]
     \/ told' \in { told, [told EXCEPT ![e] = FALSE] }
  /\ UNCHANGED <<written, count>>

\* Only an end that is not there says so.
Tell(e) ==
  /\ end[Other(e)] # "open"
  /\ told' = [told EXCEPT ![e] = TRUE]
  /\ UNCHANGED <<end, ended, broken, written, got, count>>

Miss(e) ==
  /\ told' = [told EXCEPT ![e] = FALSE]
  /\ UNCHANGED <<end, ended, broken, written, got, count>>

Next ==
  \/ Accept \/ Connect
  \/ \E e \in End : \/ Write(e) \/ WriteEnd(e) \/ Break(e) \/ Deliver(e)
                    \/ Leave(e) \/ Tell(e) \/ Miss(e)

Spec == Init /\ [][Next]_vars

=============================================================================

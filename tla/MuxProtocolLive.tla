-------------------------- MODULE MuxProtocolLive --------------------------
(***************************************************************************)
(* MuxProtocol with the fairness of its two loops.                         *)
(*                                                                         *)
(* An iteration serves the timer and the UDP socket whenever select()      *)
(* found them ready, so neither is passed over for ever: strong fairness.  *)
(* The end of an iteration waits for nothing, and the clock goes on: weak  *)
(* fairness.  Applications write and close as they like, and the network   *)
(* loses MaxLosses packets at most.                                        *)
(***************************************************************************)
EXTENDS MuxProtocol

ReceiveUdp(e) ==
  ReceiveFirst(e) \/ ReceiveFirstNoServer(e) \/ Receive(e) \/ ReceiveSenseless(e)

Fairness ==
  \A e \in End :
    /\ SF_vars(TimeOut(e))
    /\ SF_vars(ReceiveUdp(e))
    /\ WF_vars(Process(e))
    /\ WF_vars(Elapse(e))

LiveSpec == Spec /\ Fairness

-----------------------------------------------------------------------------
(* Properties *)

\* A connection that was accepted reaches the server, or is given up: EMPTY is
\* sent again for as long as nothing came back.
ServerReached == accepted ~> (connections > 0 \/ ~isMux(CLIENT))

\* When the proxy gave up a connection it had opened, the client does too, unless
\* the CLOSE is lost or a late packet made the proxy open another.
CloseReachesClient ==
  (connections > 0 /\ ~isMux(PROXY)) ~> (~isMux(CLIENT) \/ isMux(PROXY) \/ lost > 0)

\* When an application closed its end, and nothing is lost, the connection ends:
\* the end of the data is announced once it is acknowledged.
EndOfFileEnds ==
  \A e \in End :
    (isMux(e) /\ mux[e].localSocketReadState = "CLOSED_ACKNOWLEDGED")
      ~> (~isMux(e) \/ lost > 0)

\* A connection a late packet made the proxy open for a client that has gone ends, if
\* its server says anything: the client that does not know it any more refuses it.
SpokenOrphanEnds ==
  (accepted /\ ~isMux(CLIENT) /\ isMux(PROXY) /\ mux[PROXY].isOutstandingData)
    ~> (~isMux(PROXY) \/ lost > 0)

=============================================================================

--------------------------- MODULE CodedLinkLive ---------------------------
(***************************************************************************)
(* CodedLink over a network that loses MaxLosses packets at most, with the *)
(* fairness of the two event loops.                                        *)
(*                                                                         *)
(* An iteration of infiniteWaitLoop serves every source that was ready     *)
(* when select() returned, so none that stays ready, or becomes ready      *)
(* again and again between two iterations, is passed over for ever: strong *)
(* fairness of the three handlers.  The end of an iteration and the        *)
(* receiver's iteration wait for nothing: weak fairness.                   *)
(***************************************************************************)
EXTENDS CodedLink

CONSTANT MaxLosses

ASSUME LossesAssumption == MaxLosses \in Nat

VARIABLE lost  \* packets lost so far

liveVars == <<vars, lost>>

LiveInit == Init /\ lost = 0

Lose ==
  /\ lost < MaxLosses
  /\ LoseData \/ LoseAck
  /\ lost' = lost + 1

Serve ==
  /\ TimeOut \/ ReceiveAck \/ ReadTcp \/ ReadTcpFails \/ Flush \/ ReceiveData
  /\ UNCHANGED lost

LiveNext == Serve \/ Lose

Fairness ==
  /\ SF_liveVars(TimeOut /\ UNCHANGED lost)
  /\ SF_liveVars(ReceiveAck /\ UNCHANGED lost)
  /\ SF_liveVars(ReadTcp /\ UNCHANGED lost)
  /\ WF_liveVars(Flush /\ UNCHANGED lost)
  /\ WF_liveVars(ReceiveData /\ UNCHANGED lost)

LiveSpec == LiveInit /\ [][LiveNext]_liveVars /\ Fairness

-----------------------------------------------------------------------------
(* Properties *)

\* A sender with data outstanding and a timer set gets it all acknowledged, or
\* at least reaches a moment where it has nothing outstanding: the timer and the
\* coded retransmissions make up for every loss.
OutstandingDrains ==
  (enc.isOutstandingData /\ enc.nextTimeout # "infinite") ~> ~enc.isOutstandingData

\* "No data left to send... let the TO be infinite !" (encoding.c line 272): with
\* data left, the timer is set, so that the data gets through.
OutstandingAlwaysDrains == enc.isOutstandingData ~> ~enc.isOutstandingData

\* Without losses everything written is handed to the receiving application:
\* the window, the limit on stored blocks and the switch from block to block
\* never stop the transfer for good.
DeliversAllUnlessLost == [](lost = 0) => <>(delivered = Source)

=============================================================================

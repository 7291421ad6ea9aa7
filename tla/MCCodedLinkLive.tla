-------------------------- MODULE MCCodedLinkLive --------------------------
(* The constants of MCCodedLink for the specification with fairness. *)
EXTENDS MCCodedLink, CodedLinkLive

=============================================================================

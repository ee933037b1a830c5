-------------------------- MODULE MCOutboundGates --------------------------
(* Model of OutboundGates for TLC. *)
EXTENDS OutboundGates
=============================================================================

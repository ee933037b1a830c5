-------------------------- MODULE MCPeerTransport --------------------------
(* Model of PeerTransport for TLC. *)
EXTENDS PeerTransport
=============================================================================

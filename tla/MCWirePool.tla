----------------------------- MODULE MCWirePool -----------------------------
(* A small instance of WirePool for TLC: WebRTC is rebuilt once. *)
EXTENDS WirePool

MCGens == [t \in ConnType |-> IF t = "WebRTC" THEN 2 ELSE 1]
=============================================================================

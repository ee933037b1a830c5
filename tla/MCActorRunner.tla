--------------------------- MODULE MCActorRunner ---------------------------
(* A small instance of ActorRunner for TLC. *)
EXTENDS ActorRunner
=============================================================================

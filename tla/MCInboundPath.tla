---------------------------- MODULE MCInboundPath ----------------------------
(* Small instances of InboundPath for TLC; no instance has Serial in Key. *)
EXTENDS InboundPath, TLC

Symmetry == Permutations(Message) \cup Permutations(Id) \cup Permutations(Key)
=============================================================================

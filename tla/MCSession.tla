----------------------------- MODULE MCSession -----------------------------
(* Model of Session for TLC. *)
EXTENDS Session
=============================================================================

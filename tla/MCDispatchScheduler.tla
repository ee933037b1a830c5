------------------------ MODULE MCDispatchScheduler ------------------------
(* Instances of DispatchScheduler for TLC. *)
EXTENDS DispatchScheduler
=============================================================================

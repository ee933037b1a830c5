------------------------ MODULE MCDataChunkRegistry ------------------------
(* Instance of DataChunkRegistry for TLC. *)
EXTENDS DataChunkRegistry
=============================================================================

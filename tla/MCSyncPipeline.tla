--------------------------- MODULE MCSyncPipeline ---------------------------
(* The pipeline on a short chain. *)
EXTENDS SyncPipeline
=============================================================================

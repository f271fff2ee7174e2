----------------------------- MODULE MCStageLogs -----------------------------
(* Two stages.  The limit is not a multiple of the chunk size, and one     *)
(* event is larger than a chunk, so that chunks are split, cut and dropped.*)
EXTENDS StageLogs
=============================================================================

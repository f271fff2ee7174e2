-------------------------- MODULE MCStageExecution --------------------------
(* A leader and one descendant, two streams.                               *)
EXTENDS StageExecution
=============================================================================

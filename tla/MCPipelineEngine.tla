-------------------------- MODULE MCPipelineEngine --------------------------
(***************************************************************************)
(* Small instances of PipelineEngine.                                      *)
(*   duplicates: three calls for one run, one of them with git, and one    *)
(*               cancel: every way duplicates and a cancellation meet.     *)
(*   calls:      a run of p1 with a duplicate call and a run of p2, for    *)
(*               one slot: the project permit and the slot meet.           *)
(***************************************************************************)
EXTENDS PipelineEngine, TLC

CONSTANTS e1, e2, e3, c1, r1, r2, p1, p2

DuplicatesProjectOf == r1 :> p1
DuplicatesRunOf == (e1 :> r1) @@ (e2 :> r1) @@ (e3 :> r1) @@ (c1 :> r1)
DuplicatesEnabled == r1 :> {1, 2}

CallsProjectOf == (r1 :> p1) @@ (r2 :> p2)
CallsRunOf == (e1 :> r1) @@ (e2 :> r1) @@ (e3 :> r2) @@ (c1 :> r1)
CallsEnabled == (r1 :> {1, 2}) @@ (r2 :> {2})
=============================================================================

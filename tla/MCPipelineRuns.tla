--------------------------- MODULE MCPipelineRuns ---------------------------
(* Two projects, three requests chosen so that the calls meet: a run is    *)
(* created while its configuration is replaced, retried while it is        *)
(* cancelled, its retry is retried, a second run is numbered, and the      *)
(* project is deleted or listed under all of them.  p2 has no stages.      *)
EXTENDS PipelineRuns, TLC

CONSTANTS p1, p2, q1, q2, q3, c1

Build == [name |-> "build", enabled |-> TRUE]
Test == [name |-> "test", enabled |-> TRUE]

Create(p) == [op |-> "create", project |-> p]
Delete(p) == [op |-> "delete", project |-> p]
Put(p, stages) == [op |-> "put", project |-> p, stages |-> stages]
ListOf(p) == [op |-> "list", project |-> p]
Retry(r) == [op |-> "retry", run |-> r]
CancelOf(r) == [op |-> "cancel", run |-> r]

MCConfigured == (p1 :> <<Build>>) @@ (p2 :> <<>>)

MCCallsOf ==
  (q1 :> {Create(p1)})
  @@ (q2 :> {Retry(q1), CancelOf(q1), Create(p1), Create(p2)})
  @@ (q3 :> {Delete(p1), ListOf(p1), CancelOf(q1), Retry(q2), Put(p1, <<Test>>),
             Put(p1, <<Test, Test>>), Put(p1, <<>>)})
=============================================================================

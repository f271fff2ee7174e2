---------------------------- MODULE RunLifecycle ----------------------------
(***************************************************************************)
(* What the pipeline engine promises about the rows of a pipeline run.     *)
(* A run is claimed once, its enabled stages are started in the order of   *)
(* their positions while the run is running, and the step that gives the   *)
(* run its final status leaves none of its stages unsettled.  Who performs *)
(* a step, under which locks and after which failures is not said here:    *)
(* PipelineEngine.tla says it and implements this module.                  *)
(***************************************************************************)
EXTENDS Naturals

CONSTANTS Runs,         \* the ids of pipeline_runs
          NumStages,    \* stage_runs of a run, at positions 1 .. NumStages
          Enabled       \* Enabled[r]: positions whose stage is enabled

VARIABLES runStatus, stageStatus

vars == <<runStatus, stageStatus>>

Stages == 1 .. NumStages

\* The snapshot taken when the run is created: a disabled stage is skipped.
InitialStages(r) ==
  [i \in Stages |-> IF i \in Enabled[r] THEN "pending" ELSE "skipped"]

Init ==
  /\ runStatus = [r \in Runs |-> "pending"]
  /\ stageStatus = [r \in Runs |-> InitialStages(r)]

\* The effect of UPDATE stage_runs SET status = to WHERE status = from.
Replace(stages, from, to) ==
  [i \in Stages |-> IF stages[i] = from THEN to ELSE stages[i]]

Claim(r) ==
  /\ runStatus[r] = "pending"
  /\ runStatus' = [runStatus EXCEPT ![r] = "running"]
  /\ UNCHANGED stageStatus

CancelPending(r) ==
  /\ runStatus[r] = "pending"
  /\ runStatus' = [runStatus EXCEPT ![r] = "cancelled"]
  /\ stageStatus' = [stageStatus EXCEPT ![r] = Replace(@, "pending", "cancelled")]

\* Only a running run starts a stage, and only after its predecessors.
StartStage(r, i) ==
  /\ runStatus[r] = "running"
  /\ stageStatus[r][i] = "pending"
  /\ \A j \in Enabled[r] : j < i => stageStatus[r][j] = "success"
  /\ stageStatus' = [stageStatus EXCEPT ![r][i] = "running"]
  /\ UNCHANGED runStatus

\* A stage's result is the result of its command.  When a concurrent call
\* already failed the run, the result of the stage in flight still arrives.
EndStage(r, i, result) ==
  /\ \/ stageStatus[r][i] = "running"
     \/ runStatus[r] = "failed" /\ stageStatus[r][i] = "failed"
  /\ stageStatus' = [stageStatus EXCEPT ![r][i] = result]
  /\ UNCHANGED runStatus

\* No further stage will start.
SkipPending(r) ==
  /\ runStatus[r] \in {"pending", "running"}
  /\ stageStatus' = [stageStatus EXCEPT ![r] = Replace(@, "pending", "skipped")]
  /\ UNCHANGED runStatus

Succeed(r) ==
  /\ runStatus[r] = "running"
  /\ \A i \in Enabled[r] : stageStatus[r][i] = "success"
  /\ runStatus' = [runStatus EXCEPT ![r] = "success"]
  /\ UNCHANGED stageStatus

\* Failing or cancelling a running run settles every stage in the same step.
Stop(r, status) ==
  /\ runStatus[r] = "running"
  /\ runStatus' = [runStatus EXCEPT ![r] = status]
  /\ stageStatus' = [stageStatus EXCEPT
       ![r] = Replace(Replace(@, "running", status), "pending", "skipped")]

\* DELETE FROM projects cascades to all runs of the project.
Delete(rs) ==
  /\ runStatus' = [r \in Runs |-> IF r \in rs THEN "deleted" ELSE runStatus[r]]
  /\ stageStatus' = [r \in Runs |->
       IF r \in rs THEN [i \in Stages |-> "deleted"] ELSE stageStatus[r]]

Next ==
  \/ \E r \in Runs :
       \/ Claim(r)
       \/ CancelPending(r)
       \/ SkipPending(r)
       \/ Succeed(r)
       \/ \E i \in Stages : StartStage(r, i)
       \/ \E i \in Stages, result \in {"success", "failed"} : EndStage(r, i, result)
       \/ \E status \in {"failed", "cancelled"} : Stop(r, status)
  \/ \E rs \in SUBSET Runs : Delete(rs)

Spec == Init /\ [][Next]_vars

=============================================================================

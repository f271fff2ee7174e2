--------------------------- MODULE PipelineEngine ---------------------------
(***************************************************************************)
(* PipelineEngine of src/src/pipeline_engine.rs: concurrent calls of       *)
(* execute and execute_with_git on the runs of several projects, of        *)
(* PipelineEngine::cancel and of the API's cancel, over the rows of        *)
(* pipeline_runs and stage_runs.                                           *)
(*                                                                         *)
(* An execution is one call of execute_mode.  Its pc names the statement   *)
(* it is about to run.  Every SQL statement or transaction is one step     *)
(* (SQLite has a single writer); what lies between two awaits is part of   *)
(* the step before it.                                                     *)
(***************************************************************************)
EXTENDS Integers, FiniteSets

CONSTANTS
  Projects, Runs, ProjectOf,
  Executions,       \* calls of execute_mode
  GitExecutions,    \* those made through execute_with_git
  Cancels,          \* calls of PipelineEngine::cancel
  RunOf,            \* the run_id each call is made with
  NumStages, Enabled,
  MaxConcurrency,   \* the argument of PipelineEngine::new
  Deletable,        \* projects the API may delete while runs execute
  None,
  MaxDbErrors,      \* bound on failing SQL statements
  MaxCrashes        \* bound on restarts of the process

ASSUME EngineAssumption ==
  /\ ProjectOf \in [Runs -> Projects]
  /\ RunOf \in [Executions \cup Cancels -> Runs]
  /\ IsFiniteSet(Executions)
  /\ GitExecutions \subseteq Executions
  /\ Deletable \subseteq Projects
  /\ None \notin Executions
  /\ NumStages \in Nat
  /\ Enabled \in [Runs -> SUBSET (1 .. NumStages)]
  /\ MaxConcurrency \in Nat
  /\ MaxDbErrors \in Nat
  /\ MaxCrashes \in Nat

VARIABLES
  runStatus, stageStatus,   \* the database
  claimant,                 \* the execution whose UPDATE claimed the run (history)
  running,                  \* run id -> execution whose token is registered
  cancelled,                \* executions whose CancellationToken is cancelled
  projectLock,              \* project -> execution holding its permit
  freeSlots,                \* permits left in the concurrency semaphore
  pc,
  todo,                     \* enabled stages the loop has not finished
  cancelState,              \* progress and result of each cancel call
  dbErrors, crashes

dbVars == <<runStatus, stageStatus, claimant>>
lockVars == <<projectLock, freeSlots>>
vars == <<runStatus, stageStatus, claimant, running, cancelled, projectLock,
          freeSlots, pc, todo, cancelState, dbErrors, crashes>>

Stages == 1 .. NumStages
Slots == IF MaxConcurrency < 1 THEN 1 ELSE MaxConcurrency

Terminal == {"success", "failed", "cancelled"}
RunStatuses == {"pending", "running", "deleted"} \cup Terminal
StageStatuses == RunStatuses \cup {"skipped"}

\* Where an execution stands in execute_inner, by what it holds.
Looping == {"stages", "command", "succeeded", "failed", "skipRest", "failRun"}
Claimed == {"prepare", "sync", "record"} \cup Looping
HoldsSlot == {"register", "claim"} \cup Claimed
HoldsProject == {"slot"} \cup HoldsSlot
Settling == {"failing", "cancelling"}
Labels == {"select", "project", "leaving", "done", "dead"} \cup HoldsProject \cup Settling
CancelStates == {"idle", "missed", "true", "false", "dead"}

ProjectOfExec(e) == ProjectOf[RunOf[e]]

InitialStages(r) ==
  [i \in Stages |-> IF i \in Enabled[r] THEN "pending" ELSE "skipped"]

Init ==
  /\ runStatus = [r \in Runs |-> "pending"]
  /\ stageStatus = [r \in Runs |-> InitialStages(r)]
  /\ claimant = [r \in Runs |-> None]
  /\ running = [r \in Runs |-> None]
  /\ cancelled = {}
  /\ projectLock = [p \in Projects |-> None]
  /\ freeSlots = Slots
  /\ pc = [e \in Executions |-> "select"]
  /\ todo = [e \in Executions |-> {}]
  /\ cancelState = [c \in Cancels |-> "idle"]
  /\ dbErrors = 0
  /\ crashes = 0

-----------------------------------------------------------------------------
(* Statements of the code several steps share.                             *)

\* UPDATE stage_runs SET status = to WHERE run_id = .. AND status = from
Replace(stages, from, to) ==
  [i \in Stages |-> IF stages[i] = from THEN to ELSE stages[i]]

\* UPDATE pipeline_runs SET status = to WHERE id = r AND status = from
ReplaceRun(r, from, to) ==
  runStatus' = [runStatus EXCEPT ![r] = IF @ = from THEN to ELSE @]

Goto(e, label) == pc' = [pc EXCEPT ![e] = label]

\* execute_inner returns: its permits are dropped, execute_mode goes on.
Return(e, label) ==
  /\ Goto(e, label)
  /\ projectLock' = IF pc[e] \in HoldsProject
                      THEN [projectLock EXCEPT ![ProjectOfExec(e)] = None]
                      ELSE projectLock
  /\ freeSlots' = IF pc[e] \in HoldsSlot THEN freeSlots + 1 ELSE freeSlots

\* if cancellation.is_cancelled() { return Err(Cancelled) }.  The check and the
\* statement after it are one step: a token cancelled in between has the
\* effect of one cancelled right after the statement.
ReturnIfCancelled(e) ==
  /\ e \in cancelled
  /\ Return(e, "cancelling")
  /\ UNCHANGED <<dbVars, running, cancelled, todo>>

CallVars == <<cancelState, dbErrors, crashes>>

Least(S) == CHOOSE i \in S : \A j \in S : i <= j

\* The stage rows are read ORDER BY position.
NextStage(e) == Least(todo[e])

-----------------------------------------------------------------------------
(* Mutants: bugs this code could have had.  The specification uses none of *)
(* them; each shows that a property below notices the bug.                 *)

\* NotPending is handled like any other error.
SelectFailsRun(e) ==
  /\ pc[e] = "select"
  /\ Goto(e, IF runStatus[RunOf[e]] = "pending" THEN "project" ELSE "failing")
  /\ UNCHANGED <<dbVars, running, cancelled, lockVars, todo, CallVars>>

\* A semaphore per call instead of one per project.
AcquireProjectAlways(e) ==
  /\ pc[e] = "project"
  /\ projectLock' = [projectLock EXCEPT ![ProjectOfExec(e)] = e]
  /\ Goto(e, "slot")
  /\ UNCHANGED <<dbVars, running, cancelled, freeSlots, todo, CallVars>>

\* The run goes on without waiting for a permit.
AcquireSlotAlways(e) ==
  /\ pc[e] = "slot"
  /\ freeSlots' = freeSlots - 1
  /\ Goto(e, "register")
  /\ UNCHANGED <<dbVars, running, cancelled, projectLock, todo, CallVars>>

\* rows_affected() of the claim is not looked at.
ClaimUnchecked(e) ==
  LET r == RunOf[e] IN
  /\ pc[e] = "claim"
  /\ ReplaceRun(r, "pending", "running")
  /\ claimant' = [claimant EXCEPT ![r] = IF runStatus[r] = "pending" THEN e ELSE @]
  /\ Goto(e, "prepare")
  /\ UNCHANGED <<stageStatus, running, lockVars, cancelled, todo, CallVars>>

\* The claim's UPDATE lacks AND status = 'pending'.
ClaimAnyStatus(e) ==
  LET r == RunOf[e] IN
  /\ pc[e] = "claim"
  /\ runStatus' = [runStatus EXCEPT ![r] = IF @ = "deleted" THEN @ ELSE "running"]
  /\ claimant' = [claimant EXCEPT ![r] = e]
  /\ Goto(e, "prepare")
  /\ UNCHANGED <<stageStatus, running, lockVars, cancelled, todo, CallVars>>

\* After a failed stage the loop goes on.
ReportStageGoesOn(e) ==
  LET r == RunOf[e]
      i == NextStage(e)
      result == IF pc[e] = "succeeded" THEN "success" ELSE "failed"
  IN
  /\ pc[e] \in {"succeeded", "failed"}
  /\ stageStatus' = [stageStatus EXCEPT ![r][i] = IF @ = "deleted" THEN @ ELSE result]
  /\ Goto(e, "stages")
  /\ todo' = [todo EXCEPT ![e] = @ \ {i}]
  /\ UNCHANGED <<runStatus, claimant, running, cancelled, lockVars, CallVars>>

\* The UPDATE to 'skipped' lacks AND status = 'pending'.
SkipRestAll(e) ==
  /\ pc[e] = "skipRest"
  /\ stageStatus' = [stageStatus EXCEPT ![RunOf[e]] = [i \in Stages |-> "skipped"]]
  /\ Goto(e, "failRun")
  /\ UNCHANGED <<runStatus, claimant, running, cancelled, lockVars, todo, CallVars>>

\* A failed git synchronisation is tried again and again.
WorkFailsRetries(e) ==
  /\ pc[e] \in {"prepare", "sync", "command"}
  /\ IF pc[e] = "sync" THEN Goto(e, "prepare") /\ UNCHANGED lockVars
                        ELSE Return(e, "failing")
  /\ UNCHANGED <<dbVars, running, cancelled, todo, CallVars>>

\* execute_mode does not settle a run whose work failed.
WorkFailsUnsettled(e) ==
  /\ pc[e] \in {"prepare", "sync", "command"}
  /\ Return(e, "leaving")
  /\ UNCHANGED <<dbVars, running, cancelled, todo, CallVars>>

\* The transaction settles the run and forgets its stages.
SettleRunOnly(e) ==
  /\ pc[e] \in Settling
  /\ ReplaceRun(RunOf[e], "running", IF pc[e] = "failing" THEN "failed" ELSE "cancelled")
  /\ Goto(e, "leaving")
  /\ UNCHANGED <<stageStatus, claimant, running, cancelled, lockVars, todo, CallVars>>

\* .. or settles the stages and forgets the run.
SettleStagesOnly(e) ==
  /\ pc[e] \in Settling
  /\ stageStatus' = [stageStatus EXCEPT
       ![RunOf[e]] = Replace(Replace(@, "running", "failed"), "pending", "skipped")]
  /\ Goto(e, "leaving")
  /\ UNCHANGED <<runStatus, claimant, running, cancelled, lockVars, todo, CallVars>>

\* execute_mode returns without remove_running.
LeaveRegistered(e) ==
  /\ pc[e] = "leaving"
  /\ Goto(e, "done")
  /\ UNCHANGED <<dbVars, running, cancelled, lockVars, todo, CallVars>>

-----------------------------------------------------------------------------
(* execute_inner                                                           *)

\* SELECT project_id .. WHERE status = 'pending'
Select(e) ==
  /\ pc[e] = "select"
  /\ Goto(e, IF runStatus[RunOf[e]] = "pending" THEN "project" ELSE "leaving")
  /\ UNCHANGED <<dbVars, running, cancelled, lockVars, todo, CallVars>>

\* project_permit(..).await
AcquireProject(e) ==
  /\ pc[e] = "project"
  /\ projectLock[ProjectOfExec(e)] = None
  /\ projectLock' = [projectLock EXCEPT ![ProjectOfExec(e)] = e]
  /\ Goto(e, "slot")
  /\ UNCHANGED <<dbVars, running, cancelled, freeSlots, todo, CallVars>>

\* concurrency.acquire().await
AcquireSlot(e) ==
  /\ pc[e] = "slot"
  /\ freeSlots > 0
  /\ freeSlots' = freeSlots - 1
  /\ Goto(e, "register")
  /\ UNCHANGED <<dbVars, running, cancelled, projectLock, todo, CallVars>>

\* A run already in the map is AlreadyRunning, an error like any other.
Register(e) ==
  /\ pc[e] = "register"
  /\ IF running[RunOf[e]] = None
       THEN /\ running' = [running EXCEPT ![RunOf[e]] = e]
            /\ Goto(e, "claim")
            /\ UNCHANGED lockVars
       ELSE /\ Return(e, "failing")
            /\ UNCHANGED running
  /\ UNCHANGED <<dbVars, cancelled, todo, CallVars>>

\* Nothing updated: remove_running, then NotPending.
Claim(e) ==
  LET r == RunOf[e] IN
  /\ pc[e] = "claim"
  /\ IF runStatus[r] = "pending"
       THEN /\ runStatus' = [runStatus EXCEPT ![r] = "running"]
            /\ claimant' = [claimant EXCEPT ![r] = e]
            /\ Goto(e, "prepare")
            /\ UNCHANGED <<running, lockVars>>
       ELSE /\ running' = [running EXCEPT ![r] = None]
            /\ Return(e, "leaving")
            /\ UNCHANGED <<runStatus, claimant>>
  /\ UNCHANGED <<stageStatus, cancelled, todo, CallVars>>

\* The stage rows are read once; prepare_workspace follows.  The rows of a
\* deleted run are an empty list.
Prepare(e) ==
  LET r == RunOf[e] IN
  /\ pc[e] = "prepare"
  /\ \/ ReturnIfCancelled(e)
     \/ /\ e \notin cancelled
        /\ todo' = [todo EXCEPT ![e] = IF runStatus[r] = "deleted" THEN {} ELSE Enabled[r]]
        /\ Goto(e, IF e \in GitExecutions THEN "sync" ELSE "stages")
        /\ UNCHANGED <<dbVars, running, cancelled, lockVars>>
  /\ UNCHANGED CallVars

\* GitService::sync: it succeeds, or is stopped by the token.
Sync(e) ==
  /\ pc[e] = "sync"
  /\ \/ ReturnIfCancelled(e)
     \/ Goto(e, "record") /\ UNCHANGED <<dbVars, running, cancelled, lockVars, todo>>
  /\ UNCHANGED CallVars

\* UPDATE pipeline_runs SET commit_sha .. WHERE status = 'running'
Record(e) ==
  /\ pc[e] = "record"
  /\ \/ ReturnIfCancelled(e)
     \/ /\ e \notin cancelled
        /\ IF runStatus[RunOf[e]] = "running"
             THEN Goto(e, "stages") /\ UNCHANGED lockVars
             ELSE Return(e, "failing")
        /\ UNCHANGED <<dbVars, running, cancelled, todo>>
  /\ UNCHANGED CallVars

\* The claim of the next stage; a stage that is not pending is a StateConflict.
BeginStage(e) ==
  LET r == RunOf[e]
      i == NextStage(e)
  IN
  /\ pc[e] = "stages"
  /\ todo[e] # {}
  /\ \/ ReturnIfCancelled(e)
     \/ /\ e \notin cancelled
        /\ IF stageStatus[r][i] = "pending"
             THEN /\ stageStatus' = [stageStatus EXCEPT ![r][i] = "running"]
                  /\ Goto(e, "command")
                  /\ UNCHANGED lockVars
             ELSE /\ Return(e, "failing")
                  /\ UNCHANGED stageStatus
        /\ UNCHANGED <<runStatus, claimant, running, cancelled, todo>>
  /\ UNCHANGED CallVars

\* execute_with_logs returns: Success, Failed or TimedOut, or Cancelled.
EndCommand(e) ==
  /\ pc[e] = "command"
  /\ \/ ReturnIfCancelled(e)
     \/ /\ \E outcome \in {"succeeded", "failed"} : Goto(e, outcome)
        /\ UNCHANGED <<dbVars, running, cancelled, lockVars, todo>>
  /\ UNCHANGED CallVars

\* UPDATE stage_runs SET status = .. WHERE id = ..: whatever it was before.
ReportStage(e) ==
  LET r == RunOf[e]
      i == NextStage(e)
      result == IF pc[e] = "succeeded" THEN "success" ELSE "failed"
  IN
  /\ pc[e] \in {"succeeded", "failed"}
  /\ stageStatus' = [stageStatus EXCEPT ![r][i] = IF @ = "deleted" THEN @ ELSE result]
  /\ IF pc[e] = "succeeded"
       THEN Goto(e, "stages") /\ todo' = [todo EXCEPT ![e] = @ \ {i}]
       ELSE Goto(e, "skipRest") /\ UNCHANGED todo
  /\ UNCHANGED <<runStatus, claimant, running, cancelled, lockVars, CallVars>>

SkipRest(e) ==
  /\ pc[e] = "skipRest"
  /\ stageStatus' = [stageStatus EXCEPT ![RunOf[e]] = Replace(@, "pending", "skipped")]
  /\ Goto(e, "failRun")
  /\ UNCHANGED <<runStatus, claimant, running, cancelled, lockVars, todo, CallVars>>

\* UPDATE pipeline_runs SET status = 'failed' WHERE id = ..: no condition on status.
FailRun(e) ==
  /\ pc[e] = "failRun"
  /\ runStatus' = [runStatus EXCEPT ![RunOf[e]] = IF @ = "deleted" THEN @ ELSE "failed"]
  /\ Return(e, "leaving")
  /\ UNCHANGED <<stageStatus, claimant, running, cancelled, todo, CallVars>>

\* All stages done: UPDATE .. 'success' WHERE status = 'running'.
Finish(e) ==
  LET r == RunOf[e] IN
  /\ pc[e] = "stages"
  /\ todo[e] = {}
  /\ \/ ReturnIfCancelled(e)
     \/ /\ e \notin cancelled
        /\ ReplaceRun(r, "running", "success")
        /\ Return(e, IF runStatus[r] = "running" THEN "leaving" ELSE "failing")
        /\ UNCHANGED <<stageStatus, claimant, running, cancelled, todo>>
  /\ UNCHANGED CallVars

\* Errors that are not the database's: the workspace, git and its credentials,
\* an invalid command or timeout, the executor.
WorkFails(e) ==
  /\ pc[e] \in {"prepare", "sync", "command"}
  /\ Return(e, "failing")
  /\ UNCHANGED <<dbVars, running, cancelled, todo, CallVars>>

\* A statement of execute_inner fails and ? returns its error.
StatementFails(e) ==
  /\ pc[e] \in {"select", "claim"} \cup Claimed
  /\ dbErrors < MaxDbErrors
  /\ dbErrors' = dbErrors + 1
  /\ Return(e, "failing")
  /\ UNCHANGED <<dbVars, running, cancelled, todo, cancelState, crashes>>

-----------------------------------------------------------------------------
(* execute_mode, after execute_inner has returned                          *)

\* fail_running_run and cancel_running_run: one transaction each.
Settle(e) ==
  LET r == RunOf[e]
      status == IF pc[e] = "failing" THEN "failed" ELSE "cancelled"
  IN
  /\ pc[e] \in Settling
  /\ stageStatus' = [stageStatus EXCEPT
       ![r] = Replace(Replace(@, "running", status), "pending", "skipped")]
  /\ ReplaceRun(r, "running", status)
  /\ Goto(e, "leaving")
  /\ UNCHANGED <<claimant, running, cancelled, lockVars, todo, CallVars>>

\* let _ = fail_running_run(..).await: an error is dropped.
SettleFails(e) ==
  /\ pc[e] \in Settling
  /\ dbErrors < MaxDbErrors
  /\ dbErrors' = dbErrors + 1
  /\ Goto(e, "leaving")
  /\ UNCHANGED <<dbVars, running, cancelled, lockVars, todo, cancelState, crashes>>

\* remove_running(run_id): the run's entry, whoever registered it.
Leave(e) ==
  /\ pc[e] = "leaving"
  /\ running' = [running EXCEPT ![RunOf[e]] = None]
  /\ Goto(e, "done")
  /\ UNCHANGED <<dbVars, cancelled, lockVars, todo, CallVars>>

-----------------------------------------------------------------------------
(* Cancellation, deletion and restart                                      *)

CancelRows(r) ==
  /\ ReplaceRun(r, "pending", "cancelled")
  /\ stageStatus' = [stageStatus EXCEPT ![r] =
       IF runStatus[r] = "pending" THEN Replace(@, "pending", "cancelled") ELSE @]

\* PipelineEngine::cancel looks for the token in the running map ..
CancelToken(c) ==
  LET e == running[RunOf[c]] IN
  /\ cancelState[c] = "idle"
  /\ IF e # None
       THEN cancelled' = cancelled \cup {e} /\ cancelState' = [cancelState EXCEPT ![c] = "true"]
       ELSE cancelState' = [cancelState EXCEPT ![c] = "missed"] /\ UNCHANGED cancelled
  /\ UNCHANGED <<dbVars, running, lockVars, pc, todo, dbErrors, crashes>>

\* .. and without one cancels the run if it is still pending.
CancelPending(c) ==
  LET r == RunOf[c] IN
  /\ cancelState[c] = "missed"
  /\ CancelRows(r)
  /\ cancelState' = [cancelState EXCEPT
       ![c] = IF runStatus[r] = "pending" THEN "true" ELSE "false"]
  /\ UNCHANGED <<claimant, running, cancelled, lockVars, pc, todo, dbErrors, crashes>>

CancelFails(c) ==
  /\ cancelState[c] = "missed"
  /\ dbErrors < MaxDbErrors
  /\ dbErrors' = dbErrors + 1
  /\ cancelState' = [cancelState EXCEPT ![c] = "false"]
  /\ UNCHANGED <<dbVars, running, cancelled, lockVars, pc, todo, crashes>>

\* POST /pipeline-runs/{id}/cancel knows the rows only.
ApiCancel(r) ==
  /\ runStatus[r] = "pending"
  /\ CancelRows(r)
  /\ UNCHANGED <<claimant, running, cancelled, lockVars, pc, todo, CallVars>>

\* DELETE FROM projects cascades to pipeline_runs and stage_runs.
DeleteProject(p) ==
  LET gone == {r \in Runs : ProjectOf[r] = p} IN
  /\ \E r \in gone : runStatus[r] # "deleted"
  /\ runStatus' = [r \in Runs |-> IF r \in gone THEN "deleted" ELSE runStatus[r]]
  /\ stageStatus' = [r \in Runs |->
       IF r \in gone THEN [i \in Stages |-> "deleted"] ELSE stageStatus[r]]
  /\ UNCHANGED <<claimant, running, cancelled, lockVars, pc, todo, CallVars>>

\* The process ends and starts again: the calls in progress, the map and the
\* permits are gone, the rows stay as they were.
Restart ==
  /\ crashes < MaxCrashes
  /\ crashes' = crashes + 1
  /\ pc' = [e \in Executions |-> IF pc[e] \in {"select", "done"} THEN pc[e] ELSE "dead"]
  /\ cancelState' = [c \in Cancels |->
       IF cancelState[c] = "missed" THEN "dead" ELSE cancelState[c]]
  /\ running' = [r \in Runs |-> None]
  /\ projectLock' = [p \in Projects |-> None]
  /\ freeSlots' = Slots
  /\ UNCHANGED <<dbVars, cancelled, todo, dbErrors>>

\* Nothing is in progress any more.
Finished ==
  /\ \A e \in Executions : pc[e] \in {"done", "dead"}
  /\ \A c \in Cancels : cancelState[c] \in {"true", "false", "dead"}

Quiesce == Finished /\ UNCHANGED vars

Execute(e) ==
  \/ Select(e) \/ AcquireProject(e) \/ AcquireSlot(e) \/ Register(e) \/ Claim(e)
  \/ Prepare(e) \/ Sync(e) \/ Record(e)
  \/ BeginStage(e) \/ EndCommand(e) \/ ReportStage(e) \/ SkipRest(e) \/ FailRun(e)
  \/ Finish(e) \/ WorkFails(e)
  \/ Settle(e) \/ Leave(e)

CancelCall(c) == CancelToken(c) \/ CancelPending(c)

Next ==
  \/ \E e \in Executions : Execute(e) \/ StatementFails(e) \/ SettleFails(e)
  \/ \E c \in Cancels : CancelCall(c) \/ CancelFails(c)
  \/ \E r \in Runs : ApiCancel(r)
  \/ \E p \in Deletable : DeleteProject(p)
  \/ Restart
  \/ Quiesce

Spec == Init /\ [][Next]_vars

\* The runtime polls every task that can go on; commands and git end because
\* the executor stops them at their timeout.
Fairness ==
  /\ \A e \in Executions : WF_vars(Execute(e))
  /\ \A c \in Cancels : WF_vars(CancelCall(c))

FairSpec == Spec /\ Fairness

-----------------------------------------------------------------------------
(* Safety                                                                  *)

\* The form of every state; the slot counter stays between 0 and the limit.
TypeOK ==
  /\ runStatus \in [Runs -> RunStatuses]
  /\ stageStatus \in [Runs -> [Stages -> StageStatuses]]
  /\ claimant \in [Runs -> Executions \cup {None}]
  /\ running \in [Runs -> Executions \cup {None}]
  /\ cancelled \subseteq Executions
  /\ projectLock \in [Projects -> Executions \cup {None}]
  /\ freeSlots \in 0 .. Slots
  /\ pc \in [Executions -> Labels]
  /\ todo \in [Executions -> SUBSET Stages]
  /\ cancelState \in [Cancels -> CancelStates]
  /\ dbErrors \in 0 .. MaxDbErrors
  /\ crashes \in 0 .. MaxCrashes

\* runs_from_the_same_project_do_not_execute_concurrently: from its permit to
\* the return of execute_inner an execution is alone in its project.
ProjectExclusive ==
  \A d, e \in Executions :
    /\ pc[d] \in HoldsProject
    /\ pc[e] \in HoldsProject
    /\ ProjectOfExec(d) = ProjectOfExec(e)
    => d = e

\* The server executes at most max(1, max_concurrency) runs at once, however
\* executions are cancelled, fail or return early.
ConcurrencyBound ==
  Cardinality({e \in Executions : pc[e] \in HoldsSlot}) <= Slots

\* Past its claim an execution is the only one the run ever had: no duplicate,
\* retry or restart makes a second execution run a stage of it.
OnlyClaimantExecutes ==
  \A e \in Executions : pc[e] \in Claimed => claimant[RunOf[e]] = e

\* A run that was claimed keeps its claimant: duplicates, failures, deletion
\* and restarts never let a second execution claim it.
ClaimedOnce ==
  [][\A r \in Runs : claimant[r] # None => claimant'[r] = claimant[r]]_vars

\* A final status is never overwritten, although the engine writes 'failed'
\* without looking at the row (FailRun) and duplicates settle the same run.
TerminalIsFinal ==
  [][\A r \in Runs : runStatus[r] \in Terminal =>
       runStatus'[r] \in {runStatus[r], "deleted"}]_vars

\* A run with its final status leaves no stage pending or running, whoever
\* settled the run and wherever the executing call stood.
TerminalRunSettled ==
  \A r \in Runs : runStatus[r] \in Terminal =>
    \A i \in Stages : stageStatus[r][i] \notin {"pending", "running"}

\* The claim of a stage looks at the stage row alone; the run it belongs to is
\* nevertheless running: a run cancelled or failed by someone else starts nothing.
StageStartsInRunningRun ==
  [][\A r \in Runs : \A i \in Stages :
       stageStatus[r][i] = "pending" /\ stageStatus'[r][i] = "running"
         => runStatus[r] = "running"]_vars

\* Stages run one after the other: a stage that was started had every enabled
\* stage before it succeed.
StagesInOrder ==
  \A r \in Runs : \A i, j \in Enabled[r] :
    /\ stageStatus[r][i] \in {"running", "success", "failed"}
    /\ j < i
    => stageStatus[r][j] = "success"

\* success sums up the stages: every enabled stage succeeded.
SuccessMeansAllStages ==
  \A r \in Runs : runStatus[r] = "success" =>
    \A i \in Enabled[r] : stageStatus[r][i] = "success"

\* Every way out of an execution returns its permits and its map entry: once
\* the calls of a process have ended nothing is held.
NothingHeldAtTheEnd ==
  Finished =>
    /\ \A r \in Runs : running[r] = None
    /\ \A p \in Projects : projectLock[p] = None
    /\ freeSlots = Slots

\* A run that is running has its claimant at work on it or about to settle
\* it.  Nothing but a restart, or a statement that failed, ever leaves a row
\* 'running' that nobody works on: no early return of execute_inner, duplicate
\* or cancellation does.
OnlyFaultsAbandon ==
  \A r \in Runs : runStatus[r] = "running" =>
    /\ claimant[r] # None
    /\ \/ pc[claimant[r]] \in Claimed \cup Settling
       \/ pc[claimant[r]] = "dead" \/ dbErrors > 0

\* Without failing statements the status a stage ended with is final too.
StageResultIsFinal ==
  [][\A r \in Runs : \A i \in Stages :
       stageStatus[r][i] \notin {"pending", "running"} =>
         stageStatus'[r][i] \in {stageStatus[r][i], "deleted"}]_vars

\* Without failing statements a duplicate can settle a run only after the
\* execution that claimed it has stopped working on it.
DuplicateNeverInterrupts ==
  [][\A e \in Executions :
       /\ pc[e] \in Claimed
       /\ pc'[e] = pc[e]
       /\ runStatus[RunOf[e]] = "running"
       => runStatus'[RunOf[e]] \in {"running", "deleted"}]_vars

\* The rows behave as RunLifecycle promises, under concurrent calls, failing
\* statements, deletion and restarts.
Lifecycle == INSTANCE RunLifecycle
ImplementsLifecycle == Lifecycle!Spec

\* Executions use the project permits as the abstract mutex allows;
\* ProjectLocks implements the same mutex with the map of weak semaphores.
Mutex == INSTANCE ProjectMutex WITH
  Tasks <- Executions,
  ProjectOfTask <- [e \in Executions |-> ProjectOfExec(e)],
  holder <- projectLock
ImplementsMutex == Mutex!Spec

-----------------------------------------------------------------------------
(* Statements of the repository's tests and design document that the code  *)
(* does not keep.                                                          *)

\* Design document, section 63: a running run whose cancellation was accepted
\* ends as CANCELLED.
AcceptedCancelEndsCancelled ==
  [][\A e \in cancelled :
       runStatus[RunOf[e]] = "running" =>
         runStatus'[RunOf[e]] \in {"running", "cancelled", "deleted"}]_vars

\* tests/pipeline_engine.rs: assert!(engine.cancel(&run_id).await) while the
\* run executes: the token of an executing run can be found.
ExecutingRunIsCancellable ==
  \A e \in Executions : pc[e] \in Claimed => running[RunOf[e]] = e

-----------------------------------------------------------------------------
(* Liveness                                                                *)

\* Every call of execute returns: neither the permits, nor a duplicate, nor a
\* cancellation leaves one waiting.
ExecutionsReturn == \A e \in Executions : <>(pc[e] = "done")

\* Without failing statements and restarts a claimed run gets its final status.
RunningRunSettles ==
  \A r \in Runs : runStatus[r] = "running" ~> runStatus[r] \in Terminal \cup {"deleted"}
=============================================================================

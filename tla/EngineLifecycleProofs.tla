----------------------- MODULE EngineLifecycleProofs -----------------------
(***************************************************************************)
(* PipelineEngine implements RunLifecycle, and what the order of the       *)
(* stages, the permits at the end and the absence of failing statements    *)
(* rest on.  IInv of PipelineEngineProofs says which stages may be pending *)
(* or running; here it is strengthened by what they were before.           *)
(***************************************************************************)
EXTENDS PipelineEngineProofs

\* The execution has read the stage rows and has no failed stage yet.
InLoop == {"sync", "record", "stages", "command", "succeeded", "failed"}

Unstarted(r) ==
  runStatus[r] # "deleted" =>
    \A i \in Enabled[r] : stageStatus[r][i] \in {"pending", "skipped"}

\* What is done succeeded, what is to do was never started, and the stage in
\* flight is running, or was failed together with its run by someone else.
Progress(e) ==
  LET r == RunOf[e] IN
  runStatus[r] # "deleted" =>
    /\ MayBeRunning(e) \subseteq todo[e]
    /\ todo[e] \subseteq Enabled[r]
    /\ \A i \in Enabled[r] \ todo[e] : stageStatus[r][i] = "success"
    /\ \A i \in todo[e] \ MayBeRunning(e) : stageStatus[r][i] \in {"pending", "skipped"}
    /\ \A i \in MayBeRunning(e) :
         \/ stageStatus[r][i] = "running"
         \/ stageStatus[r][i] = "failed" /\ runStatus[r] = "failed"

ProgressInv ==
  /\ \A r \in Runs : runStatus[r] = "pending" => Unstarted(r)
  /\ \A e \in Executions : pc[e] = "prepare" => Unstarted(RunOf[e])
  /\ \A e \in Executions : pc[e] \in InLoop => Progress(e)

-----------------------------------------------------------------------------
(* Steps that do not belong to the execution that claimed the run.         *)

Same(r) == runStatus'[r] = runStatus[r] /\ stageStatus'[r] = stageStatus[r]

\* fail_running_run by an execution that did not claim the run.
SettledAsFailed(r) ==
  /\ runStatus'[r] = IF runStatus[r] = "running" THEN "failed" ELSE runStatus[r]
  /\ \A i \in Stages :
       stageStatus'[r][i] = IF stageStatus[r][i] = "running" THEN "failed"
                            ELSE IF stageStatus[r][i] = "pending" THEN "skipped"
                            ELSE stageStatus[r][i]

\* What a run may suffer from a step of someone else.
Foreign(r) == Same(r) \/ SettledAsFailed(r) \/ runStatus'[r] = "deleted"

LEMMA EnabledType == \A r \in Runs : Enabled[r] \subseteq Stages
  BY EngineAssumption DEF Stages

LEMMA UnstartedStays ==
  ASSUME NEW r \in Runs, Unstarted(r), Foreign(r)
  PROVE  Unstarted(r)'
<1>1. CASE runStatus'[r] = "deleted"
  BY <1>1 DEF Unstarted
<1>2. CASE runStatus'[r] # "deleted" /\ Same(r)
  BY <1>2 DEF Unstarted, Same
<1>3. CASE runStatus'[r] # "deleted" /\ SettledAsFailed(r)
  BY <1>3, EnabledType DEF Unstarted, SettledAsFailed
<1> QED
  BY <1>1, <1>2, <1>3 DEF Foreign

LEMMA ProgressStays ==
  ASSUME NEW e \in Executions, Progress(e), Foreign(RunOf[e]),
         runStatus[RunOf[e]] \in {"running", "failed", "deleted"},
         pc'[e] = pc[e], todo'[e] = todo[e]
  PROVE  Progress(e)'
<1> DEFINE r == RunOf[e]
<1>0. /\ MayBeRunning(e)' = MayBeRunning(e)
      /\ r \in Runs
      /\ Enabled[r] \subseteq Stages
  BY RunOfType, EnabledType DEF MayBeRunning, NextStage
<1>1. CASE runStatus'[r] = "deleted"
  BY <1>1 DEF Progress
<1>2. CASE runStatus'[r] # "deleted" /\ Same(r)
  BY <1>0, <1>2 DEF Progress, Same
<1>3. CASE runStatus'[r] # "deleted" /\ SettledAsFailed(r)
  <2>1. runStatus[r] # "deleted" /\ runStatus'[r] = "failed"
    BY <1>3 DEF SettledAsFailed
  <2>2. /\ MayBeRunning(e) \subseteq todo[e]
        /\ todo[e] \subseteq Enabled[r]
    BY <2>1 DEF Progress
  <2>3. \A i \in Enabled[r] \ todo[e] : stageStatus'[r][i] = "success"
    BY <1>0, <1>3, <2>1 DEF Progress, SettledAsFailed
  <2>4. \A i \in todo[e] \ MayBeRunning(e) : stageStatus'[r][i] \in {"pending", "skipped"}
    BY <1>0, <1>3, <2>1, <2>2 DEF Progress, SettledAsFailed
  <2>5. \A i \in MayBeRunning(e) : stageStatus'[r][i] = "failed"
    BY <1>0, <1>3, <2>1, <2>2 DEF Progress, SettledAsFailed
  <2> QED
    BY <1>0, <2>1, <2>2, <2>3, <2>4, <2>5 DEF Progress
<1> QED
  BY <1>1, <1>2, <1>3 DEF Foreign

\* The rows of a run are written by the execution that claimed it; from others
\* the run suffers a claim, if it is pending, and fail_running_run.
LEMMA ForeignRuns ==
  ASSUME Types, NEW e \in Executions,
         Execute(e) \/ StatementFails(e) \/ SettleFails(e),
         NEW r \in Runs,
         pc[e] \in Claimed \cup {"cancelling"} => RunOf[e] # r,
         runStatus[r] = "pending" => runStatus'[r] = "pending"
  PROVE  Foreign(r)
<1> USE RunOfType DEF dbVars, Types, Foreign, Same
<1>1. CASE Claim(e)
  BY <1>1 DEF Claim
<1>2. CASE Settle(e)
  <2>1. CASE RunOf[e] # r
    BY <1>2, <2>1 DEF Settle, ReplaceRun
  <2>2. CASE RunOf[e] = r
    <3>1. pc[e] = "failing"
      BY <1>2, <2>2 DEF Settle, Settling
    <3>2. /\ stageStatus' = [stageStatus EXCEPT
               ![r] = Replace(Replace(@, "running", "failed"), "pending", "skipped")]
          /\ runStatus' = [runStatus EXCEPT ![r] = IF @ = "running" THEN "failed" ELSE @]
      BY <1>2, <2>2, <3>1 DEF Settle, ReplaceRun
    <3> QED
      BY <3>2 DEF Replace, SettledAsFailed
  <2> QED
    BY <2>1, <2>2
<1>3. CASE BeginStage(e) \/ ReportStage(e) \/ SkipRest(e) \/ FailRun(e) \/ Finish(e)
  <2>1. RunOf[e] # r
    BY <1>3 DEF BeginStage, ReportStage, SkipRest, FailRun, Finish, Claimed, Looping
  <2>2. CASE BeginStage(e)
    BY <2>1, <2>2 DEF BeginStage, ReturnIfCancelled
  <2>3. CASE ReportStage(e)
    BY <2>1, <2>3 DEF ReportStage
  <2>4. CASE SkipRest(e) \/ FailRun(e)
    BY <2>1, <2>4 DEF SkipRest, FailRun
  <2>5. CASE Finish(e)
    BY <2>1, <2>5 DEF Finish, ReturnIfCancelled, ReplaceRun
  <2> QED
    BY <1>3, <2>2, <2>3, <2>4, <2>5
<1>4. CASE ~(Claim(e) \/ Settle(e) \/ BeginStage(e) \/ ReportStage(e) \/ SkipRest(e)
             \/ FailRun(e) \/ Finish(e))
  BY <1>4
  DEF Execute, Select, AcquireProject, AcquireSlot, Register, Prepare, Sync, Record,
      EndCommand, WorkFails, Leave, StatementFails, SettleFails, ReturnIfCancelled
<1> QED
  BY <1>1, <1>2, <1>3, <1>4

-----------------------------------------------------------------------------
(* ProgressInv is inductive together with IInv.                            *)

\* What the step of e has to establish for e itself.
OwnProgress(e) ==
  /\ pc[e] = "prepare" => Unstarted(RunOf[e])
  /\ pc[e] \in InLoop => Progress(e)

\* The statements before the loop, and the end of a command, write no row.
LEMMA QuietProgress ==
  ASSUME NEW e \in Executions, Progress(e), UNCHANGED <<runStatus, stageStatus, todo>>,
         MayBeRunning(e)' = MayBeRunning(e)
  PROVE  Progress(e)'
  BY DEF Progress

LEMMA PrepareProgress ==
  ASSUME Types, NEW e \in Executions, Prepare(e), Unstarted(RunOf[e])
  PROVE  OwnProgress(e)'
<1> DEFINE r == RunOf[e]
<1>1. CASE ReturnIfCancelled(e)
  BY <1>1 DEF ReturnIfCancelled, Return, Goto, OwnProgress, InLoop, Types
<1>2. CASE ~ReturnIfCancelled(e)
  <2>1. /\ UNCHANGED <<runStatus, stageStatus>>
        /\ todo'[e] = IF runStatus[r] = "deleted" THEN {} ELSE Enabled[r]
        /\ pc'[e] \in {"sync", "stages"}
    BY <1>2 DEF Prepare, Goto, dbVars, Types
  <2>2. MayBeRunning(e)' = {}
    BY <2>1 DEF MayBeRunning
  <2>3. Progress(e)'
    BY <2>1, <2>2 DEF Progress, Unstarted
  <2> QED
    BY <2>1, <2>3 DEF OwnProgress
<1> QED
  BY <1>1, <1>2

LEMMA BeginStageProgress ==
  ASSUME Types, NEW e \in Executions, BeginStage(e), Progress(e)
  PROVE  OwnProgress(e)'
<1> DEFINE r == RunOf[e]
           i == NextStage(e)
<1> USE RunOfType
<1>1. CASE pc'[e] # "command"
  BY <1>1 DEF BeginStage, ReturnIfCancelled, Return, Goto, OwnProgress, InLoop, Types
<1>2. CASE pc'[e] = "command"
  <2>1. /\ pc[e] = "stages" /\ todo[e] # {}
        /\ stageStatus[r][i] = "pending"
        /\ stageStatus' = [stageStatus EXCEPT ![r][i] = "running"]
        /\ UNCHANGED <<runStatus, todo>>
    BY <1>2 DEF BeginStage, ReturnIfCancelled, Return, Goto, Types
  <2>2. i \in todo[e] /\ i \in Stages
    <3>1. todo[e] \in SUBSET Stages /\ Stages \subseteq Nat
      BY EngineAssumption DEF Types, Stages
    <3> QED
      BY <2>1, <3>1, LeastIsLeast DEF NextStage
  <2>3. MayBeRunning(e)' = {i} /\ MayBeRunning(e) = {}
    BY <1>2, <2>1 DEF MayBeRunning, NextStage
  <2>4. /\ stageStatus'[r][i] = "running"
        /\ \A j \in Stages : j # i => stageStatus'[r][j] = stageStatus[r][j]
    BY <2>1, <2>2 DEF Types
  <2>5. Progress(e)'
    BY <2>1, <2>2, <2>3, <2>4, EnabledType DEF Progress
  <2> QED
    BY <1>2, <2>5 DEF OwnProgress
<1> QED
  BY <1>1, <1>2

LEMMA ReportStageProgress ==
  ASSUME Types, NEW e \in Executions, ReportStage(e), Progress(e)
  PROVE  OwnProgress(e)'
<1> DEFINE r == RunOf[e]
           i == NextStage(e)
<1> USE RunOfType
<1>1. CASE pc[e] = "failed"
  BY <1>1 DEF ReportStage, Goto, OwnProgress, InLoop, Types
<1>2. CASE pc[e] = "succeeded"
  <2>1. /\ pc'[e] = "stages"
        /\ todo'[e] = todo[e] \ {i}
        /\ UNCHANGED runStatus
        /\ stageStatus' = [stageStatus EXCEPT ![r][i] = IF @ = "deleted" THEN @ ELSE "success"]
    BY <1>2 DEF ReportStage, Goto, Types
  <2>2. MayBeRunning(e) = {i} /\ MayBeRunning(e)' = {}
    BY <1>2, <2>1 DEF MayBeRunning
  <2>3. CASE runStatus[r] # "deleted"
    <3>1. i \in todo[e] /\ i \in Stages /\ stageStatus[r][i] \in {"running", "failed"}
      BY <2>2, <2>3, EnabledType DEF Progress
    <3>2. /\ stageStatus'[r][i] = "success"
          /\ \A j \in Stages : j # i => stageStatus'[r][j] = stageStatus[r][j]
      BY <2>1, <3>1 DEF Types
    <3> QED
      BY <2>1, <2>2, <2>3, <3>1, <3>2, EnabledType DEF Progress, OwnProgress
  <2>4. CASE runStatus[r] = "deleted"
    BY <2>1, <2>4 DEF Progress, OwnProgress
  <2> QED
    BY <2>3, <2>4
<1> QED
  BY <1>1, <1>2 DEF ReportStage

LEMMA ExecuteOwnProgress ==
  ASSUME Types, ProgressInv, NEW e \in Executions,
         Execute(e) \/ StatementFails(e) \/ SettleFails(e)
  PROVE  OwnProgress(e)'
<1> USE RunOfType DEF InLoop
<1>1. CASE Claim(e)
  <2>1. pc'[e] = "prepare" => runStatus[RunOf[e]] = "pending" /\ runStatus'[RunOf[e]] = "running"
    BY <1>1 DEF Claim, Return, Goto, Types
  <2>2. pc'[e] \in {"prepare", "leaving"} /\ UNCHANGED stageStatus
    BY <1>1 DEF Claim, Return, Goto, Types
  <2> QED
    BY <2>1, <2>2 DEF OwnProgress, ProgressInv, Unstarted
<1>2. CASE Prepare(e)
  BY <1>2, PrepareProgress DEF ProgressInv, Prepare
<1>3. CASE Sync(e) \/ Record(e) \/ EndCommand(e)
  <2>1. CASE pc'[e] \notin InLoop
    BY <1>3, <2>1
    DEF Sync, Record, EndCommand, ReturnIfCancelled, Return, Goto, Types, OwnProgress
  <2>2. CASE pc'[e] \in InLoop
    <3>1. /\ pc[e] \in InLoop
          /\ UNCHANGED <<runStatus, stageStatus, todo>>
      BY <1>3 DEF Sync, Record, EndCommand, ReturnIfCancelled, dbVars
    <3>2. pc[e] = "command" <=> pc'[e] \in {"command", "succeeded", "failed"}
      BY <1>3, <2>2 DEF Sync, Record, EndCommand, ReturnIfCancelled, Return, Goto, Types
    <3>3. pc[e] \notin {"succeeded", "failed"}
      BY <1>3 DEF Sync, Record, EndCommand
    <3>4. MayBeRunning(e)' = MayBeRunning(e)
      BY <3>1, <3>2, <3>3 DEF MayBeRunning, NextStage
    <3> QED
      BY <2>2, <3>1, <3>4, QuietProgress DEF ProgressInv, OwnProgress
  <2> QED
    BY <2>1, <2>2
<1>4. CASE BeginStage(e)
  BY <1>4, BeginStageProgress DEF ProgressInv, BeginStage
<1>5. CASE ReportStage(e)
  BY <1>5, ReportStageProgress DEF ProgressInv, ReportStage
<1>6. CASE ~(Claim(e) \/ Prepare(e) \/ Sync(e) \/ Record(e) \/ EndCommand(e)
             \/ BeginStage(e) \/ ReportStage(e))
  <2>1. pc'[e] \notin {"prepare"} \cup InLoop
    BY <1>6
    DEF Execute, Select, AcquireProject, AcquireSlot, Register, SkipRest, FailRun, Finish,
        WorkFails, Settle, Leave, StatementFails, SettleFails, ReturnIfCancelled, Return, Goto,
        Types
  <2> QED
    BY <2>1 DEF OwnProgress
<1> QED
  BY <1>1, <1>2, <1>3, <1>4, <1>5, <1>6

LEMMA ExecuteFrame ==
  ASSUME Types, NEW e \in Executions,
         Execute(e) \/ StatementFails(e) \/ SettleFails(e)
  PROVE  /\ \A d \in Executions : d # e => pc'[d] = pc[d] /\ todo'[d] = todo[d]
         /\ \A r \in Runs : runStatus'[r] = "pending" => runStatus[r] = "pending"
<1> USE RunOfType DEF Goto, Return, ReturnIfCancelled, dbVars, Types
<1>1. CASE Select(e) \/ AcquireProject(e) \/ AcquireSlot(e) \/ Register(e) \/ Sync(e)
           \/ Record(e)
  BY <1>1 DEF Select, AcquireProject, AcquireSlot, Register, Sync, Record
<1>2. CASE Claim(e) \/ Prepare(e)
  BY <1>2 DEF Claim, Prepare
<1>3. CASE BeginStage(e) \/ EndCommand(e) \/ ReportStage(e) \/ SkipRest(e) \/ FailRun(e)
  BY <1>3 DEF BeginStage, EndCommand, ReportStage, SkipRest, FailRun
<1>4. CASE Finish(e) \/ Settle(e)
  BY <1>4 DEF Finish, Settle, ReplaceRun
<1>5. CASE WorkFails(e) \/ Leave(e) \/ StatementFails(e) \/ SettleFails(e)
  BY <1>5 DEF WorkFails, Leave, StatementFails, SettleFails
<1> QED
  BY <1>1, <1>2, <1>3, <1>4, <1>5 DEF Execute

\* An execution that works on a run is not the one another execution works on.
LEMMA OthersRun ==
  ASSUME ClaimInv, NEW e \in Executions, pc[e] \in Claimed \cup {"cancelling"}
  PROVE  /\ \A d \in Executions : d # e /\ pc[d] \in Claimed => RunOf[d] # RunOf[e]
         /\ runStatus[RunOf[e]] # "pending"
  BY RunOfType, EngineAssumption DEF ClaimInv

LEMMA ExecuteProgress ==
  ASSUME Types, ClaimInv, ProgressInv, NEW e \in Executions,
         Execute(e) \/ StatementFails(e) \/ SettleFails(e)
  PROVE  ProgressInv'
<1>1. ASSUME NEW r \in Runs, runStatus'[r] = "pending" PROVE Unstarted(r)'
  <2>1. runStatus[r] = "pending"
    BY <1>1, ExecuteFrame
  <2>2. Foreign(r)
    BY <1>1, <2>1, OthersRun, ForeignRuns
  <2> QED
    BY <2>1, <2>2, UnstartedStays DEF ProgressInv
<1>2. ASSUME NEW d \in Executions, d # e PROVE OwnProgress(d)'
  <2>1. pc'[d] = pc[d] /\ todo'[d] = todo[d]
    BY <1>2, ExecuteFrame
  <2>2. CASE pc[d] \in {"prepare"} \cup InLoop
    <3>1. pc[d] \in Claimed
      BY <2>2 DEF InLoop, Claimed, Looping
    <3>2. /\ RunOf[d] \in Runs
          /\ runStatus[RunOf[d]] \in {"running", "failed", "deleted"}
      BY <3>1, RunOfType DEF ClaimInv
    <3>3. Foreign(RunOf[d])
      <4>1. pc[e] \in Claimed \cup {"cancelling"} => RunOf[e] # RunOf[d]
        BY <1>2, <3>1, OthersRun
      <4>2. runStatus[RunOf[d]] # "pending"
        BY <3>2
      <4> QED
        BY <3>2, <4>1, <4>2, ForeignRuns
    <3> QED
      BY <2>1, <2>2, <3>2, <3>3, UnstartedStays, ProgressStays
      DEF OwnProgress, ProgressInv, InLoop
  <2>3. CASE pc[d] \notin {"prepare"} \cup InLoop
    BY <2>1, <2>3 DEF OwnProgress
  <2> QED
    BY <2>2, <2>3
<1> QED
  BY <1>1, <1>2, ExecuteOwnProgress DEF ProgressInv, OwnProgress

LEMMA CancelRowsProgress ==
  ASSUME Types, ClaimInv, ProgressInv, NEW r \in Runs, CancelRows(r), UNCHANGED <<pc, todo>>
  PROVE  ProgressInv'
<1>1. runStatus' = [runStatus EXCEPT ![r] = IF @ = "pending" THEN "cancelled" ELSE @]
  BY DEF CancelRows, ReplaceRun
<1>2. /\ \A q \in Runs : q # r \/ runStatus[q] # "pending" => Same(q)
      /\ runStatus'[r] # "pending"
  BY <1>1 DEF CancelRows, Same, Types
<1>3. \A d \in Executions : pc[d] \in Claimed => runStatus[RunOf[d]] # "pending"
  BY RunOfType DEF ClaimInv
<1>4. \A d \in Executions : pc[d] \in {"prepare"} \cup InLoop => Same(RunOf[d])
  BY <1>2, <1>3, RunOfType DEF Claimed, Looping, InLoop
<1>5. \A d \in Executions : pc'[d] = "prepare" => Unstarted(RunOf[d])'
  BY <1>4, RunOfType, UnstartedStays DEF ProgressInv, Foreign
<1>6. \A d \in Executions : pc'[d] \in InLoop => Progress(d)'
  BY <1>4, RunOfType, ProgressStays DEF ProgressInv, Foreign, ClaimInv, InLoop, Claimed, Looping
<1>7. \A q \in Runs : runStatus'[q] = "pending" => Unstarted(q)'
  BY <1>2, UnstartedStays DEF ProgressInv, Foreign, Same
<1> QED
  BY <1>5, <1>6, <1>7 DEF ProgressInv

\* Steps after which a run is as it was or deleted.
LEMMA FrameProgress ==
  ASSUME ClaimInv, ProgressInv, UNCHANGED <<pc, todo>>,
         \A r \in Runs : Same(r) \/ runStatus'[r] = "deleted"
  PROVE  ProgressInv'
<1>1. \A d \in Executions : pc'[d] = "prepare" => Unstarted(RunOf[d])'
  BY RunOfType, UnstartedStays DEF ProgressInv, Foreign
<1>2. \A d \in Executions : pc'[d] \in InLoop => Progress(d)'
  BY RunOfType, ProgressStays DEF ProgressInv, Foreign, ClaimInv, InLoop, Claimed, Looping
<1>3. \A q \in Runs : runStatus'[q] = "pending" => Unstarted(q)'
  BY UnstartedStays DEF ProgressInv, Foreign, Same
<1> QED
  BY <1>1, <1>2, <1>3 DEF ProgressInv

LEMMA NextProgress ==
  ASSUME Types, ClaimInv, ProgressInv, [Next]_vars
  PROVE  ProgressInv'
<1> USE DEF dbVars, lockVars, CallVars
<1>1. ASSUME NEW c \in Cancels, CancelToken(c) \/ CancelFails(c) PROVE ProgressInv'
  BY <1>1, FrameProgress DEF CancelToken, CancelFails, Same
<1>2. ASSUME NEW c \in Cancels, CancelPending(c) PROVE ProgressInv'
  BY <1>2, CancelRowsProgress, RunOfType DEF CancelPending
<1>3. ASSUME NEW r \in Runs, ApiCancel(r) PROVE ProgressInv'
  BY <1>3, CancelRowsProgress DEF ApiCancel
<1>4. ASSUME NEW p \in Deletable, DeleteProject(p) PROVE ProgressInv'
  <2>1. UNCHANGED <<pc, todo>> /\ \A r \in Runs : Same(r) \/ runStatus'[r] = "deleted"
    BY <1>4 DEF DeleteProject, Same
  <2> QED
    BY <2>1, FrameProgress
<1>5. CASE Restart
  <2>1. /\ \A d \in Executions : pc'[d] \notin {"prepare"} \cup InLoop
        /\ UNCHANGED <<runStatus, stageStatus>>
    BY <1>5 DEF Restart, InLoop
  <2> QED
    BY <2>1 DEF ProgressInv, Unstarted
<1>6. CASE Quiesce \/ UNCHANGED vars
  BY <1>6, FrameProgress DEF Quiesce, vars, Same
<1> QED
  BY <1>1, <1>2, <1>3, <1>4, <1>5, <1>6, ExecuteProgress DEF Next, CancelCall

LEMMA InitProgress == Init => ProgressInv
<1> SUFFICES ASSUME Init PROVE ProgressInv
  OBVIOUS
<1>1. \A r \in Runs : Unstarted(r)
  BY EnabledType DEF Init, Unstarted, InitialStages
<1>2. \A e \in Executions : pc[e] \notin {"prepare"} \cup InLoop
  BY DEF Init, InLoop
<1> QED
  BY <1>1, <1>2 DEF ProgressInv

LInv == IInv /\ Types /\ ProgressInv

LEMMA LifecycleInvariant == Spec => []LInv
<1>1. IInv => Types
  BY DEF IInv, TypeOK, Types
<1>2. LInv /\ [Next]_vars => LInv'
  <2> SUFFICES ASSUME LInv, [Next]_vars PROVE LInv'
    OBVIOUS
  <2>1. IInv'
    BY NextIInv DEF LInv
  <2>2. Types'
    BY <2>1 DEF IInv, TypeOK, Types
  <2>3. ProgressInv'
    BY NextProgress DEF LInv, IInv
  <2> QED
    BY <2>1, <2>2, <2>3 DEF LInv
<1>3. Init => LInv
  BY <1>1, InitIInv, InitProgress DEF LInv
<1> QED
  BY <1>2, <1>3, PTL DEF Spec

-----------------------------------------------------------------------------
(* Every step is a step of RunLifecycle or leaves the rows alone.          *)

LifecycleStep == [Lifecycle!Next]_<<runStatus, stageStatus>>

LEMMA LifecycleNames ==
  /\ Lifecycle!Stages = Stages
  /\ \A stages, from, to : Lifecycle!Replace(stages, from, to) = Replace(stages, from, to)
  BY DEF Lifecycle!Stages, Stages, Lifecycle!Replace, Replace

\* Replacing a status that no stage of the run has changes nothing.
LEMMA ReplaceNothing ==
  ASSUME Types, NEW r \in Runs, NEW from, NEW to,
         \A i \in Stages : stageStatus[r][i] # from
  PROVE  Replace(stageStatus[r], from, to) = stageStatus[r]
  BY DEF Replace, Types

LEMMA SettledReplace ==
  ASSUME Types, NEW r \in Runs, NEW status, SettledRow(r)
  PROVE  Replace(Replace(stageStatus[r], "running", status), "pending", "skipped")
           = stageStatus[r]
  BY ReplaceNothing DEF SettledRow

LEMMA BeginStageMaps ==
  ASSUME LInv, NEW e \in Executions, BeginStage(e)
  PROVE  LifecycleStep
<1> DEFINE r == RunOf[e]
           i == NextStage(e)
<1> USE RunOfType DEF LInv
<1>1. CASE UNCHANGED stageStatus
  BY <1>1 DEF BeginStage, ReturnIfCancelled, dbVars, LifecycleStep
<1>2. CASE ~UNCHANGED stageStatus
  <2>1. /\ pc[e] = "stages" /\ todo[e] # {}
        /\ stageStatus[r][i] = "pending"
        /\ stageStatus' = [stageStatus EXCEPT ![r][i] = "running"]
        /\ UNCHANGED runStatus
    BY <1>2 DEF BeginStage, ReturnIfCancelled, dbVars
  <2>2. /\ i \in todo[e]
        /\ \A j \in todo[e] : i <= j
        /\ todo[e] \subseteq Stages
        /\ Stages \subseteq Nat
    <3>1. todo[e] \in SUBSET Stages /\ Stages \subseteq Nat
      BY EngineAssumption DEF Types, Stages
    <3> QED
      BY <2>1, <3>1, LeastIsLeast DEF NextStage
  <2>3. runStatus[r] = "running"
    BY <2>1, <2>2 DEF IInv, ClaimInv, StageInv, TerminalRunSettled, Terminal, Claimed, Looping
  <2>4. Progress(e) /\ MayBeRunning(e) = {}
    BY <2>1 DEF ProgressInv, InLoop, MayBeRunning
  <2>5. \A j \in Enabled[r] : j < i => stageStatus[r][j] = "success"
    <3> SUFFICES ASSUME NEW j \in Enabled[r], j < i PROVE stageStatus[r][j] = "success"
      OBVIOUS
    <3>1. j \in Nat /\ i \in Nat
      BY <2>2, EnabledType
    <3>2. j \notin todo[e]
      BY <2>2, <3>1
    <3> QED
      BY <2>3, <2>4, <3>2 DEF Progress
  <2>6. Lifecycle!StartStage(r, i)
    BY <2>1, <2>3, <2>5 DEF Lifecycle!StartStage
  <2> QED
    BY <2>2, <2>6, LifecycleNames DEF LifecycleStep, Lifecycle!Next
<1> QED
  BY <1>1, <1>2

LEMMA ReportStageMaps ==
  ASSUME LInv, NEW e \in Executions, ReportStage(e)
  PROVE  LifecycleStep
<1> DEFINE r == RunOf[e]
           i == NextStage(e)
<1> USE RunOfType DEF LInv
<1>1. PICK result \in {"success", "failed"} :
        /\ pc[e] \in {"succeeded", "failed"}
        /\ stageStatus' = [stageStatus EXCEPT ![r][i] = IF @ = "deleted" THEN @ ELSE result]
        /\ UNCHANGED runStatus
  BY DEF ReportStage
<1>2. CASE runStatus[r] = "deleted"
  <2>1. \A j \in Stages : stageStatus[r][j] = "deleted"
    BY <1>2 DEF IInv, StageInv
  <2>2. stageStatus' = stageStatus
    BY <1>1, <2>1 DEF Types
  <2> QED
    BY <1>1, <2>2 DEF LifecycleStep
<1>3. CASE runStatus[r] # "deleted"
  <2>1. Progress(e) /\ MayBeRunning(e) = {i}
    BY <1>1 DEF ProgressInv, InLoop, MayBeRunning
  <2>2. /\ i \in Stages
        /\ \/ stageStatus[r][i] = "running"
           \/ runStatus[r] = "failed" /\ stageStatus[r][i] = "failed"
    BY <1>3, <2>1, EnabledType DEF Progress
  <2>3. stageStatus' = [stageStatus EXCEPT ![r][i] = result]
    BY <1>1, <2>2
  <2>4. Lifecycle!EndStage(r, i, result)
    BY <1>1, <2>2, <2>3 DEF Lifecycle!EndStage
  <2> QED
    BY <2>2, <2>4, LifecycleNames DEF LifecycleStep, Lifecycle!Next
<1> QED
  BY <1>2, <1>3

\* After a failed stage the pending rows are skipped while the run is still
\* running; a run someone else has settled has none.
LEMMA SkipRestMaps ==
  ASSUME LInv, NEW e \in Executions, SkipRest(e)
  PROVE  LifecycleStep
<1> DEFINE r == RunOf[e]
<1> USE RunOfType DEF LInv
<1>1. /\ pc[e] = "skipRest"
      /\ UNCHANGED runStatus
      /\ stageStatus' = [stageStatus EXCEPT ![r] = Replace(@, "pending", "skipped")]
  BY DEF SkipRest
<1>2. CASE runStatus[r] = "running"
  <2>1. Lifecycle!SkipPending(r)
    BY <1>1, <1>2, LifecycleNames DEF Lifecycle!SkipPending
  <2> QED
    BY <2>1 DEF LifecycleStep, Lifecycle!Next
<1>3. CASE runStatus[r] # "running"
  <2>1. runStatus[r] \in {"failed", "deleted"}
    BY <1>1, <1>3 DEF IInv, ClaimInv, Claimed, Looping
  <2>2. \A i \in Stages : stageStatus[r][i] # "pending"
    BY <2>1 DEF IInv, StageInv, TerminalRunSettled, Terminal
  <2>3. stageStatus' = stageStatus
    BY <1>1, <2>2, ReplaceNothing DEF Types
  <2> QED
    BY <1>1, <2>3 DEF LifecycleStep
<1> QED
  BY <1>2, <1>3

\* FailRun writes the status alone: the stages are settled already.
LEMMA FailRunMaps ==
  ASSUME LInv, NEW e \in Executions, FailRun(e)
  PROVE  LifecycleStep
<1> DEFINE r == RunOf[e]
<1> USE RunOfType DEF LInv
<1>1. /\ pc[e] = "failRun"
      /\ runStatus' = [runStatus EXCEPT ![r] = IF @ = "deleted" THEN @ ELSE "failed"]
      /\ UNCHANGED stageStatus
  BY DEF FailRun
<1>2. runStatus[r] \in {"running", "failed", "deleted"}
  BY <1>1 DEF IInv, ClaimInv, Claimed, Looping
<1>3. CASE runStatus[r] = "running"
  <2>1. SettledRow(r)
    BY <1>1 DEF IInv, StageInv, LoopOK, MayBePending, MayBeRunning, Claimed, Looping, SettledRow
  <2>2. stageStatus' = [stageStatus EXCEPT
          ![r] = Replace(Replace(@, "running", "failed"), "pending", "skipped")]
    BY <1>1, <2>1, SettledReplace DEF Types
  <2>3. Lifecycle!Stop(r, "failed")
    BY <1>1, <1>3, <2>2, LifecycleNames DEF Lifecycle!Stop
  <2> QED
    BY <2>3 DEF LifecycleStep, Lifecycle!Next
<1>4. CASE runStatus[r] # "running"
  BY <1>1, <1>2, <1>4 DEF LifecycleStep, Types
<1> QED
  BY <1>3, <1>4

LEMMA FinishMaps ==
  ASSUME LInv, NEW e \in Executions, Finish(e)
  PROVE  LifecycleStep
<1> DEFINE r == RunOf[e]
<1> USE RunOfType DEF LInv
<1>1. CASE runStatus[r] = "running" /\ runStatus' = [runStatus EXCEPT ![r] = "success"]
  <2>1. pc[e] = "stages" /\ todo[e] = {} /\ UNCHANGED stageStatus
    BY DEF Finish, ReturnIfCancelled, dbVars
  <2>2. \A i \in Enabled[r] : stageStatus[r][i] = "success"
    BY <1>1, <2>1 DEF ProgressInv, InLoop, Progress
  <2>3. Lifecycle!Succeed(r)
    BY <1>1, <2>1, <2>2 DEF Lifecycle!Succeed
  <2> QED
    BY <2>3 DEF LifecycleStep, Lifecycle!Next
<1>2. CASE ~(runStatus[r] = "running" /\ runStatus' = [runStatus EXCEPT ![r] = "success"])
  BY <1>2 DEF Finish, ReturnIfCancelled, ReplaceRun, dbVars, LifecycleStep, Types
<1> QED
  BY <1>1, <1>2

\* The transaction stops a running run, skips the stages of a pending one (a
\* duplicate that lost the race before the claim) and finds nothing to do else.
LEMMA SettleMaps ==
  ASSUME LInv, NEW e \in Executions, Settle(e)
  PROVE  LifecycleStep
<1> DEFINE r == RunOf[e]
<1> USE RunOfType DEF LInv
<1>1. PICK status \in {"failed", "cancelled"} :
        /\ stageStatus' = [stageStatus EXCEPT
             ![r] = Replace(Replace(@, "running", status), "pending", "skipped")]
        /\ runStatus' = [runStatus EXCEPT ![r] = IF @ = "running" THEN status ELSE @]
  BY DEF Settle, ReplaceRun
<1>2. CASE runStatus[r] = "running"
  <2>1. Lifecycle!Stop(r, status)
    BY <1>1, <1>2, LifecycleNames DEF Lifecycle!Stop
  <2> QED
    BY <2>1 DEF LifecycleStep, Lifecycle!Next
<1>3. CASE runStatus[r] = "pending"
  <2>1. \A i \in Stages : stageStatus[r][i] # "running"
    BY <1>3 DEF IInv, StageInv
  <2>2. stageStatus' = [stageStatus EXCEPT ![r] = Replace(@, "pending", "skipped")]
    BY <1>1, <2>1, ReplaceNothing
  <2>3. UNCHANGED runStatus
    BY <1>1, <1>3 DEF Types
  <2>4. Lifecycle!SkipPending(r)
    BY <1>3, <2>2, <2>3, LifecycleNames DEF Lifecycle!SkipPending
  <2> QED
    BY <2>4 DEF LifecycleStep, Lifecycle!Next
<1>4. CASE runStatus[r] \notin {"pending", "running"}
  <2>1. runStatus[r] \in Terminal \cup {"deleted"}
    BY <1>4 DEF Types, RunStatuses
  <2>2. SettledRow(r)
    BY <2>1 DEF IInv, StageInv, TerminalRunSettled, SettledRow
  <2>3. UNCHANGED <<runStatus, stageStatus>>
    BY <1>1, <1>4, <2>2, SettledReplace DEF Types
  <2> QED
    BY <2>3 DEF LifecycleStep
<1> QED
  BY <1>2, <1>3, <1>4

LEMMA CancelRowsMaps ==
  ASSUME LInv, NEW r \in Runs, CancelRows(r)
  PROVE  LifecycleStep
<1> USE DEF LInv, Types
<1>1. CASE runStatus[r] = "pending"
  <2>1. Lifecycle!CancelPending(r)
    BY <1>1, LifecycleNames DEF CancelRows, ReplaceRun, Lifecycle!CancelPending
  <2> QED
    BY <2>1 DEF LifecycleStep, Lifecycle!Next
<1>2. CASE runStatus[r] # "pending"
  BY <1>2 DEF CancelRows, ReplaceRun, LifecycleStep
<1> QED
  BY <1>1, <1>2

LEMMA ExecuteMaps ==
  ASSUME LInv, NEW e \in Executions,
         Execute(e) \/ StatementFails(e) \/ SettleFails(e)
  PROVE  LifecycleStep
<1>1. CASE Claim(e)
  <2>1. CASE runStatus[RunOf[e]] = "pending"
    <3>1. Lifecycle!Claim(RunOf[e])
      BY <1>1, <2>1 DEF Claim, Lifecycle!Claim
    <3> QED
      BY <3>1, RunOfType DEF LifecycleStep, Lifecycle!Next
  <2>2. CASE runStatus[RunOf[e]] # "pending"
    BY <1>1, <2>2 DEF Claim, LifecycleStep
  <2> QED
    BY <2>1, <2>2
<1>2. CASE ~(Claim(e) \/ BeginStage(e) \/ ReportStage(e) \/ SkipRest(e) \/ FailRun(e)
             \/ Finish(e) \/ Settle(e))
  <2>1. UNCHANGED <<runStatus, stageStatus>>
    BY <1>2
    DEF Execute, Select, AcquireProject, AcquireSlot, Register, Prepare, Sync, Record,
        EndCommand, WorkFails, Leave, StatementFails, SettleFails, ReturnIfCancelled, dbVars
  <2> QED
    BY <2>1 DEF LifecycleStep
<1> QED
  BY <1>1, <1>2, BeginStageMaps, ReportStageMaps, SkipRestMaps, FailRunMaps, FinishMaps,
     SettleMaps

LEMMA NextMapsToLifecycle ==
  ASSUME LInv, [Next]_vars
  PROVE  LifecycleStep
<1> USE DEF dbVars
<1>1. ASSUME NEW c \in Cancels, CancelCall(c) \/ CancelFails(c) PROVE LifecycleStep
  BY <1>1, CancelRowsMaps, RunOfType
  DEF CancelCall, CancelToken, CancelPending, CancelFails, LifecycleStep
<1>2. ASSUME NEW r \in Runs, ApiCancel(r) PROVE LifecycleStep
  BY <1>2, CancelRowsMaps DEF ApiCancel
<1>3. ASSUME NEW p \in Deletable, DeleteProject(p) PROVE LifecycleStep
  <2> DEFINE gone == {r \in Runs : ProjectOf[r] = p}
  <2>1. Lifecycle!Delete(gone)
    BY <1>3, LifecycleNames DEF DeleteProject, Lifecycle!Delete
  <2>2. gone \in SUBSET Runs
    OBVIOUS
  <2> QED
    BY <2>1, <2>2 DEF LifecycleStep, Lifecycle!Next
<1>4. CASE Restart \/ Quiesce \/ UNCHANGED vars
  BY <1>4 DEF Restart, Quiesce, vars, LifecycleStep
<1> QED
  BY <1>1, <1>2, <1>3, <1>4, ExecuteMaps DEF Next

\* The rows of the engine behave as the life cycle promises: a run is claimed
\* once, starts its stages in order while it is running, and the step that
\* settles it settles its stages, whichever call takes that step.
THEOREM EngineImplementsLifecycle == Spec => ImplementsLifecycle
<1>1. Init => Lifecycle!Init
  BY DEF Init, Lifecycle!Init, InitialStages, Lifecycle!InitialStages, Stages, Lifecycle!Stages
<1>2. LInv /\ [Next]_vars => [Lifecycle!Next]_(Lifecycle!vars)
  BY NextMapsToLifecycle DEF LifecycleStep, Lifecycle!vars
<1> QED
  BY <1>1, <1>2, LifecycleInvariant, PTL DEF Spec, ImplementsLifecycle, Lifecycle!Spec

-----------------------------------------------------------------------------
(* The order of the stages follows from the life cycle alone.              *)

OrderInv == StagesInOrder /\ SuccessMeansAllStages

\* The two conjuncts of OrderInv for one run.
RunInOrder(r) ==
  /\ \A i, j \in Enabled[r] :
       stageStatus[r][i] \in {"running", "success", "failed"} /\ j < i =>
         stageStatus[r][j] = "success"
  /\ runStatus[r] = "success" => \A i \in Enabled[r] : stageStatus[r][i] = "success"

LEMMA RunOrderStays ==
  ASSUME Types, NEW r \in Runs, RunInOrder(r), NEW q \in Runs,
         \/ Lifecycle!Claim(q) \/ Lifecycle!CancelPending(q) \/ Lifecycle!SkipPending(q)
         \/ Lifecycle!Succeed(q)
         \/ \E i \in Stages : Lifecycle!StartStage(q, i)
         \/ \E i \in Stages, result \in {"success", "failed"} : Lifecycle!EndStage(q, i, result)
         \/ \E status \in {"failed", "cancelled"} : Lifecycle!Stop(q, status)
  PROVE  RunInOrder(r)'
<1> USE EnabledType, LifecycleNames DEF Types
<1>0. Stages \subseteq Nat
  BY EngineAssumption DEF Stages
<1>1. CASE Lifecycle!Claim(q) \/ Lifecycle!Succeed(q)
  BY <1>1 DEF Lifecycle!Claim, Lifecycle!Succeed, RunInOrder
<1>2. CASE Lifecycle!CancelPending(q)
  BY <1>2 DEF Lifecycle!CancelPending, Replace, RunInOrder
<1>3. CASE Lifecycle!SkipPending(q)
  BY <1>3 DEF Lifecycle!SkipPending, Replace, RunInOrder
<1>4. ASSUME NEW status \in {"failed", "cancelled"}, Lifecycle!Stop(q, status)
      PROVE  RunInOrder(r)'
  <2>1. CASE q # r
    BY <1>4, <2>1 DEF Lifecycle!Stop, RunInOrder
  <2>2. CASE q = r
    <3>1. runStatus'[r] # "success"
      BY <1>4, <2>2 DEF Lifecycle!Stop
    <3>2. stageStatus'[r] = Replace(Replace(stageStatus[r], "running", status),
                                    "pending", "skipped")
      BY <1>4, <2>2 DEF Lifecycle!Stop
    <3>3. \A j \in Stages : stageStatus'[r][j] = IF stageStatus[r][j] = "running" THEN status
                                                 ELSE IF stageStatus[r][j] = "pending"
                                                 THEN "skipped" ELSE stageStatus[r][j]
      BY <3>2 DEF Replace
    <3> QED
      BY <3>1, <3>3 DEF RunInOrder
  <2> QED
    BY <2>1, <2>2
<1>5. ASSUME NEW i \in Stages, Lifecycle!StartStage(q, i) PROVE RunInOrder(r)'
  <2>1. CASE q # r
    BY <1>5, <2>1 DEF Lifecycle!StartStage, RunInOrder
  <2>2. CASE q = r
    <3>1. /\ stageStatus[r][i] = "pending"
          /\ \A j \in Enabled[r] : j < i => stageStatus[r][j] = "success"
          /\ stageStatus'[r][i] = "running"
          /\ \A j \in Stages : j # i => stageStatus'[r][j] = stageStatus[r][j]
          /\ runStatus'[r] = "running"
      BY <1>5, <2>2 DEF Lifecycle!StartStage
    <3> QED
      BY <1>0, <3>1 DEF RunInOrder
  <2> QED
    BY <2>1, <2>2
<1>6. ASSUME NEW i \in Stages, NEW result \in {"success", "failed"},
             Lifecycle!EndStage(q, i, result)
      PROVE  RunInOrder(r)'
  <2>1. CASE q # r
    BY <1>6, <2>1 DEF Lifecycle!EndStage, RunInOrder
  <2>2. CASE q = r
    <3>1. /\ stageStatus[r][i] \in {"running", "failed"}
          /\ stageStatus'[r][i] = result
          /\ \A j \in Stages : j # i => stageStatus'[r][j] = stageStatus[r][j]
          /\ runStatus'[r] = runStatus[r]
      BY <1>6, <2>2 DEF Lifecycle!EndStage
    <3> QED
      BY <1>0, <3>1 DEF RunInOrder
  <2> QED
    BY <2>1, <2>2
<1> QED
  BY <1>1, <1>2, <1>3, <1>4, <1>5, <1>6

LEMMA OrderStays ==
  ASSUME Types, OrderInv, LifecycleStep
  PROVE  OrderInv'
<1>1. OrderInv <=> \A r \in Runs : RunInOrder(r)
  BY DEF OrderInv, StagesInOrder, SuccessMeansAllStages, RunInOrder
<1>2. OrderInv' <=> \A r \in Runs : RunInOrder(r)'
  BY DEF OrderInv, StagesInOrder, SuccessMeansAllStages, RunInOrder
<1>3. ASSUME NEW rs \in SUBSET Runs, Lifecycle!Delete(rs), NEW r \in Runs
      PROVE  RunInOrder(r)'
  <2>1. CASE r \in rs
    BY <1>3, <2>1, EnabledType, LifecycleNames DEF Lifecycle!Delete, RunInOrder
  <2>2. CASE r \notin rs
    BY <1>1, <1>3, <2>2 DEF Lifecycle!Delete, RunInOrder
  <2> QED
    BY <2>1, <2>2
<1>4. CASE UNCHANGED <<runStatus, stageStatus>>
  BY <1>1, <1>2, <1>4 DEF RunInOrder
<1>5. CASE Lifecycle!Next
  BY <1>1, <1>2, <1>3, <1>5, RunOrderStays, LifecycleNames DEF Lifecycle!Next
<1> QED
  BY <1>4, <1>5 DEF LifecycleStep

LEMMA OrderInvariant == Spec => []OrderInv
<1>1. Init => OrderInv
  BY EnabledType
  DEF Init, OrderInv, StagesInOrder, SuccessMeansAllStages, InitialStages
<1>2. LInv /\ OrderInv /\ [Next]_vars => OrderInv'
  BY NextMapsToLifecycle, OrderStays DEF LInv
<1> QED
  BY <1>1, <1>2, LifecycleInvariant, PTL DEF Spec

\* A stage that was started had every enabled stage before it succeed.
THEOREM StagesOrdered == Spec => []StagesInOrder
<1>1. OrderInv => StagesInOrder
  BY DEF OrderInv
<1> QED
  BY <1>1, OrderInvariant, PTL

\* A run is reported as a success only when each of its enabled stages is.
THEOREM SuccessSumsUp == Spec => []SuccessMeansAllStages
<1>1. OrderInv => SuccessMeansAllStages
  BY DEF OrderInv
<1> QED
  BY <1>1, OrderInvariant, PTL

-----------------------------------------------------------------------------
(* What is held when the calls have ended.                                 *)

\* A map entry and a permit belong to an execution that still has to return them.
EntryInv ==
  /\ \A r \in Runs : \A e \in Executions : running[r] = e =>
       RunOf[e] = r /\ pc[e] \in {"claim", "leaving"} \cup Claimed \cup Settling
  /\ \A p \in Projects : \A e \in Executions : projectLock[p] = e => ProjectOfExec(e) = p

\* The steps that move an execution on without touching the map.
LEMMA EntryMoves ==
  ASSUME Types, EntryInv, NEW e \in Executions, NEW label,
         pc' = [pc EXCEPT ![e] = label], UNCHANGED running,
         \/ \A r \in Runs : running[r] # e
         \/ pc[e] \in {"claim", "leaving"} \cup Claimed \cup Settling =>
              label \in {"claim", "leaving"} \cup Claimed \cup Settling,
         \A p \in Projects : projectLock'[p] \in {projectLock[p], None}
  PROVE  EntryInv'
<1>1. None \notin Executions
  BY EngineAssumption
<1>2. \A d \in Executions : pc'[d] = IF d = e THEN label ELSE pc[d]
  BY DEF Types
<1>3. \A r \in Runs : \A d \in Executions : running'[r] = d =>
        RunOf[d] = r /\ pc'[d] \in {"claim", "leaving"} \cup Claimed \cup Settling
  BY <1>2 DEF EntryInv
<1>4. \A p \in Projects : \A d \in Executions : projectLock'[p] = d => ProjectOfExec(d)' = p
  BY <1>1 DEF EntryInv, ProjectOfExec
<1> QED
  BY <1>3, <1>4 DEF EntryInv

LEMMA ExecuteEntry ==
  ASSUME Types, EntryInv, NEW e \in Executions,
         Execute(e) \/ StatementFails(e) \/ SettleFails(e)
  PROVE  EntryInv'
<1> USE RunOfType
<1>1. CASE AcquireProject(e)
  <2>1. /\ pc[e] = "project" /\ pc' = [pc EXCEPT ![e] = "slot"]
        /\ projectLock' = [projectLock EXCEPT ![ProjectOfExec(e)] = e]
        /\ UNCHANGED running
    BY <1>1 DEF AcquireProject, Goto
  <2>2. \A d \in Executions : d # e => pc'[d] = pc[d]
    BY <2>1 DEF Types
  <2>3. \A r \in Runs : running[r] # e
    BY <2>1 DEF EntryInv, Claimed, Looping, Settling
  <2>4. \A r \in Runs : \A d \in Executions : running'[r] = d =>
          RunOf[d] = r /\ pc'[d] \in {"claim", "leaving"} \cup Claimed \cup Settling
    BY <2>1, <2>2, <2>3 DEF EntryInv
  <2>5. \A p \in Projects : \A d \in Executions : projectLock'[p] = d => ProjectOfExec(d)' = p
    BY <2>1 DEF EntryInv, ProjectOfExec, Types
  <2> QED
    BY <2>4, <2>5 DEF EntryInv
<1>2. CASE Register(e) /\ running' # running
  <2>1. /\ pc' = [pc EXCEPT ![e] = "claim"]
        /\ running' = [running EXCEPT ![RunOf[e]] = e]
        /\ UNCHANGED projectLock
    BY <1>2 DEF Register, Goto, lockVars
  <2>2. /\ pc'[e] = "claim" /\ \A d \in Executions : d # e => pc'[d] = pc[d]
        /\ \A r \in Runs : running'[r] = IF r = RunOf[e] THEN e ELSE running[r]
    BY <2>1 DEF Types
  <2> QED
    BY <2>1, <2>2 DEF EntryInv, ProjectOfExec
<1>3. CASE (Claim(e) \/ Leave(e)) /\ running' # running
  <2>1. PICK label \in {"leaving", "done"} : pc' = [pc EXCEPT ![e] = label]
    BY <1>3 DEF Claim, Leave, Return, Goto
  <2>2. running' = [running EXCEPT ![RunOf[e]] = None]
    BY <1>3 DEF Claim, Leave
  <2>3. \A p \in Projects : projectLock'[p] \in {projectLock[p], None}
    BY <1>3 DEF Claim, Leave, Return, Types, lockVars
  <2>4. None \notin Executions
    BY EngineAssumption
  <2>5. \A r \in Runs : running'[r] # e
    BY <2>2, <2>4 DEF EntryInv, Types
  <2>6. \A d \in Executions : d # e => pc'[d] = pc[d]
    BY <2>1 DEF Types
  <2>7. \A r \in Runs : \A d \in Executions : running'[r] = d =>
          RunOf[d] = r /\ pc'[d] \in {"claim", "leaving"} \cup Claimed \cup Settling
    BY <2>2, <2>4, <2>5, <2>6 DEF EntryInv, Types
  <2>8. \A p \in Projects : \A d \in Executions : projectLock'[p] = d => ProjectOfExec(d)' = p
    BY <2>3, <2>4 DEF EntryInv, ProjectOfExec
  <2> QED
    BY <2>7, <2>8 DEF EntryInv
<1>4. CASE ~AcquireProject(e) /\ running' = running
  <2>1. \A p \in Projects : projectLock'[p] \in {projectLock[p], None}
    BY <1>4, ExecutionSteps DEF Returns, Return, Stays, Moves, AcquireSlot, Types
  <2>2. \E label : /\ pc' = [pc EXCEPT ![e] = label]
                   /\ \/ \A r \in Runs : running[r] # e
                      \/ pc[e] \in {"claim", "leaving"} \cup Claimed \cup Settling =>
                           label \in {"claim", "leaving"} \cup Claimed \cup Settling
    <3> USE DEF Goto, Claimed, Looping, Settling
    <3>1. CASE Returns(e)
      BY <3>1 DEF Returns, Return
    <3>2. CASE ~Returns(e) /\ (Select(e) \/ AcquireSlot(e) \/ Register(e) \/ Claim(e))
      BY <3>2 DEF Select, AcquireSlot, Register, Claim, Returns
    <3>3. CASE ~Returns(e) /\ (Prepare(e) \/ Sync(e) \/ Record(e) \/ BeginStage(e))
      BY <3>3 DEF Prepare, Sync, Record, BeginStage, Returns, ReturnIfCancelled
    <3>4. CASE ~Returns(e) /\ (EndCommand(e) \/ ReportStage(e) \/ SkipRest(e) \/ FailRun(e)
                               \/ Finish(e) \/ WorkFails(e) \/ StatementFails(e))
      BY <3>4 DEF EndCommand, ReportStage, SkipRest, FailRun, Finish, WorkFails, StatementFails,
                  Returns, ReturnIfCancelled
    <3>5. CASE Settle(e) \/ SettleFails(e)
      BY <3>5 DEF Settle, SettleFails
    <3>6. CASE Leave(e)
      <4>1. \A r \in Runs : running[r] # e
        <5>1. running[RunOf[e]] = None
          BY <1>4, <3>6 DEF Leave, Types
        <5> QED
          BY <5>1, EngineAssumption DEF EntryInv
      <4> QED
        BY <3>6, <4>1 DEF Leave
    <3> QED
      BY <1>4, <3>1, <3>2, <3>3, <3>4, <3>5, <3>6 DEF Execute
  <2> QED
    BY <1>4, <2>1, <2>2, EntryMoves
<1> QED
  <2>1. Register(e) \/ Claim(e) \/ Leave(e) \/ running' = running
    BY DEF Execute, Select, AcquireProject, AcquireSlot, Prepare, Sync, Record, BeginStage,
           EndCommand, ReportStage, SkipRest, FailRun, Finish, WorkFails, Settle,
           StatementFails, SettleFails, ReturnIfCancelled
  <2> QED
    BY <1>1, <1>2, <1>3, <1>4, <2>1

LEMMA NextEntry ==
  ASSUME Types, EntryInv, [Next]_vars
  PROVE  EntryInv'
<1>1. CASE Restart
  <2>1. /\ \A r \in Runs : running'[r] = None
        /\ \A p \in Projects : projectLock'[p] = None
    BY <1>1 DEF Restart
  <2> QED
    BY <2>1, EngineAssumption DEF EntryInv
<1>2. CASE \/ \E c \in Cancels : CancelCall(c) \/ CancelFails(c)
           \/ \E r \in Runs : ApiCancel(r)
           \/ \E p \in Deletable : DeleteProject(p)
           \/ Quiesce \/ UNCHANGED vars
  <2>1. UNCHANGED running
    BY <1>2 DEF CancelCall, CancelToken, CancelPending, CancelFails, ApiCancel, DeleteProject,
                Quiesce, vars
  <2>2. UNCHANGED <<projectLock, pc>>
    BY <1>2, OtherSteps
  <2> QED
    BY <2>1, <2>2 DEF EntryInv, ProjectOfExec
<1> QED
  BY <1>1, <1>2, ExecuteEntry DEF Next

LEMMA EntryInvariant == Spec => []EntryInv
<1>1. Init => EntryInv
  BY EngineAssumption DEF Init, EntryInv
<1>2. LInv /\ EntryInv /\ [Next]_vars => EntryInv'
  BY NextEntry DEF LInv
<1> QED
  BY <1>1, <1>2, LifecycleInvariant, PTL DEF Spec

\* However the calls of a process ended, with errors, cancelled or in a
\* restart, they left no map entry, no project permit and no slot behind.
THEOREM NothingHeld == Spec => []NothingHeldAtTheEnd
<1>1. LInv /\ EntryInv => NothingHeldAtTheEnd
  <2> SUFFICES ASSUME LInv, EntryInv, Finished
               PROVE  /\ \A r \in Runs : running[r] = None
                      /\ \A p \in Projects : projectLock[p] = None
                      /\ freeSlots = Slots
    BY DEF NothingHeldAtTheEnd
  <2>1. \A e \in Executions : pc[e] \in {"done", "dead"}
    BY DEF Finished
  <2>2. \A r \in Runs : running[r] = None
    BY <2>1 DEF EntryInv, LInv, Types, Claimed, Looping, Settling
  <2>3. \A p \in Projects : projectLock[p] = None
    BY <2>1, LabelSets DEF EntryInv, LInv, IInv, LockInv, Types
  <2>4. SlotHolders = {}
    BY <2>1, LabelSets DEF SlotHolders
  <2>5. freeSlots = Slots
    BY <2>4, FS_EmptySet, SlotsNat DEF LInv, IInv, SlotInv
  <2> QED
    BY <2>2, <2>3, <2>5
<1> QED
  BY <1>1, LifecycleInvariant, EntryInvariant, PTL

-----------------------------------------------------------------------------
(* Without failing statements                                              *)

\* A call that failed before its claim met the execution that had claimed the
\* run when it was already leaving; so nobody settles a run that is worked on.
NoErrorInv ==
  /\ \A r \in Runs : claimant[r] # None => RunOf[claimant[r]] = r
  /\ \A r \in Runs : \A e \in Executions :
       running[r] = e /\ pc[e] # "claim" => claimant[r] = e
  /\ \A d \in Executions : pc[d] = "failing" =>
       /\ claimant[RunOf[d]] # None
       /\ pc[claimant[RunOf[d]]] \notin Claimed
  /\ \A e \in Executions : pc[e] \in Claimed => runStatus[RunOf[e]] \in {"running", "deleted"}

DInv == LInv /\ EntryInv /\ NoErrorInv

NeverInterrupts ==
  \A e \in Executions :
    pc[e] \in Claimed /\ pc'[e] = pc[e] /\ runStatus[RunOf[e]] = "running"
      => runStatus'[RunOf[e]] \in {"running", "deleted"}

LEMMA ExecuteNeverInterrupts ==
  ASSUME DInv, NEW d \in Executions,
         Execute(d) \/ StatementFails(d) \/ SettleFails(d)
  PROVE  NeverInterrupts
<1> USE RunOfType DEF DInv, LInv, dbVars
<1>1. ASSUME NEW e \in Executions, pc[e] \in Claimed, pc'[e] = pc[e],
             runStatus[RunOf[e]] = "running"
      PROVE  runStatus'[RunOf[e]] \in {"running", "deleted"}
  <2>1. claimant[RunOf[e]] = e
    BY <1>1 DEF IInv, ClaimInv
  <2>2. CASE Claim(d)
    BY <1>1, <2>2 DEF Claim, Types
  <2>3. CASE FailRun(d) \/ Finish(d)
    <3>1. d # e \/ runStatus' = runStatus
      BY <1>1, <2>3 DEF FailRun, Finish, ReturnIfCancelled, Return, Goto, Types
    <3>2. CASE d # e
      <4>1. RunOf[d] # RunOf[e]
        BY <1>1, <2>3, <3>2, OthersRun DEF IInv, FailRun, Finish, Claimed, Looping
      <4> QED
        BY <1>1, <2>3, <4>1 DEF FailRun, Finish, ReturnIfCancelled, ReplaceRun, Types
    <3> QED
      BY <1>1, <3>1, <3>2
  <2>4. CASE Settle(d)
    <3>1. RunOf[d] # RunOf[e]
      <4>1. pc[d] = "failing" \/ pc[d] = "cancelling"
        BY <2>4 DEF Settle, Settling
      <4>2. d # e
        BY <1>1, <4>1 DEF Claimed, Looping
      <4> QED
        BY <1>1, <2>1, <4>1, <4>2, OthersRun DEF NoErrorInv, IInv
    <3> QED
      BY <1>1, <2>4, <3>1 DEF Settle, ReplaceRun, Types
  <2>5. CASE ~(Claim(d) \/ FailRun(d) \/ Finish(d) \/ Settle(d))
    <3>1. UNCHANGED runStatus
      BY <2>5
      DEF Execute, Select, AcquireProject, AcquireSlot, Register, Prepare, Sync, Record,
          BeginStage, EndCommand, ReportStage, SkipRest, WorkFails, Leave,
          StatementFails, SettleFails, ReturnIfCancelled
    <3> QED
      BY <1>1, <3>1
  <2> QED
    BY <2>2, <2>3, <2>4, <2>5
<1> QED
  BY <1>1 DEF NeverInterrupts

LEMMA OtherNeverInterrupts ==
  ASSUME DInv,
         \/ \E c \in Cancels : CancelCall(c) \/ CancelFails(c)
         \/ \E r \in Runs : ApiCancel(r)
         \/ \E p \in Deletable : DeleteProject(p)
         \/ Restart \/ Quiesce \/ UNCHANGED vars
  PROVE  \A e \in Executions :
           runStatus[RunOf[e]] \in {"running", "deleted"} =>
             runStatus'[RunOf[e]] \in {"running", "deleted"}
<1> USE RunOfType DEF DInv, LInv, Types, dbVars
<1>1. ASSUME NEW r \in Runs, CancelRows(r), NEW q \in Runs, runStatus[q] # "pending"
      PROVE  runStatus'[q] = runStatus[q]
  BY <1>1 DEF CancelRows, ReplaceRun
<1>2. ASSUME NEW c \in Cancels, CancelCall(c) \/ CancelFails(c), NEW q \in Runs,
             runStatus[q] # "pending"
      PROVE  runStatus'[q] = runStatus[q]
  BY <1>1, <1>2 DEF CancelCall, CancelToken, CancelPending, CancelFails
<1>3. ASSUME NEW r \in Runs, ApiCancel(r), NEW q \in Runs, runStatus[q] # "pending"
      PROVE  runStatus'[q] = runStatus[q]
  BY <1>1, <1>3 DEF ApiCancel
<1>4. ASSUME NEW p \in Deletable, DeleteProject(p), NEW q \in Runs
      PROVE  runStatus'[q] \in {runStatus[q], "deleted"}
  BY <1>4 DEF DeleteProject
<1>5. CASE Restart \/ Quiesce \/ UNCHANGED vars
  BY <1>5 DEF Restart, Quiesce, vars
<1> QED
  BY <1>2, <1>3, <1>4, <1>5

LEMMA NextNeverInterrupts ==
  ASSUME DInv, [Next]_vars
  PROVE  NeverInterrupts
  BY ExecuteNeverInterrupts, OtherNeverInterrupts DEF Next, NeverInterrupts

\* How an execution comes to work on a run and how it leaves it.
LEMMA EntersClaimed ==
  ASSUME Types, NEW e \in Executions,
         Execute(e) \/ StatementFails(e) \/ SettleFails(e)
  PROVE  /\ pc'[e] \in Claimed => \/ pc[e] \in Claimed
                                  \/ Claim(e) /\ runStatus[RunOf[e]] = "pending"
         /\ pc'[e] = "failing" => \/ pc[e] \in Claimed
                                  \/ pc[e] = "register" /\ running[RunOf[e]] # None
                                  \/ StatementFails(e)
         /\ claimant' # claimant => Claim(e) /\ runStatus[RunOf[e]] = "pending"
<1> USE DEF Goto, Return, ReturnIfCancelled, dbVars, Types, Claimed, Looping
<1>1. CASE Select(e) \/ AcquireProject(e) \/ AcquireSlot(e) \/ Register(e) \/ Claim(e)
  BY <1>1 DEF Select, AcquireProject, AcquireSlot, Register, Claim
<1>2. CASE Prepare(e) \/ Sync(e) \/ Record(e) \/ BeginStage(e) \/ EndCommand(e)
  BY <1>2 DEF Prepare, Sync, Record, BeginStage, EndCommand
<1>3. CASE ReportStage(e) \/ SkipRest(e) \/ FailRun(e) \/ Finish(e)
  BY <1>3 DEF ReportStage, SkipRest, FailRun, Finish
<1>4. CASE WorkFails(e) \/ Settle(e) \/ Leave(e) \/ StatementFails(e) \/ SettleFails(e)
  BY <1>4 DEF WorkFails, Settle, Leave, StatementFails, SettleFails, Settling
<1> QED
  BY <1>1, <1>2, <1>3, <1>4 DEF Execute

LEMMA DeletedStays ==
  ASSUME Types, [Next]_vars, NEW r \in Runs, runStatus[r] = "deleted"
  PROVE  runStatus'[r] = "deleted"
<1> USE RunOfType DEF Types, dbVars
<1>1. ASSUME NEW e \in Executions, Execute(e) \/ StatementFails(e) \/ SettleFails(e)
      PROVE  runStatus'[r] = "deleted"
  <2>1. CASE Claim(e) \/ FailRun(e) \/ Finish(e) \/ Settle(e)
    BY <2>1 DEF Claim, FailRun, Finish, ReturnIfCancelled, Settle, ReplaceRun
  <2>2. CASE ~(Claim(e) \/ FailRun(e) \/ Finish(e) \/ Settle(e))
    BY <1>1, <2>2
    DEF Execute, Select, AcquireProject, AcquireSlot, Register, Prepare, Sync, Record,
        BeginStage, EndCommand, ReportStage, SkipRest, WorkFails, Leave,
        StatementFails, SettleFails, ReturnIfCancelled
  <2> QED
    BY <2>1, <2>2
<1>2. ASSUME NEW q \in Runs, CancelRows(q) PROVE runStatus'[r] = "deleted"
  BY <1>2 DEF CancelRows, ReplaceRun
<1>3. ASSUME NEW c \in Cancels, CancelCall(c) \/ CancelFails(c)
      PROVE  runStatus'[r] = "deleted"
  BY <1>2, <1>3 DEF CancelCall, CancelToken, CancelPending, CancelFails
<1> QED
  BY <1>1, <1>2, <1>3 DEF Next, ApiCancel, DeleteProject, Restart, Quiesce, vars

LEMMA ExecuteNoError ==
  ASSUME DInv, MaxDbErrors = 0, NEW e \in Executions, EntryInv',
         Execute(e) \/ StatementFails(e) \/ SettleFails(e)
  PROVE  NoErrorInv'
<1> USE RunOfType DEF DInv, LInv
<1>0. /\ ~StatementFails(e)
      /\ None \notin Executions
      /\ \A d \in Executions : d # e => pc'[d] = pc[d]
      /\ ClaimInv
  BY EngineAssumption, ExecuteFrame DEF StatementFails, Types, IInv
<1>1. \A r \in Runs : claimant[r] # None => claimant'[r] = claimant[r]
  BY ClaimStep DEF Next, ClaimStays
<1>2. \A r \in Runs : \A d \in Executions :
        running'[r] = d /\ pc'[d] # "claim" => claimant'[r] = d
  <2> SUFFICES ASSUME NEW r \in Runs, NEW d \in Executions, running'[r] = d, pc'[d] # "claim"
               PROVE  claimant'[r] = d
    OBVIOUS
  <2>1. RunOf[d] = r
    BY DEF EntryInv
  <2>2. running[r] = d
    <3>1. CASE running' # running
      <4>1. Register(e) \/ Claim(e) \/ Leave(e)
        BY <3>1
        DEF Execute, Select, AcquireProject, AcquireSlot, Prepare, Sync, Record, BeginStage,
            EndCommand, ReportStage, SkipRest, FailRun, Finish, WorkFails, Settle,
            StatementFails, SettleFails, ReturnIfCancelled
      <4>2. CASE Register(e)
        BY <3>1, <4>2, <1>0 DEF Register, Goto, Types
      <4>3. CASE Claim(e) \/ Leave(e)
        BY <3>1, <4>3, <1>0 DEF Claim, Leave, Types
      <4> QED
        BY <4>1, <4>2, <4>3
    <3> QED
      BY <3>1
  <2>3. CASE pc[d] = "claim"
    <3>1. d = e
      BY <1>0, <2>3
    <3>2. Claim(e)
      BY <2>3, <3>1, <1>0
      DEF Execute, Select, AcquireProject, AcquireSlot, Register, Prepare, Sync, Record,
          BeginStage, EndCommand, ReportStage, SkipRest, FailRun, Finish, WorkFails, Settle,
          Leave, SettleFails, Settling
    <3>3. runStatus[r] = "pending"
      BY <1>0, <2>1, <3>1, <3>2 DEF Claim, Types
    <3> QED
      BY <2>1, <3>1, <3>2, <3>3 DEF Claim, Types
  <2>4. CASE pc[d] # "claim"
    BY <1>0, <1>1, <2>2, <2>4 DEF NoErrorInv
  <2> QED
    BY <2>3, <2>4
<1>3. \A d \in Executions : pc'[d] = "failing" =>
        claimant'[RunOf[d]] # None /\ pc'[claimant'[RunOf[d]]] \notin Claimed
  <2> SUFFICES ASSUME NEW d \in Executions, pc'[d] = "failing"
               PROVE  claimant'[RunOf[d]] # None /\ pc'[claimant'[RunOf[d]]] \notin Claimed
    OBVIOUS
  <2>1. CASE d = e /\ pc[e] \in Claimed
    BY <1>0, <1>1, <2>1 DEF ClaimInv, Claimed, Looping
  <2>2. ASSUME claimant[RunOf[d]] # None, pc[claimant[RunOf[d]]] \notin Claimed
        PROVE  claimant'[RunOf[d]] # None /\ pc'[claimant'[RunOf[d]]] \notin Claimed
    <3> DEFINE c == claimant[RunOf[d]]
    <3>1. c \in Executions /\ claimant'[RunOf[d]] = c
      BY <1>1, <2>2 DEF Types
    <3>2. runStatus[RunOf[d]] # "pending"
      BY <1>0, <2>2 DEF ClaimInv
    <3>3. CASE c # e
      BY <1>0, <2>2, <3>1, <3>3
    <3>4. CASE c = e
      <4> SUFFICES ASSUME pc'[e] \in Claimed PROVE FALSE
        BY <1>0, <3>1, <3>4
      <4>1. Claim(e) /\ runStatus[RunOf[e]] = "pending"
        BY <2>2, <3>4, EntersClaimed
      <4>2. RunOf[e] = RunOf[d]
        BY <2>2, <3>4 DEF NoErrorInv
      <4> QED
        BY <3>2, <4>1, <4>2
    <3> QED
      BY <3>3, <3>4
  <2>3. CASE d = e /\ pc[e] \notin Claimed
    <3>1. pc[e] = "register" /\ running[RunOf[e]] # None
      BY <1>0, <2>3, EntersClaimed
    <3>2. PICK x \in Executions : running[RunOf[e]] = x
      BY <3>1 DEF Types
    <3>3. RunOf[x] = RunOf[e] /\ pc[x] \in {"claim", "leaving"} \cup Claimed \cup Settling
      BY <3>2 DEF EntryInv
    <3>4. x # e
      BY <3>1, <3>3 DEF Claimed, Looping, Settling
    <3>5. pc[x] \notin {"claim"} \cup Claimed
      BY <3>1, <3>3, <3>4 DEF IInv, LockInv, ProjectOfExec, HoldsProject, HoldsSlot
    <3>6. claimant[RunOf[e]] = x
      BY <3>2, <3>5 DEF NoErrorInv
    <3> QED
      BY <1>0, <2>2, <2>3, <3>5, <3>6
  <2>4. CASE d # e
    BY <1>0, <2>2, <2>4 DEF NoErrorInv
  <2> QED
    BY <2>1, <2>3, <2>4
<1>4. \A d \in Executions : pc'[d] \in Claimed => runStatus'[RunOf[d]] \in {"running", "deleted"}
  <2> SUFFICES ASSUME NEW d \in Executions, pc'[d] \in Claimed
               PROVE  runStatus'[RunOf[d]] \in {"running", "deleted"}
    OBVIOUS
  <2>1. CASE d # e
    <3>1. pc[d] \in Claimed /\ runStatus[RunOf[d]] \in {"running", "deleted"}
      BY <1>0, <2>1 DEF NoErrorInv
    <3>2. CASE runStatus[RunOf[d]] = "running"
      BY <1>0, <2>1, <3>1, <3>2, ExecuteNeverInterrupts DEF NeverInterrupts
    <3>3. CASE runStatus[RunOf[d]] = "deleted"
      <4>1. Next
        BY DEF Next
      <4> QED
        BY <3>3, <4>1, DeletedStays
    <3> QED
      BY <3>1, <3>2, <3>3
  <2>2. CASE d = e
    <3>1. CASE Claim(e) /\ runStatus[RunOf[e]] = "pending"
      BY <2>2, <3>1 DEF Claim, Types
    <3>2. CASE pc[e] \in Claimed
      <4>1. runStatus[RunOf[e]] \in {"running", "deleted"}
        BY <3>2 DEF NoErrorInv
      <4>2. UNCHANGED runStatus
        <5>1. ~FailRun(e) /\ ~Settle(e) /\ ~Claim(e)
          BY <2>2, <3>2
          DEF FailRun, Settle, Claim, Return, Goto, Settling, Claimed, Looping, Types
        <5>2. ~Finish(e) \/ UNCHANGED runStatus
          BY <2>2 DEF Finish, ReturnIfCancelled, Return, Goto, Claimed, Looping, Types
        <5> QED
          BY <1>0, <5>1, <5>2
          DEF Execute, Select, AcquireProject, AcquireSlot, Register, Prepare, Sync, Record,
              BeginStage, EndCommand, ReportStage, SkipRest, WorkFails, Leave,
              SettleFails, ReturnIfCancelled, dbVars
      <4> QED
        BY <2>2, <4>1, <4>2
    <3> QED
      BY <2>2, <3>1, <3>2, EntersClaimed
  <2> QED
    BY <2>1, <2>2
<1>5. \A r \in Runs : claimant'[r] # None => RunOf[claimant'[r]] = r
  <2>1. CASE claimant' = claimant
    BY <2>1 DEF NoErrorInv
  <2>2. CASE claimant' # claimant
    <3>1. Claim(e)
      BY <2>2, EntersClaimed
    <3> QED
      BY <2>2, <3>1 DEF Claim, Types, NoErrorInv
  <2> QED
    BY <2>1, <2>2
<1> QED
  BY <1>2, <1>3, <1>4, <1>5 DEF NoErrorInv

LEMMA NextNoError ==
  ASSUME DInv, MaxDbErrors = 0, [Next]_vars
  PROVE  NoErrorInv'
<1> USE RunOfType DEF DInv, LInv
<1>1. CASE Restart
  <2>1. /\ \A r \in Runs : running'[r] = None
        /\ \A e \in Executions : pc'[e] \notin {"failing"} \cup Claimed
        /\ UNCHANGED claimant
    BY <1>1 DEF Restart, Claimed, Looping, dbVars
  <2> QED
    BY <2>1, EngineAssumption DEF NoErrorInv
<1>2. CASE \/ \E c \in Cancels : CancelCall(c) \/ CancelFails(c)
           \/ \E r \in Runs : ApiCancel(r)
           \/ \E p \in Deletable : DeleteProject(p)
           \/ Quiesce \/ UNCHANGED vars
  <2>1. UNCHANGED <<running, claimant>>
    BY <1>2 DEF CancelCall, CancelToken, CancelPending, CancelFails, ApiCancel, DeleteProject,
                Quiesce, vars, dbVars
  <2>2. UNCHANGED pc
    BY <1>2, OtherSteps
  <2>3. \A e \in Executions : runStatus[RunOf[e]] \in {"running", "deleted"} =>
          runStatus'[RunOf[e]] \in {"running", "deleted"}
    BY <1>2, OtherNeverInterrupts
  <2> QED
    BY <2>1, <2>2, <2>3 DEF NoErrorInv
<1>3. EntryInv'
  BY NextEntry
<1> QED
  BY <1>1, <1>2, <1>3, ExecuteNoError DEF Next

LEMMA NoErrorInvariant ==
  ASSUME MaxDbErrors = 0
  PROVE  Spec => []DInv
<1>1. Init => NoErrorInv
  BY EngineAssumption DEF Init, NoErrorInv, Claimed, Looping
<1>2. LInv /\ EntryInv /\ NoErrorInv /\ [Next]_vars => NoErrorInv'
  BY NextNoError DEF DInv
<1>3. LInv /\ EntryInv /\ NoErrorInv => DInv
  BY DEF DInv
<1> QED
  BY <1>1, <1>2, <1>3, LifecycleInvariant, EntryInvariant, PTL DEF Spec

\* As long as no statement fails a duplicate call, which fails the run it was
\* made for whatever its error was, never takes the run from an execution that
\* is still working on it.
THEOREM DuplicatesDoNotInterrupt ==
  ASSUME MaxDbErrors = 0
  PROVE  Spec => DuplicateNeverInterrupts
<1>1. DInv /\ [Next]_vars =>
        [\A e \in Executions :
           /\ pc[e] \in Claimed
           /\ pc'[e] = pc[e]
           /\ runStatus[RunOf[e]] = "running"
           => runStatus'[RunOf[e]] \in {"running", "deleted"}]_vars
  BY NextNeverInterrupts DEF NeverInterrupts
<1> QED
  BY <1>1, NoErrorInvariant, PTL DEF Spec, DuplicateNeverInterrupts

ResultStays ==
  \A r \in Runs : \A i \in Stages :
    stageStatus[r][i] \notin {"pending", "running"} =>
      stageStatus'[r][i] \in {stageStatus[r][i], "deleted"}

\* ReportStage is the one unconditional write of a stage row; without failing
\* statements the row is still running when it comes.
LEMMA ResultStep ==
  ASSUME DInv, [Next]_vars
  PROVE  ResultStays
<1> USE RunOfType DEF DInv, LInv, Types, dbVars, ResultStays
<1>1. ASSUME NEW e \in Executions, Execute(e) \/ StatementFails(e) \/ SettleFails(e)
      PROVE  ResultStays
  <2>1. CASE ReportStage(e)
    <3> DEFINE r == RunOf[e]
               i == NextStage(e)
    <3>1. PICK result \in {"success", "failed"} :
            /\ pc[e] \in {"succeeded", "failed"}
            /\ stageStatus' = [stageStatus EXCEPT ![r][i] = IF @ = "deleted" THEN @ ELSE result]
      BY <2>1 DEF ReportStage
    <3>2. runStatus[r] \in {"running", "deleted"}
      BY <3>1 DEF NoErrorInv, Claimed, Looping
    <3>3. runStatus[r] = "deleted" => \A j \in Stages : stageStatus[r][j] = "deleted"
      BY DEF IInv, StageInv
    <3>4. runStatus[r] = "running" => stageStatus[r][i] = "running"
      BY <3>1 DEF ProgressInv, InLoop, Progress, MayBeRunning
    <3> QED
      BY <3>1, <3>2, <3>3, <3>4
  <2>2. CASE BeginStage(e)
    <3> DEFINE r == RunOf[e]
               i == NextStage(e)
    <3>1. \/ UNCHANGED stageStatus
          \/ /\ stageStatus[r][i] = "pending"
             /\ stageStatus' = [stageStatus EXCEPT ![r][i] = "running"]
      BY <2>2 DEF BeginStage, ReturnIfCancelled
    <3> QED
      BY <3>1
  <2>3. CASE SkipRest(e) \/ Settle(e)
    BY <2>3 DEF SkipRest, Settle, Replace
  <2>4. CASE ~(ReportStage(e) \/ BeginStage(e) \/ SkipRest(e) \/ Settle(e))
    BY <1>1, <2>4
    DEF Execute, Select, AcquireProject, AcquireSlot, Register, Claim, Prepare, Sync, Record,
        EndCommand, FailRun, Finish, WorkFails, Leave, StatementFails, SettleFails,
        ReturnIfCancelled
  <2> QED
    BY <2>1, <2>2, <2>3, <2>4
<1>2. ASSUME NEW r \in Runs, CancelRows(r) PROVE ResultStays
  BY <1>2 DEF CancelRows, Replace
<1>3. ASSUME NEW c \in Cancels, CancelCall(c) \/ CancelFails(c) PROVE ResultStays
  BY <1>2, <1>3 DEF CancelCall, CancelToken, CancelPending, CancelFails
<1>4. ASSUME NEW r \in Runs, ApiCancel(r) PROVE ResultStays
  BY <1>2, <1>4 DEF ApiCancel
<1> QED
  BY <1>1, <1>3, <1>4 DEF Next, DeleteProject, Restart, Quiesce, vars

\* As long as no statement fails, the status a stage ended with is only ever
\* taken away by the deletion of its project.
THEOREM StageResultsFinal ==
  ASSUME MaxDbErrors = 0
  PROVE  Spec => StageResultIsFinal
<1>1. DInv /\ [Next]_vars =>
        [\A r \in Runs : \A i \in Stages :
           stageStatus[r][i] \notin {"pending", "running"} =>
             stageStatus'[r][i] \in {stageStatus[r][i], "deleted"}]_vars
  BY ResultStep DEF ResultStays
<1> QED
  BY <1>1, NoErrorInvariant, PTL DEF Spec, StageResultIsFinal
=============================================================================

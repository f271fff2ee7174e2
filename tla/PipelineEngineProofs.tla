------------------------ MODULE PipelineEngineProofs ------------------------
(***************************************************************************)
(* Proofs about PipelineEngine, for every set of projects, runs, stages    *)
(* and calls, every concurrency limit and any number of failing statements *)
(* and restarts.                                                           *)
(***************************************************************************)
EXTENDS PipelineEngine, FiniteSetTheorems, WellFoundedInduction, TLAPS

\* The project permit is out exactly to the executions whose pc says so.
LockInv ==
  \A e \in Executions :
    pc[e] \in HoldsProject <=> projectLock[ProjectOfExec(e)] = e

SlotHolders == {e \in Executions : pc[e] \in HoldsSlot}

\* Permits are neither lost nor made up.
SlotInv == freeSlots = Slots - Cardinality(SlotHolders)

\* The claim decides who works on a run, and the run stays running until that
\* execution, or a duplicate that fails it, gives it another status.
ClaimInv ==
  /\ \A r \in Runs : runStatus[r] = "pending" => claimant[r] = None
  /\ \A e \in Executions :
       pc[e] \in Claimed \cup {"cancelling"} => claimant[RunOf[e]] = e
  /\ \A e \in Executions :
       pc[e] \in Claimed => runStatus[RunOf[e]] \in {"running", "failed", "deleted"}

\* The stages an execution may still start, and the one it has started.
MayBePending(e) ==
  CASE pc[e] = "prepare"  -> Enabled[RunOf[e]]
    [] pc[e] = "skipRest" -> Stages
    [] pc[e] = "failRun"  -> {}
    [] OTHER              -> todo[e]

MayBeRunning(e) ==
  IF pc[e] \in {"command", "succeeded", "failed"} THEN {NextStage(e)} ELSE {}

LoopOK(e) ==
  \A i \in Stages :
    /\ stageStatus[RunOf[e]][i] = "pending" => i \in MayBePending(e)
    /\ stageStatus[RunOf[e]][i] = "running" => i \in MayBeRunning(e)

\* What the stage rows of a run can be, by where its execution stands.
StageInv ==
  /\ \A r \in Runs : runStatus[r] = "deleted" =>
       \A i \in Stages : stageStatus[r][i] = "deleted"
  /\ \A r \in Runs : \A i \in Stages \ Enabled[r] :
       stageStatus[r][i] \notin {"pending", "running"}
  /\ \A r \in Runs : runStatus[r] = "pending" =>
       \A i \in Stages : stageStatus[r][i] # "running"
  /\ \A e \in Executions : pc[e] \in Claimed => LoopOK(e)

IInv ==
  TypeOK /\ LockInv /\ SlotInv /\ ClaimInv /\ StageInv /\ TerminalRunSettled

-----------------------------------------------------------------------------
(* Facts every step shares.                                                *)

LEMMA SlotsNat == Slots \in Nat \ {0}
  BY EngineAssumption DEF Slots

\* Labels fall apart as their names say.
LEMMA LabelSets ==
  /\ Claimed \subseteq HoldsSlot
  /\ HoldsSlot \subseteq HoldsProject
  /\ HoldsProject \subseteq Labels
  /\ "slot" \notin HoldsSlot
  /\ {"select", "project", "failing", "cancelling", "leaving", "done", "dead"}
       \cap HoldsProject = {}
  BY DEF Claimed, Looping, HoldsSlot, HoldsProject, Labels

\* The steps of an execution that wait for nothing, touch no permit and no
\* token: pc moves between labels that hold the same.
Moves(e, label) ==
  /\ pc' = [pc EXCEPT ![e] = label]
  /\ UNCHANGED <<projectLock, freeSlots>>

\* The next stage is one of the stages to do, and the first of them.
LEMMA LeastIsLeast ==
  ASSUME NEW S \in SUBSET Nat, S # {}
  PROVE  Least(S) \in S /\ \A j \in S : Least(S) <= j
<1>1. PICK x \in S : \A y \in S : <<y, x>> \notin OpToRel(<, Nat)
  BY NatLessThanWellFounded, WFMin, Zenon
<1>2. \A y \in S : ~(y < x)
  BY <1>1, Zenon DEF OpToRel
<1>3. \A y \in S : x <= y
  BY <1>2
<1>4. \E i \in S : \A j \in S : i <= j
  BY <1>3
<1> QED
  BY <1>4, Zenon DEF Least

LEMMA SlotHoldersFinite ==
  ASSUME TypeOK
  PROVE  IsFiniteSet(SlotHolders) /\ Cardinality(SlotHolders) \in Nat
<1>1. SlotHolders \subseteq Executions
  BY DEF SlotHolders
<1> QED
  BY <1>1, EngineAssumption, FS_Subset, FS_CardinalityType

-----------------------------------------------------------------------------
(* Permits                                                                 *)

\* A return from execute_inner drops what the execution held.
LEMMA ReturnPermits ==
  ASSUME TypeOK, LockInv, SlotInv, NEW e \in Executions,
         NEW label \in Settling \cup {"leaving"}, Return(e, label)
  PROVE  LockInv' /\ SlotInv' /\ freeSlots' \in 0 .. Slots
<1> USE DEF TypeOK
<1>0. /\ ProjectOfExec(e) \in Projects
      /\ \A d \in Executions : ProjectOfExec(d)' = ProjectOfExec(d)
      /\ label \notin HoldsProject
      /\ e # None
  BY EngineAssumption DEF ProjectOfExec, Settling, HoldsProject, HoldsSlot, Claimed, Looping
<1>1. LockInv'
  <2> SUFFICES ASSUME NEW d \in Executions
               PROVE  (pc[d] \in HoldsProject <=> projectLock[ProjectOfExec(d)] = d)'
    BY DEF LockInv
  <2>1. CASE d = e
    BY <1>0, <2>1, EngineAssumption DEF Return, Goto, LockInv
  <2>2. CASE d # e
    <3>1. pc'[d] = pc[d]
      BY <2>2 DEF Return, Goto
    <3>2. projectLock'[ProjectOfExec(d)] = d <=> projectLock[ProjectOfExec(d)] = d
      BY <2>2, <1>0, EngineAssumption DEF Return, LockInv
    <3> QED
      BY <3>1, <3>2, <1>0 DEF LockInv
  <2> QED
    BY <2>1, <2>2
<1>2. CASE pc[e] \in HoldsSlot
  <2>1. SlotHolders' = SlotHolders \ {e}
    BY <1>0, <1>2, LabelSets DEF SlotHolders, Return, Goto
  <2>2. Cardinality(SlotHolders') = Cardinality(SlotHolders) - 1
    BY <2>1, <1>2, SlotHoldersFinite, FS_RemoveElement DEF SlotHolders
  <2>3. Cardinality(SlotHolders') \in Nat
    BY <2>1, SlotHoldersFinite, FS_RemoveElement, FS_CardinalityType
  <2>4. freeSlots' = freeSlots + 1
    BY <1>2 DEF Return
  <2>5. SlotInv'
    BY <2>2, <2>4, SlotHoldersFinite, SlotsNat DEF SlotInv, Slots
  <2>6. freeSlots' \in 0 .. Slots
    BY <2>2, <2>3, <2>4, SlotHoldersFinite, SlotsNat DEF SlotInv
  <2> QED
    BY <1>1, <2>5, <2>6
<1>3. CASE pc[e] \notin HoldsSlot
  <2>1. SlotHolders' = SlotHolders
    BY <1>0, <1>3, LabelSets DEF SlotHolders, Return, Goto
  <2> QED
    BY <1>1, <1>3, <2>1 DEF SlotInv, Return, Slots
<1> QED
  BY <1>2, <1>3

\* A step between two labels that hold the same permits.
LEMMA MovePermits ==
  ASSUME TypeOK, LockInv, SlotInv, NEW e \in Executions, NEW label, Moves(e, label),
         label \in HoldsProject <=> pc[e] \in HoldsProject,
         label \in HoldsSlot <=> pc[e] \in HoldsSlot
  PROVE  LockInv' /\ SlotInv' /\ freeSlots' \in 0 .. Slots
<1>1. \A d \in Executions : /\ pc'[d] \in HoldsProject <=> pc[d] \in HoldsProject
                            /\ pc'[d] \in HoldsSlot <=> pc[d] \in HoldsSlot
  BY DEF Moves, TypeOK
<1>2. SlotHolders' = SlotHolders
  BY <1>1 DEF SlotHolders
<1>3. SlotInv' /\ freeSlots' \in 0 .. Slots
  BY <1>2 DEF SlotInv, Moves, TypeOK, Slots
<1> QED
  BY <1>1, <1>3 DEF LockInv, Moves, ProjectOfExec

\* A step that leaves pc and the permits alone.
LEMMA StillPermits ==
  ASSUME TypeOK, LockInv, SlotInv, UNCHANGED <<projectLock, freeSlots, pc>>
  PROVE  LockInv' /\ SlotInv' /\ freeSlots' \in 0 .. Slots
  BY DEF TypeOK, LockInv, SlotInv, SlotHolders, ProjectOfExec, Slots

LEMMA AcquireProjectPermits ==
  ASSUME TypeOK, LockInv, SlotInv, NEW e \in Executions, AcquireProject(e)
  PROVE  LockInv' /\ SlotInv' /\ freeSlots' \in 0 .. Slots
<1> USE DEF TypeOK
<1>0. ProjectOfExec(e) \in Projects /\ e # None
  BY EngineAssumption DEF ProjectOfExec
<1>1. SlotHolders' = SlotHolders
  BY LabelSets DEF SlotHolders, AcquireProject, Goto, HoldsSlot, Claimed, Looping
<1>2. SlotInv' /\ freeSlots' \in 0 .. Slots
  BY <1>1 DEF SlotInv, AcquireProject, Slots
<1>3. LockInv'
  BY <1>0, EngineAssumption
  DEF LockInv, AcquireProject, Goto, HoldsProject, HoldsSlot, Claimed, Looping, ProjectOfExec
<1> QED
  BY <1>2, <1>3

LEMMA AcquireSlotPermits ==
  ASSUME TypeOK, LockInv, SlotInv, NEW e \in Executions, AcquireSlot(e)
  PROVE  LockInv' /\ SlotInv' /\ freeSlots' \in 0 .. Slots
<1> USE DEF TypeOK
<1>1. SlotHolders' = SlotHolders \cup {e} /\ e \notin SlotHolders
  BY DEF SlotHolders, AcquireSlot, Goto, HoldsSlot, Claimed, Looping
<1>2. Cardinality(SlotHolders') = Cardinality(SlotHolders) + 1
  BY <1>1, SlotHoldersFinite, FS_AddElement
<1>3. freeSlots' \in 0 .. Slots
  BY SlotsNat DEF AcquireSlot
<1>4. freeSlots \in Nat /\ Slots \in Nat /\ Slots' = Slots
  BY SlotsNat DEF Slots
<1>5. SlotInv'
  BY <1>2, <1>4, SlotHoldersFinite DEF SlotInv, AcquireSlot
<1>6. LockInv'
  BY DEF LockInv, AcquireSlot, Goto, HoldsProject, HoldsSlot, Claimed, Looping, ProjectOfExec
<1> QED
  BY <1>3, <1>5, <1>6

Returns(e) == \E label \in Settling \cup {"leaving"} : Return(e, label)

\* A step between labels that hold the same permits.
Stays(e) ==
  \E label \in Labels :
    /\ Moves(e, label)
    /\ label \in HoldsProject <=> pc[e] \in HoldsProject
    /\ label \in HoldsSlot <=> pc[e] \in HoldsSlot

\* Apart from the two acquisitions a step of an execution returns from
\* execute_inner or keeps the permits it has.
LEMMA ExecutionSteps ==
  ASSUME NEW e \in Executions,
         Execute(e) \/ StatementFails(e) \/ SettleFails(e)
  PROVE  AcquireProject(e) \/ AcquireSlot(e) \/ Returns(e) \/ Stays(e)
<1> USE DEF Goto, lockVars, Returns, Stays, Moves, Settling, ReturnIfCancelled,
            HoldsProject, HoldsSlot, Claimed, Looping, Labels
<1>1. CASE Select(e)
  <2>1. CASE runStatus[RunOf[e]] = "pending"
    <3>1. Moves(e, "project")
      BY <1>1, <2>1 DEF Select
    <3> QED
      BY <1>1, <3>1 DEF Select
  <2>2. CASE runStatus[RunOf[e]] # "pending"
    <3>1. Moves(e, "leaving")
      BY <1>1, <2>2 DEF Select
    <3> QED
      BY <1>1, <3>1 DEF Select
  <2> QED
    BY <2>1, <2>2
<1>2. CASE Register(e)
  BY <1>2 DEF Register
<1>3. CASE Claim(e)
  BY <1>3 DEF Claim
<1>4. CASE Prepare(e)
  BY <1>4 DEF Prepare
<1>5. CASE Sync(e)
  BY <1>5 DEF Sync
<1>6. CASE Record(e)
  BY <1>6 DEF Record
<1>7. CASE BeginStage(e)
  BY <1>7 DEF BeginStage
<1>8. CASE EndCommand(e)
  BY <1>8 DEF EndCommand
<1>9. CASE ReportStage(e)
  BY <1>9 DEF ReportStage
<1>10. CASE SkipRest(e)
  BY <1>10 DEF SkipRest
<1>11. CASE FailRun(e)
  BY <1>11 DEF FailRun
<1>12. CASE Finish(e)
  BY <1>12 DEF Finish
<1>13. CASE WorkFails(e) \/ StatementFails(e)
  BY <1>13 DEF WorkFails, StatementFails
<1>14. CASE Settle(e) \/ SettleFails(e)
  BY <1>14 DEF Settle, SettleFails
<1>15. CASE Leave(e)
  BY <1>15 DEF Leave
<1> QED
  BY <1>1, <1>2, <1>3, <1>4, <1>5, <1>6, <1>7, <1>8, <1>9, <1>10, <1>11,
     <1>12, <1>13, <1>14, <1>15 DEF Execute

\* What is not an execution's step leaves pc and the permits alone, except
\* for the restart.
LEMMA OtherSteps ==
  ASSUME \/ \E c \in Cancels : CancelCall(c) \/ CancelFails(c)
         \/ \E r \in Runs : ApiCancel(r)
         \/ \E p \in Deletable : DeleteProject(p)
         \/ Quiesce
         \/ UNCHANGED vars
  PROVE  UNCHANGED <<projectLock, freeSlots, pc>>
  BY DEF CancelCall, CancelToken, CancelPending, CancelFails, ApiCancel, DeleteProject,
         Quiesce, vars, lockVars

LEMMA RestartPermits ==
  ASSUME TypeOK, Restart
  PROVE  LockInv' /\ SlotInv' /\ freeSlots' \in 0 .. Slots
<1>1. SlotHolders' = {}
  BY DEF SlotHolders, Restart, HoldsSlot, Claimed, Looping
<1>2. SlotInv' /\ freeSlots' \in 0 .. Slots
  BY <1>1, FS_EmptySet, SlotsNat DEF SlotInv, Restart, Slots
<1>3. LockInv'
  BY EngineAssumption
  DEF LockInv, Restart, HoldsProject, HoldsSlot, Claimed, Looping, ProjectOfExec
<1> QED
  BY <1>2, <1>3

LEMMA NextPermits ==
  ASSUME TypeOK, LockInv, SlotInv, [Next]_vars
  PROVE  LockInv' /\ SlotInv' /\ freeSlots' \in 0 .. Slots
<1>1. ASSUME NEW e \in Executions, Execute(e) \/ StatementFails(e) \/ SettleFails(e)
      PROVE  LockInv' /\ SlotInv' /\ freeSlots' \in 0 .. Slots
  BY <1>1, ExecutionSteps, AcquireProjectPermits, AcquireSlotPermits, ReturnPermits,
     MovePermits DEF Returns, Stays
<1> QED
  BY <1>1, RestartPermits, OtherSteps, StillPermits DEF Next

-----------------------------------------------------------------------------
(* Types                                                                   *)

\* All of TypeOK but the range of freeSlots, which rests on SlotInv.
Types ==
  /\ runStatus \in [Runs -> RunStatuses]
  /\ stageStatus \in [Runs -> [Stages -> StageStatuses]]
  /\ claimant \in [Runs -> Executions \cup {None}]
  /\ running \in [Runs -> Executions \cup {None}]
  /\ cancelled \subseteq Executions
  /\ projectLock \in [Projects -> Executions \cup {None}]
  /\ pc \in [Executions -> Labels]
  /\ todo \in [Executions -> SUBSET Stages]
  /\ cancelState \in [Cancels -> CancelStates]
  /\ dbErrors \in 0 .. MaxDbErrors
  /\ crashes \in 0 .. MaxCrashes

LEMMA RunOfType ==
  /\ \A e \in Executions : RunOf[e] \in Runs /\ ProjectOfExec(e) \in Projects
  /\ \A c \in Cancels : RunOf[c] \in Runs
  BY EngineAssumption DEF ProjectOfExec

LEMMA ReplaceType ==
  ASSUME NEW stages \in [Stages -> StageStatuses], NEW from, NEW to \in StageStatuses
  PROVE  Replace(stages, from, to) \in [Stages -> StageStatuses]
  BY DEF Replace

LEMMA ReturnTypes ==
  ASSUME Types, NEW e \in Executions, NEW label \in Labels, Return(e, label)
  PROVE  /\ pc' \in [Executions -> Labels]
         /\ projectLock' \in [Projects -> Executions \cup {None}]
  BY DEF Types, Return, Goto

LEMMA ReturnIfCancelledTypes ==
  ASSUME Types, NEW e \in Executions, ReturnIfCancelled(e), UNCHANGED CallVars
  PROVE  Types'
<1>1. "cancelling" \in Labels
  BY DEF Labels, Settling
<1> QED
  BY <1>1, ReturnTypes DEF Types, ReturnIfCancelled, dbVars, CallVars

LEMMA ExecuteTypes ==
  ASSUME Types, NEW e \in Executions,
         Execute(e) \/ StatementFails(e) \/ SettleFails(e)
  PROVE  Types'
<1> USE RunOfType DEF Types, Goto, ReplaceRun, dbVars, lockVars, CallVars
<1>0. /\ {"select", "project", "leaving", "done", "failing", "cancelling"} \subseteq Labels
      /\ HoldsProject \subseteq Labels
      /\ {"slot", "register", "claim", "prepare", "sync", "record", "stages", "command",
          "succeeded", "failed", "skipRest", "failRun"} \subseteq Labels
      /\ {"running", "success", "failed", "skipped", "cancelled", "deleted"} \subseteq StageStatuses
      /\ {"running", "success", "failed", "cancelled", "deleted"} \subseteq RunStatuses
  BY DEF Labels, HoldsProject, HoldsSlot, Claimed, Looping, Settling,
         StageStatuses, RunStatuses, Terminal
<1>1. CASE Select(e)
  BY <1>1, <1>0 DEF Select
<1>2. CASE AcquireProject(e)
  BY <1>2, <1>0 DEF AcquireProject
<1>3. CASE AcquireSlot(e)
  BY <1>3, <1>0 DEF AcquireSlot
<1>4. CASE Register(e)
  BY <1>4, <1>0, ReturnTypes DEF Register
<1>5. CASE Claim(e)
  BY <1>5, <1>0, ReturnTypes DEF Claim
<1>6. CASE Prepare(e)
  <2>1. CASE ReturnIfCancelled(e)
    BY <1>6, <2>1, ReturnIfCancelledTypes DEF Prepare
  <2>2. CASE ~ReturnIfCancelled(e)
    <3>1. Enabled[RunOf[e]] \in SUBSET Stages
      BY EngineAssumption DEF Stages
    <3>2. todo' \in [Executions -> SUBSET Stages]
      BY <1>6, <2>2, <3>1 DEF Prepare
    <3>3. pc' \in [Executions -> Labels]
      BY <1>6, <1>0, <2>2 DEF Prepare
    <3> QED
      BY <1>6, <2>2, <3>2, <3>3 DEF Prepare
  <2> QED
    BY <2>1, <2>2
<1>7. CASE Sync(e)
  BY <1>7, <1>0, ReturnIfCancelledTypes DEF Sync
<1>8. CASE Record(e)
  BY <1>8, <1>0, ReturnTypes, ReturnIfCancelledTypes DEF Record
<1>9. CASE BeginStage(e)
  <2>1. CASE ReturnIfCancelled(e)
    BY <1>9, <2>1, ReturnIfCancelledTypes DEF BeginStage
  <2>2. CASE ~ReturnIfCancelled(e)
    <3>1. stageStatus' \in [Runs -> [Stages -> StageStatuses]]
      <4>1. CASE stageStatus[RunOf[e]][NextStage(e)] = "pending"
        <5>1. stageStatus' = [stageStatus EXCEPT
                ![RunOf[e]] = [@ EXCEPT ![NextStage(e)] = "running"]]
          BY <1>9, <2>2, <4>1 DEF BeginStage
        <5>2. [stageStatus[RunOf[e]] EXCEPT ![NextStage(e)] = "running"]
                \in [Stages -> StageStatuses]
          BY <1>0
        <5> QED
          BY <5>1, <5>2
      <4>2. CASE stageStatus[RunOf[e]][NextStage(e)] # "pending"
        BY <1>9, <2>2, <4>2 DEF BeginStage
      <4> QED
        BY <4>1, <4>2
    <3>2. /\ pc' \in [Executions -> Labels]
          /\ projectLock' \in [Projects -> Executions \cup {None}]
      BY <1>9, <1>0, <2>2, ReturnTypes DEF BeginStage
    <3> QED
      BY <1>9, <2>2, <3>1, <3>2 DEF BeginStage
  <2> QED
    BY <2>1, <2>2
<1>10. CASE EndCommand(e)
  BY <1>10, <1>0, ReturnIfCancelledTypes DEF EndCommand
<1>11. CASE ReportStage(e)
  <2>1. stageStatus' \in [Runs -> [Stages -> StageStatuses]]
    BY <1>11, <1>0 DEF ReportStage
  <2>2. /\ pc' \in [Executions -> Labels]
        /\ todo' \in [Executions -> SUBSET Stages]
    BY <1>11, <1>0 DEF ReportStage
  <2> QED
    BY <1>11, <2>1, <2>2 DEF ReportStage
<1>12. CASE SkipRest(e)
  <2>1. Replace(stageStatus[RunOf[e]], "pending", "skipped") \in [Stages -> StageStatuses]
    BY <1>0, ReplaceType
  <2> QED
    BY <1>12, <1>0, <2>1 DEF SkipRest
<1>13. CASE FailRun(e)
  BY <1>13, <1>0, ReturnTypes DEF FailRun
<1>14. CASE Finish(e)
  BY <1>14, <1>0, ReturnTypes, ReturnIfCancelledTypes DEF Finish
<1>15. CASE WorkFails(e) \/ StatementFails(e)
  BY <1>15, <1>0, ReturnTypes, EngineAssumption DEF WorkFails, StatementFails
<1>16. CASE Settle(e)
  <2> DEFINE status == IF pc[e] = "failing" THEN "failed" ELSE "cancelled"
             stages == Replace(Replace(stageStatus[RunOf[e]], "running", status),
                               "pending", "skipped")
  <2>1. stages \in [Stages -> StageStatuses]
    BY <1>0, ReplaceType
  <2> QED
    BY <1>16, <1>0, <2>1 DEF Settle
<1>17. CASE SettleFails(e)
  BY <1>17, <1>0, EngineAssumption DEF SettleFails
<1>18. CASE Leave(e)
  BY <1>18, <1>0 DEF Leave
<1> QED
  BY <1>1, <1>2, <1>3, <1>4, <1>5, <1>6, <1>7, <1>8, <1>9, <1>10, <1>11, <1>12,
     <1>13, <1>14, <1>15, <1>16, <1>17, <1>18 DEF Execute

LEMMA CancelRowsTypes ==
  ASSUME Types, NEW r \in Runs, CancelRows(r)
  PROVE  /\ runStatus' \in [Runs -> RunStatuses]
         /\ stageStatus' \in [Runs -> [Stages -> StageStatuses]]
<1>1. Replace(stageStatus[r], "pending", "cancelled") \in [Stages -> StageStatuses]
  BY ReplaceType DEF Types, StageStatuses, RunStatuses, Terminal
<1> QED
  BY <1>1 DEF Types, CancelRows, ReplaceRun, RunStatuses, Terminal

LEMMA OtherTypes ==
  ASSUME Types,
         \/ \E c \in Cancels : CancelCall(c) \/ CancelFails(c)
         \/ \E r \in Runs : ApiCancel(r)
         \/ \E p \in Deletable : DeleteProject(p)
         \/ Restart
         \/ Quiesce
         \/ UNCHANGED vars
  PROVE  Types'
<1> USE RunOfType DEF Types, dbVars, lockVars, CallVars, CancelStates
<1>1. ASSUME NEW c \in Cancels, CancelToken(c) PROVE Types'
  BY <1>1 DEF CancelToken
<1>2. ASSUME NEW c \in Cancels, CancelPending(c) PROVE Types'
  BY <1>2, CancelRowsTypes DEF CancelPending
<1>3. ASSUME NEW c \in Cancels, CancelFails(c) PROVE Types'
  BY <1>3, EngineAssumption DEF CancelFails
<1>4. ASSUME NEW r \in Runs, ApiCancel(r) PROVE Types'
  BY <1>4, CancelRowsTypes DEF ApiCancel
<1>5. ASSUME NEW p \in Deletable, DeleteProject(p) PROVE Types'
  BY <1>5 DEF DeleteProject, RunStatuses, StageStatuses
<1>6. CASE Restart
  BY <1>6, EngineAssumption DEF Restart, Labels
<1>7. CASE Quiesce \/ UNCHANGED vars
  BY <1>7 DEF Quiesce, vars
<1> QED
  BY <1>1, <1>2, <1>3, <1>4, <1>5, <1>6, <1>7 DEF CancelCall

LEMMA NextTypes ==
  ASSUME TypeOK, LockInv, SlotInv, [Next]_vars
  PROVE  TypeOK' /\ LockInv' /\ SlotInv'
<1>1. Types
  BY DEF TypeOK, Types
<1>2. Types'
  BY <1>1, ExecuteTypes, OtherTypes DEF Next
<1> QED
  BY <1>2, NextPermits DEF TypeOK, Types

LEMMA InitTypes == Init => TypeOK /\ LockInv /\ SlotInv
<1> SUFFICES ASSUME Init PROVE TypeOK /\ LockInv /\ SlotInv
  OBVIOUS
<1>1. SlotHolders = {}
  BY DEF Init, SlotHolders, HoldsSlot, Claimed, Looping
<1>2. SlotInv
  BY <1>1, FS_EmptySet, SlotsNat DEF Init, SlotInv
<1>3. LockInv
  BY RunOfType, EngineAssumption
  DEF Init, LockInv, HoldsProject, HoldsSlot, Claimed, Looping
<1>4. TypeOK
  BY EngineAssumption, SlotsNat
  DEF Init, TypeOK, InitialStages, RunStatuses, StageStatuses, Labels, CancelStates
<1> QED
  BY <1>2, <1>3, <1>4

\* Types, project permits and slots are invariant.
LEMMA PermitsInvariant == Spec => [](TypeOK /\ LockInv /\ SlotInv)
<1>1. Init => TypeOK /\ LockInv /\ SlotInv
  BY InitTypes
<1>2. TypeOK /\ LockInv /\ SlotInv /\ [Next]_vars => (TypeOK /\ LockInv /\ SlotInv)'
  BY NextTypes
<1> QED
  BY <1>1, <1>2, PTL DEF Spec

\* The engine's state keeps its types, freeSlots its range included: no path
\* returns a permit it does not hold.
THEOREM TypeCorrect == Spec => []TypeOK
  BY PermitsInvariant, PTL

\* Executions of one project exclude each other from their permit to the
\* return of execute_inner.
THEOREM ProjectsExclusive == Spec => []ProjectExclusive
<1>1. LockInv => ProjectExclusive
  BY DEF LockInv, ProjectExclusive
<1> QED
  BY <1>1, PermitsInvariant, PTL

\* No more than max(1, max_concurrency) runs are executed at once.
THEOREM ConcurrencyBounded == Spec => []ConcurrencyBound
<1>1. TypeOK /\ SlotInv => ConcurrencyBound
  <2> SUFFICES ASSUME TypeOK, SlotInv PROVE ConcurrencyBound
    OBVIOUS
  <2>1. freeSlots \in Nat /\ Slots \in Nat
    BY SlotsNat DEF TypeOK
  <2> QED
    BY <2>1, SlotHoldersFinite DEF SlotInv, ConcurrencyBound, SlotHolders
<1> QED
  BY <1>1, PermitsInvariant, PTL

-----------------------------------------------------------------------------
(* The claim                                                               *)

\* Executions that have claimed their run stay its claimant, and only they
\* become so, when a step changes neither statuses nor claims.
LEMMA ClaimFrame ==
  ASSUME Types, ClaimInv, NEW e \in Executions, NEW label,
         UNCHANGED <<runStatus, claimant>>,
         pc' = [pc EXCEPT ![e] = label],
         label \in Claimed \cup {"cancelling"} => pc[e] \in Claimed
  PROVE  ClaimInv'
<1> USE DEF Types
<1>1. \A d \in Executions : d # e => pc'[d] = pc[d]
  OBVIOUS
<1>2. pc'[e] = label
  OBVIOUS
<1> QED
  BY <1>1, <1>2 DEF ClaimInv

\* Which status an execution's step can give its run, and what it claims.
LEMMA ExecuteClaim ==
  ASSUME Types, ClaimInv, NEW e \in Executions,
         Execute(e) \/ StatementFails(e) \/ SettleFails(e)
  PROVE  ClaimInv'
<1> USE DEF Goto, Return, ReturnIfCancelled, dbVars, lockVars, Claimed, Looping
<1>1. CASE Select(e)
  <2>1. PICK label \in {"project", "leaving"} : pc' = [pc EXCEPT ![e] = label]
    BY <1>1 DEF Select
  <2> QED
    BY <1>1, <2>1, ClaimFrame DEF Select
<1>2. CASE AcquireProject(e) \/ AcquireSlot(e) \/ Leave(e) \/ SettleFails(e)
  BY <1>2, ClaimFrame DEF AcquireProject, AcquireSlot, Leave, SettleFails
<1>3. CASE Register(e)
  BY <1>3, ClaimFrame DEF Register
<1>4. CASE Claim(e)
  <2>1. CASE runStatus[RunOf[e]] = "pending"
    <3>1. /\ claimant[RunOf[e]] = None
          /\ RunOf[e] \in Runs
      BY <2>1, RunOfType DEF ClaimInv
    <3>2. \A d \in Executions : pc[d] \in Claimed \cup {"cancelling"} => RunOf[d] # RunOf[e]
      BY <3>1, EngineAssumption DEF ClaimInv
    <3>3. /\ runStatus' = [runStatus EXCEPT ![RunOf[e]] = "running"]
          /\ claimant' = [claimant EXCEPT ![RunOf[e]] = e]
          /\ pc' = [pc EXCEPT ![e] = "prepare"]
      BY <1>4, <2>1 DEF Claim
    <3>4. \A r \in Runs : runStatus'[r] = "pending" => claimant'[r] = None
      BY <3>1, <3>3 DEF ClaimInv, Types
    <3>5. \A d \in Executions :
            pc'[d] \in Claimed \cup {"cancelling"} =>
              /\ claimant'[RunOf[d]] = d
              /\ pc'[d] \in Claimed => runStatus'[RunOf[d]] \in {"running", "failed", "deleted"}
      BY <3>1, <3>2, <3>3, RunOfType DEF ClaimInv, Types
    <3> QED
      BY <3>4, <3>5 DEF ClaimInv
  <2>2. CASE runStatus[RunOf[e]] # "pending"
    BY <1>4, <2>2, ClaimFrame DEF Claim
  <2> QED
    BY <2>1, <2>2
<1>5. CASE Prepare(e)
  <2>1. PICK label \in {"cancelling", "sync", "stages"} : pc' = [pc EXCEPT ![e] = label]
    BY <1>5 DEF Prepare
  <2> QED
    BY <1>5, <2>1, ClaimFrame DEF Prepare
<1>6. CASE Sync(e)
  BY <1>6, ClaimFrame DEF Sync
<1>7. CASE Record(e)
  BY <1>7, ClaimFrame DEF Record
<1>8. CASE BeginStage(e)
  BY <1>8, ClaimFrame DEF BeginStage
<1>9. CASE EndCommand(e)
  BY <1>9, ClaimFrame DEF EndCommand
<1>10. CASE ReportStage(e)
  BY <1>10, ClaimFrame DEF ReportStage
<1>11. CASE SkipRest(e)
  BY <1>11, ClaimFrame DEF SkipRest
<1>12. CASE FailRun(e)
  BY <1>12, RunOfType DEF FailRun, ClaimInv, Types
<1>13. CASE Finish(e)
  <2>1. CASE e \in cancelled
    BY <1>13, <2>1, ClaimFrame DEF Finish
  <2>2. CASE e \notin cancelled
    <3>1. PICK label \in {"leaving", "failing"} : pc' = [pc EXCEPT ![e] = label]
      BY <1>13, <2>2 DEF Finish
    <3>2. \A d \in Executions : d # e /\ pc[d] \in Claimed => RunOf[d] # RunOf[e]
      BY <1>13 DEF Finish, ClaimInv
    <3>3. runStatus[RunOf[e]] # "pending" /\ UNCHANGED claimant
      BY <1>13, <2>2 DEF Finish, ClaimInv
    <3>4. runStatus' = [runStatus EXCEPT ![RunOf[e]] = IF @ = "running" THEN "success" ELSE @]
      BY <1>13, <2>2 DEF Finish, ReplaceRun
    <3> QED
      BY <3>1, <3>2, <3>3, <3>4, RunOfType DEF ClaimInv, Types
  <2> QED
    BY <2>1, <2>2
<1>14. CASE WorkFails(e) \/ StatementFails(e)
  BY <1>14, ClaimFrame DEF WorkFails, StatementFails
<1>15. CASE Settle(e)
  <2>1. pc' = [pc EXCEPT ![e] = "leaving"] /\ UNCHANGED claimant
    BY <1>15 DEF Settle
  <2>2. CASE pc[e] = "failing"
    <3>1. runStatus' = [runStatus EXCEPT ![RunOf[e]] = IF @ = "running" THEN "failed" ELSE @]
      BY <1>15, <2>2 DEF Settle, ReplaceRun
    <3> QED
      BY <2>1, <3>1, RunOfType DEF ClaimInv, Types
  <2>3. CASE pc[e] = "cancelling"
    <3>1. runStatus' = [runStatus EXCEPT ![RunOf[e]] = IF @ = "running" THEN "cancelled" ELSE @]
      BY <1>15, <2>3 DEF Settle, ReplaceRun
    <3>2. \A d \in Executions : d # e /\ pc[d] \in Claimed => RunOf[d] # RunOf[e]
      BY <2>3 DEF ClaimInv
    <3> QED
      BY <2>1, <2>3, <3>1, <3>2, RunOfType DEF ClaimInv, Types
  <2> QED
    BY <1>15, <2>2, <2>3 DEF Settle, Settling
<1> QED
  BY <1>1, <1>2, <1>3, <1>4, <1>5, <1>6, <1>7, <1>8, <1>9, <1>10, <1>11, <1>12,
     <1>13, <1>14, <1>15 DEF Execute

LEMMA CancelRowsClaim ==
  ASSUME Types, ClaimInv, NEW r \in Runs, CancelRows(r), UNCHANGED <<claimant, pc>>
  PROVE  ClaimInv'
<1>1. runStatus' = [runStatus EXCEPT ![r] = IF @ = "pending" THEN "cancelled" ELSE @]
  BY DEF CancelRows, ReplaceRun
<1>2. runStatus[r] = "pending" =>
        \A d \in Executions : pc[d] \in Claimed => RunOf[d] # r
  BY RunOfType DEF ClaimInv
<1> QED
  BY <1>1, <1>2, RunOfType DEF ClaimInv, Types

LEMMA OtherClaim ==
  ASSUME Types, ClaimInv,
         \/ \E c \in Cancels : CancelCall(c) \/ CancelFails(c)
         \/ \E r \in Runs : ApiCancel(r)
         \/ \E p \in Deletable : DeleteProject(p)
         \/ Restart
         \/ Quiesce
         \/ UNCHANGED vars
  PROVE  ClaimInv'
<1> USE DEF dbVars, lockVars, CallVars
<1>1. ASSUME NEW c \in Cancels, CancelToken(c) \/ CancelFails(c) PROVE ClaimInv'
  BY <1>1 DEF CancelToken, CancelFails, ClaimInv
<1>2. ASSUME NEW c \in Cancels, CancelPending(c) PROVE ClaimInv'
  BY <1>2, CancelRowsClaim, RunOfType DEF CancelPending
<1>3. ASSUME NEW r \in Runs, ApiCancel(r) PROVE ClaimInv'
  BY <1>3, CancelRowsClaim DEF ApiCancel
<1>4. ASSUME NEW p \in Deletable, DeleteProject(p) PROVE ClaimInv'
  BY <1>4, RunOfType DEF DeleteProject, ClaimInv
<1>5. CASE Restart
  BY <1>5, RunOfType DEF Restart, ClaimInv, Claimed, Looping
<1>6. CASE Quiesce \/ UNCHANGED vars
  BY <1>6 DEF Quiesce, vars, ClaimInv
<1> QED
  BY <1>1, <1>2, <1>3, <1>4, <1>5, <1>6 DEF CancelCall

LEMMA NextClaim ==
  ASSUME Types, ClaimInv, [Next]_vars
  PROVE  ClaimInv'
  BY ExecuteClaim, OtherClaim DEF Next

-----------------------------------------------------------------------------
(* The stage rows                                                          *)

StagesOK == StageInv /\ TerminalRunSettled

SettledRow(r) == \A i \in Stages : stageStatus[r][i] \notin {"pending", "running"}

\* No stage becomes pending or running.
Quiet ==
  \A r \in Runs, i \in Stages :
    stageStatus'[r][i] \in {"pending", "running"} => stageStatus'[r][i] = stageStatus[r][i]

\* A run becomes terminal only with its stages settled, never pending, and
\* deleted with its stages.
StatusOK ==
  \A r \in Runs :
    /\ runStatus'[r] = "pending" => runStatus[r] = "pending"
    /\ runStatus'[r] \in Terminal => runStatus[r] \in Terminal \/ SettledRow(r)'
    /\ runStatus'[r] = "deleted" => \A i \in Stages : stageStatus'[r][i] = "deleted"

LEMMA LoopStays ==
  ASSUME Quiet, NEW d \in Executions, pc'[d] = pc[d], todo'[d] = todo[d], LoopOK(d)
  PROVE  LoopOK(d)'
<1>1. MayBePending(d)' = MayBePending(d)
  BY DEF MayBePending, Stages
<1>2. MayBeRunning(d)' = MayBeRunning(d)
  BY DEF MayBeRunning, NextStage
<1> QED
  BY <1>1, <1>2, RunOfType DEF LoopOK, Quiet, Stages

\* Quiet steps: an execution whose own pc or stages change says for itself
\* that its loop is in order.
LEMMA QuietSteps ==
  ASSUME StagesOK, Quiet, StatusOK,
         \A d \in Executions :
           \/ pc'[d] = pc[d] /\ todo'[d] = todo[d]
           \/ pc'[d] \in Claimed => LoopOK(d)'
  PROVE  StagesOK'
<1>1. \A d \in Executions : pc'[d] \in Claimed => LoopOK(d)'
  BY LoopStays DEF StagesOK, StageInv
<1>2. \A r \in Runs : \A i \in Stages \ Enabled[r] :
        stageStatus'[r][i] \notin {"pending", "running"}
  BY DEF StagesOK, StageInv, Quiet
<1>3. \A r \in Runs : runStatus'[r] = "pending" =>
        \A i \in Stages : stageStatus'[r][i] # "running"
  BY DEF StagesOK, StageInv, Quiet, StatusOK
<1>4. StageInv'
  BY <1>1, <1>2, <1>3 DEF StageInv, Stages, StatusOK
<1>5. TerminalRunSettled'
  <2> SUFFICES ASSUME NEW r \in Runs, runStatus'[r] \in Terminal PROVE SettledRow(r)'
    BY DEF TerminalRunSettled, SettledRow
  <2>1. CASE runStatus[r] \in Terminal
    BY <2>1 DEF StagesOK, TerminalRunSettled, Quiet, SettledRow, Stages
  <2> QED
    BY <2>1 DEF StatusOK
<1> QED
  BY <1>4, <1>5 DEF StagesOK

LEMMA ReplaceQuiet ==
  ASSUME NEW stages \in [Stages -> StageStatuses], NEW from,
         NEW to \in StageStatuses \ {"pending", "running"}, NEW i \in Stages
  PROVE  /\ Replace(stages, from, to)[i] \in {"pending", "running"} =>
              Replace(stages, from, to)[i] = stages[i]
         /\ Replace(stages, from, to)[i] = from => from = to
  BY DEF Replace

\* Steps that change no row.
LEMMA RowFrame ==
  ASSUME StagesOK, UNCHANGED <<runStatus, stageStatus>>
  PROVE  Quiet /\ StatusOK
  BY DEF Quiet, StatusOK, StagesOK, StageInv

LEMMA ReturnStages ==
  ASSUME Types, StagesOK, NEW e \in Executions, Returns(e),
         UNCHANGED <<runStatus, stageStatus, todo>>
  PROVE  StagesOK'
<1>1. PICK label \in Settling \cup {"leaving"} : pc' = [pc EXCEPT ![e] = label]
  BY DEF Returns, Return, Goto
<1>2. pc'[e] \notin Claimed /\ \A d \in Executions : d # e => pc'[d] = pc[d]
  BY <1>1 DEF Settling, Claimed, Looping, Types
<1> QED
  BY <1>2, RowFrame, QuietSteps

\* A step of e to a label of which nothing is required, or whose loop is in order.
LEMMA ExecutionQuiet ==
  ASSUME Types, StagesOK, Quiet, StatusOK, NEW e \in Executions, NEW label,
         pc' = [pc EXCEPT ![e] = label],
         \A d \in Executions : d # e => todo'[d] = todo[d],
         label \in Claimed => LoopOK(e)'
  PROVE  StagesOK'
<1>1. pc'[e] = label /\ \A d \in Executions : d # e => pc'[d] = pc[d]
  BY DEF Types
<1> QED
  BY <1>1, QuietSteps

LEMMA ClaimStages ==
  ASSUME Types, StagesOK, NEW e \in Executions, Claim(e)
  PROVE  StagesOK'
<1> DEFINE r == RunOf[e]
<1> USE RunOfType
<1>1. Quiet
  BY DEF Claim, Quiet
<1>2. StatusOK
  BY DEF Claim, StatusOK, Types, Terminal, StagesOK, StageInv
<1>3. CASE runStatus[r] = "pending"
  <2>1. /\ pc' = [pc EXCEPT ![e] = "prepare"]
        /\ UNCHANGED <<stageStatus, todo>>
    BY <1>3 DEF Claim, Goto
  <2>2. LoopOK(e)'
    <3>1. \A i \in Stages : /\ stageStatus[r][i] = "pending" => i \in Enabled[r]
                            /\ stageStatus[r][i] # "running"
      BY <1>3 DEF StagesOK, StageInv
    <3>2. MayBePending(e)' = Enabled[r]
      BY <2>1 DEF MayBePending, Types
    <3> QED
      BY <2>1, <3>1, <3>2 DEF LoopOK, Stages
  <2> QED
    BY <1>1, <1>2, <2>1, <2>2, ExecutionQuiet
<1>4. CASE runStatus[r] # "pending"
  <2>1. pc' = [pc EXCEPT ![e] = "leaving"] /\ UNCHANGED todo
    BY <1>4 DEF Claim, Return, Goto
  <2> QED
    BY <1>1, <1>2, <2>1, ExecutionQuiet DEF Claimed, Looping
<1> QED
  BY <1>3, <1>4

LEMMA PrepareStages ==
  ASSUME Types, StagesOK, NEW e \in Executions, Prepare(e)
  PROVE  StagesOK'
<1> DEFINE r == RunOf[e]
<1> USE RunOfType
<1>1. CASE ReturnIfCancelled(e)
  BY <1>1, ReturnStages DEF Prepare, ReturnIfCancelled, Returns, Settling, dbVars
<1>2. CASE ~ReturnIfCancelled(e)
  <2>1. PICK label \in {"sync", "stages"} : pc' = [pc EXCEPT ![e] = label]
    BY <1>2 DEF Prepare, Goto
  <2>2. /\ pc[e] = "prepare"
        /\ UNCHANGED <<runStatus, stageStatus>>
        /\ todo' = [todo EXCEPT ![e] = IF runStatus[r] = "deleted" THEN {} ELSE Enabled[r]]
    BY <1>2 DEF Prepare, dbVars
  <2>3. \A i \in Stages : /\ stageStatus[r][i] = "pending" => i \in Enabled[r]
                          /\ stageStatus[r][i] # "running"
    BY <2>2 DEF StagesOK, StageInv, LoopOK, MayBePending, MayBeRunning, Claimed
  <2>4. CASE runStatus[r] # "deleted"
    <3>1. MayBePending(e)' = Enabled[r]
      BY <2>1, <2>2, <2>4 DEF MayBePending, Types
    <3>2. LoopOK(e)'
      BY <2>2, <2>3, <3>1 DEF LoopOK, Stages
    <3> QED
      BY <2>1, <2>2, <3>2, RowFrame, ExecutionQuiet DEF Types
  <2>5. CASE runStatus[r] = "deleted"
    <3>1. \A i \in Stages : stageStatus[r][i] = "deleted"
      BY <2>5 DEF StagesOK, StageInv
    <3>2. LoopOK(e)'
      BY <2>2, <3>1 DEF LoopOK, Stages
    <3> QED
      BY <2>1, <2>2, <3>2, RowFrame, ExecutionQuiet DEF Types
  <2> QED
    BY <2>4, <2>5
<1> QED
  BY <1>1, <1>2

LEMMA SyncStages ==
  ASSUME Types, StagesOK, NEW e \in Executions, Sync(e) \/ Record(e) \/ EndCommand(e)
  PROVE  StagesOK'
<1>0. UNCHANGED <<runStatus, stageStatus, todo>>
  BY DEF Sync, Record, EndCommand, ReturnIfCancelled, dbVars
<1>1. CASE Returns(e)
  BY <1>0, <1>1, ReturnStages
<1>2. CASE ~Returns(e)
  <2>1. \/ pc[e] \in {"sync", "record"}
           /\ \E label \in {"record", "stages"} : pc' = [pc EXCEPT ![e] = label]
        \/ pc[e] = "command"
           /\ \E label \in {"succeeded", "failed"} : pc' = [pc EXCEPT ![e] = label]
    BY <1>2 DEF Sync, Record, EndCommand, ReturnIfCancelled, Returns, Settling, Goto
  <2>2. PICK label \in {"record", "stages", "succeeded", "failed"} :
          pc' = [pc EXCEPT ![e] = label]
    BY <2>1
  <2>3. LoopOK(e)
    BY <2>1 DEF StagesOK, StageInv, Claimed, Looping
  <2>4. MayBePending(e)' = MayBePending(e) /\ MayBeRunning(e)' = MayBeRunning(e)
    BY <1>0, <2>1 DEF MayBePending, MayBeRunning, NextStage, Types
  <2>5. LoopOK(e)'
    BY <1>0, <2>3, <2>4 DEF LoopOK, Stages
  <2> QED
    BY <1>0, <2>2, <2>5, RowFrame, ExecutionQuiet
<1> QED
  BY <1>1, <1>2

\* The one step that makes a stage running: its run has no other execution.
LEMMA BeginStageStages ==
  ASSUME Types, ClaimInv, StagesOK, NEW e \in Executions, BeginStage(e)
  PROVE  StagesOK'
<1> DEFINE r == RunOf[e]
           i == NextStage(e)
<1> USE RunOfType
<1>1. CASE Returns(e) /\ UNCHANGED stageStatus
  BY <1>1, ReturnStages DEF BeginStage, ReturnIfCancelled, dbVars
<1>2. CASE ~(Returns(e) /\ UNCHANGED stageStatus)
  <2>1. /\ pc[e] = "stages"
        /\ todo[e] # {}
        /\ stageStatus[r][i] = "pending"
        /\ stageStatus' = [stageStatus EXCEPT ![r][i] = "running"]
        /\ pc' = [pc EXCEPT ![e] = "command"]
        /\ UNCHANGED <<runStatus, todo>>
    BY <1>2 DEF BeginStage, ReturnIfCancelled, Returns, Settling, Goto, dbVars
  <2>2. i \in Stages
    <3>1. todo[e] \in SUBSET Stages /\ Stages \subseteq Nat
      BY EngineAssumption DEF Types, Stages
    <3> QED
      BY <2>1, <3>1, LeastIsLeast DEF NextStage
  <2>3. /\ runStatus[r] \in {"running", "failed"}
        /\ runStatus[r] \notin Terminal
    BY <2>1, <2>2 DEF ClaimInv, StagesOK, StageInv, TerminalRunSettled, Claimed, Looping
  <2>4. \A q \in Runs : q # r => stageStatus'[q] = stageStatus[q]
    BY <2>1
  <2>5. /\ stageStatus'[r][i] = "running"
        /\ \A j \in Stages : j # i => stageStatus'[r][j] = stageStatus[r][j]
    BY <2>1, <2>2 DEF Types
  <2>6. LoopOK(e)'
    <3>1. MayBePending(e)' = todo[e] /\ MayBeRunning(e)' = {i}
      BY <2>1 DEF MayBePending, MayBeRunning, NextStage, Types
    <3>2. \A j \in Stages : /\ stageStatus[r][j] = "pending" => j \in todo[e]
                            /\ stageStatus[r][j] # "running"
      BY <2>1 DEF StagesOK, StageInv, LoopOK, MayBePending, MayBeRunning, Claimed, Looping
    <3> QED
      BY <3>1, <3>2, <2>5 DEF LoopOK, Stages
  <2>7. \A d \in Executions : pc'[d] \in Claimed => LoopOK(d)'
    <3> SUFFICES ASSUME NEW d \in Executions, pc'[d] \in Claimed, d # e PROVE LoopOK(d)'
      BY <2>6
    <3>1. pc'[d] = pc[d] /\ todo'[d] = todo[d]
      BY <2>1 DEF Types
    <3>2. LoopOK(d)
      BY <3>1 DEF StagesOK, StageInv
    <3>3. RunOf[d] # r
      BY <2>1, <3>1 DEF ClaimInv, Claimed, Looping
    <3>4. MayBePending(d)' = MayBePending(d) /\ MayBeRunning(d)' = MayBeRunning(d)
      BY <3>1 DEF MayBePending, MayBeRunning, NextStage, Stages
    <3> QED
      BY <3>2, <3>3, <3>4, <2>4 DEF LoopOK, Stages
  <2>8. i \in Enabled[r]
    BY <2>1, <2>2 DEF StagesOK, StageInv
  <2>9. StageInv'
    <3>1. \A q \in Runs : runStatus'[q] = "deleted" =>
            \A j \in Stages : stageStatus'[q][j] = "deleted"
      BY <2>1, <2>3, <2>4 DEF StagesOK, StageInv
    <3>2. \A q \in Runs : \A j \in Stages \ Enabled[q] :
            stageStatus'[q][j] \notin {"pending", "running"}
      BY <2>4, <2>5, <2>8 DEF StagesOK, StageInv
    <3>3. \A q \in Runs : runStatus'[q] = "pending" =>
            \A j \in Stages : stageStatus'[q][j] # "running"
      BY <2>1, <2>3, <2>4 DEF StagesOK, StageInv
    <3> QED
      BY <2>7, <3>1, <3>2, <3>3 DEF StageInv, Stages
  <2>10. TerminalRunSettled'
    BY <2>1, <2>3, <2>4 DEF StagesOK, TerminalRunSettled, Stages
  <2> QED
    BY <2>9, <2>10 DEF StagesOK
<1> QED
  BY <1>1, <1>2

LEMMA ReportStageStages ==
  ASSUME Types, StagesOK, NEW e \in Executions, ReportStage(e)
  PROVE  StagesOK'
<1> DEFINE r == RunOf[e]
           i == NextStage(e)
<1> USE RunOfType
<1>1. PICK result \in {"success", "failed"} :
        /\ stageStatus' = [stageStatus EXCEPT ![r][i] = IF @ = "deleted" THEN @ ELSE result]
        /\ pc[e] \in {"succeeded", "failed"}
        /\ UNCHANGED runStatus
        /\ \/ pc' = [pc EXCEPT ![e] = "stages"] /\ todo' = [todo EXCEPT ![e] = @ \ {i}]
           \/ pc' = [pc EXCEPT ![e] = "skipRest"] /\ UNCHANGED todo
  BY DEF ReportStage, Goto
<1>2. /\ \A q \in Runs : q # r => stageStatus'[q] = stageStatus[q]
      /\ \A j \in Stages : j # i => stageStatus'[r][j] = stageStatus[r][j]
      /\ i \in Stages => stageStatus'[r][i] \in {"success", "failed", "deleted"}
      /\ i \in Stages /\ stageStatus[r][i] = "deleted" => stageStatus'[r][i] = "deleted"
  BY <1>1 DEF Types
<1>3. Quiet
  BY <1>2 DEF Quiet
<1>4. StatusOK
  BY <1>1, <1>2 DEF StatusOK, StagesOK, StageInv
<1>5. \A j \in Stages : /\ stageStatus[r][j] = "pending" => j \in todo[e]
                        /\ stageStatus[r][j] = "running" => j = i
  BY <1>1 DEF StagesOK, StageInv, LoopOK, MayBePending, MayBeRunning, Claimed, Looping
<1>6. LoopOK(e)'
  <2>1. \A j \in Stages : /\ stageStatus'[r][j] # "running"
                          /\ stageStatus'[r][j] = "pending" => j \in todo[e] /\ j # i
    BY <1>2, <1>5
  <2>2. \A j \in Stages : j \in todo[e] /\ j # i => j \in MayBePending(e)'
    BY <1>1 DEF MayBePending, Types, Stages
  <2> QED
    BY <2>1, <2>2 DEF LoopOK, Stages
<1> QED
  BY <1>1, <1>3, <1>4, <1>6, ExecutionQuiet DEF Types

LEMMA SkipRestStages ==
  ASSUME Types, StagesOK, NEW e \in Executions, SkipRest(e)
  PROVE  StagesOK'
<1> DEFINE r == RunOf[e]
           new == Replace(stageStatus[r], "pending", "skipped")
<1> USE RunOfType
<1>1. /\ pc[e] = "skipRest"
      /\ stageStatus' = [stageStatus EXCEPT ![r] = new]
      /\ pc' = [pc EXCEPT ![e] = "failRun"]
      /\ UNCHANGED <<runStatus, todo>>
  BY DEF SkipRest, Goto
<1>2. \A j \in Stages : new[j] = IF stageStatus[r][j] = "pending" THEN "skipped"
                                                              ELSE stageStatus[r][j]
  BY DEF Replace
<1>3. Quiet
  BY <1>1, <1>2 DEF Quiet, Types
<1>4. StatusOK
  BY <1>1, <1>2 DEF StatusOK, StagesOK, StageInv, Types
<1>5. LoopOK(e)'
  <2>1. \A j \in Stages : stageStatus[r][j] # "running"
    BY <1>1 DEF StagesOK, StageInv, LoopOK, MayBeRunning, Claimed, Looping
  <2> QED
    BY <1>1, <1>2, <2>1 DEF LoopOK, Stages, Types
<1> QED
  BY <1>1, <1>3, <1>4, <1>5, ExecutionQuiet

LEMMA FailRunStages ==
  ASSUME Types, StagesOK, NEW e \in Executions, FailRun(e)
  PROVE  StagesOK'
<1> DEFINE r == RunOf[e]
<1> USE RunOfType
<1>1. /\ pc[e] = "failRun"
      /\ runStatus' = [runStatus EXCEPT ![r] = IF @ = "deleted" THEN @ ELSE "failed"]
      /\ pc' = [pc EXCEPT ![e] = "leaving"]
      /\ UNCHANGED <<stageStatus, todo>>
  BY DEF FailRun, Return, Goto
<1>2. SettledRow(r)
  BY <1>1 DEF StagesOK, StageInv, LoopOK, MayBePending, MayBeRunning, Claimed, Looping, SettledRow
<1>3. Quiet
  BY <1>1 DEF Quiet
<1>4. StatusOK
  BY <1>1, <1>2 DEF StatusOK, StagesOK, StageInv, Types, SettledRow, Terminal, Stages
<1> QED
  BY <1>1, <1>3, <1>4, ExecutionQuiet DEF Claimed, Looping

LEMMA FinishStages ==
  ASSUME Types, StagesOK, NEW e \in Executions, Finish(e)
  PROVE  StagesOK'
<1> DEFINE r == RunOf[e]
<1> USE RunOfType
<1>1. CASE ReturnIfCancelled(e)
  BY <1>1, ReturnStages DEF Finish, ReturnIfCancelled, Returns, Settling, dbVars
<1>2. CASE ~ReturnIfCancelled(e)
  <2>1. /\ pc[e] = "stages" /\ todo[e] = {}
        /\ runStatus' = [runStatus EXCEPT ![r] = IF @ = "running" THEN "success" ELSE @]
        /\ UNCHANGED <<stageStatus, todo>>
    BY <1>2 DEF Finish, ReplaceRun
  <2>2. PICK label \in {"leaving", "failing"} : pc' = [pc EXCEPT ![e] = label]
    BY <1>2 DEF Finish, Return, Goto
  <2>3. SettledRow(r)
    BY <2>1 DEF StagesOK, StageInv, LoopOK, MayBePending, MayBeRunning, Claimed, Looping, SettledRow
  <2>4. Quiet
    BY <2>1 DEF Quiet
  <2>5. StatusOK
    BY <2>1, <2>3 DEF StatusOK, StagesOK, StageInv, Types, SettledRow, Terminal, Stages
  <2> QED
    BY <2>1, <2>2, <2>4, <2>5, ExecutionQuiet DEF Claimed, Looping
<1> QED
  BY <1>1, <1>2

LEMMA SettleStages ==
  ASSUME Types, StagesOK, NEW e \in Executions, Settle(e)
  PROVE  StagesOK'
<1> DEFINE r == RunOf[e]
<1> USE RunOfType
<1>1. PICK status \in {"failed", "cancelled"} :
        /\ stageStatus' = [stageStatus EXCEPT
             ![r] = Replace(Replace(@, "running", status), "pending", "skipped")]
        /\ runStatus' = [runStatus EXCEPT ![r] = IF @ = "running" THEN status ELSE @]
        /\ pc' = [pc EXCEPT ![e] = "leaving"]
        /\ UNCHANGED todo
  BY DEF Settle, ReplaceRun, Goto
<1>2. \A j \in Stages : stageStatus'[r][j] = IF stageStatus[r][j] = "running" THEN status
                                      ELSE IF stageStatus[r][j] = "pending" THEN "skipped"
                                      ELSE stageStatus[r][j]
  BY <1>1 DEF Replace, Types
<1>3. \A q \in Runs : q # r => stageStatus'[q] = stageStatus[q]
  BY <1>1
<1>4. Quiet
  BY <1>2, <1>3 DEF Quiet
<1>5. SettledRow(r)'
  BY <1>2 DEF SettledRow, Stages
<1>6. StatusOK
  BY <1>1, <1>2, <1>3, <1>5 DEF StatusOK, StagesOK, StageInv, Types, Terminal
<1> QED
  BY <1>1, <1>4, <1>6, ExecutionQuiet DEF Claimed, Looping

LEMMA ExecuteStages ==
  ASSUME Types, ClaimInv, StagesOK, NEW e \in Executions,
         Execute(e) \/ StatementFails(e) \/ SettleFails(e)
  PROVE  StagesOK'
<1>1. CASE Select(e)
  <2>1. PICK label \in {"project", "leaving"} : pc' = [pc EXCEPT ![e] = label]
    BY <1>1 DEF Select, Goto
  <2> QED
    BY <1>1, <2>1, RowFrame, ExecutionQuiet DEF Select, dbVars, Claimed, Looping
<1>2. CASE AcquireProject(e) \/ AcquireSlot(e) \/ Leave(e) \/ SettleFails(e)
  <2>1. PICK label \in {"slot", "register", "done", "leaving"} : pc' = [pc EXCEPT ![e] = label]
    BY <1>2 DEF AcquireProject, AcquireSlot, Leave, SettleFails, Goto
  <2>2. UNCHANGED <<runStatus, stageStatus, todo>>
    BY <1>2 DEF AcquireProject, AcquireSlot, Leave, SettleFails, dbVars
  <2> QED
    BY <2>1, <2>2, RowFrame, ExecutionQuiet DEF Claimed, Looping
<1>3. CASE Register(e)
  <2>1. PICK label \in {"claim", "failing"} : pc' = [pc EXCEPT ![e] = label]
    BY <1>3 DEF Register, Return, Goto
  <2> QED
    BY <1>3, <2>1, RowFrame, ExecutionQuiet DEF Register, dbVars, Claimed, Looping
<1>4. CASE WorkFails(e) \/ StatementFails(e)
  BY <1>4, ReturnStages DEF WorkFails, StatementFails, Returns, Settling, dbVars
<1> QED
  BY <1>1, <1>2, <1>3, <1>4, ClaimStages, PrepareStages, SyncStages, BeginStageStages,
     ReportStageStages, SkipRestStages, FailRunStages, FinishStages, SettleStages DEF Execute

LEMMA CancelRowsStages ==
  ASSUME Types, StagesOK, NEW r \in Runs, CancelRows(r), UNCHANGED <<pc, todo>>
  PROVE  StagesOK'
<1>1. CASE runStatus[r] = "pending"
  <2>1. /\ runStatus' = [runStatus EXCEPT ![r] = "cancelled"]
        /\ stageStatus' = [stageStatus EXCEPT ![r] = Replace(@, "pending", "cancelled")]
    BY <1>1 DEF CancelRows, ReplaceRun
  <2>2. \A j \in Stages : stageStatus'[r][j] = IF stageStatus[r][j] = "pending" THEN "cancelled"
                                                                     ELSE stageStatus[r][j]
    BY <2>1 DEF Replace, Types
  <2>3. \A q \in Runs : q # r => stageStatus'[q] = stageStatus[q]
    BY <2>1
  <2>4. Quiet
    BY <2>2, <2>3 DEF Quiet
  <2>5. SettledRow(r)'
    BY <1>1, <2>2 DEF SettledRow, StagesOK, StageInv, Stages
  <2>6. StatusOK
    BY <2>1, <2>2, <2>3, <2>5 DEF StatusOK, StagesOK, StageInv, Types, Terminal
  <2> QED
    BY <2>4, <2>6, QuietSteps
<1>2. CASE runStatus[r] # "pending"
  <2>1. UNCHANGED <<runStatus, stageStatus>>
    BY <1>2 DEF CancelRows, ReplaceRun, Types
  <2> QED
    BY <2>1, RowFrame, QuietSteps
<1> QED
  BY <1>1, <1>2

LEMMA OtherStages ==
  ASSUME Types, StagesOK,
         \/ \E c \in Cancels : CancelCall(c) \/ CancelFails(c)
         \/ \E r \in Runs : ApiCancel(r)
         \/ \E p \in Deletable : DeleteProject(p)
         \/ Restart
         \/ Quiesce
         \/ UNCHANGED vars
  PROVE  StagesOK'
<1> USE DEF dbVars
<1>1. ASSUME NEW c \in Cancels, CancelToken(c) \/ CancelFails(c) PROVE StagesOK'
  BY <1>1, RowFrame, QuietSteps DEF CancelToken, CancelFails
<1>2. ASSUME NEW c \in Cancels, CancelPending(c) PROVE StagesOK'
  BY <1>2, CancelRowsStages, RunOfType DEF CancelPending
<1>3. ASSUME NEW r \in Runs, ApiCancel(r) PROVE StagesOK'
  BY <1>3, CancelRowsStages DEF ApiCancel
<1>4. ASSUME NEW p \in Deletable, DeleteProject(p) PROVE StagesOK'
  <2>1. Quiet
    BY <1>4 DEF DeleteProject, Quiet
  <2>2. StatusOK
    BY <1>4 DEF DeleteProject, StatusOK, StagesOK, StageInv, Terminal
  <2> QED
    BY <1>4, <2>1, <2>2, QuietSteps DEF DeleteProject
<1>5. CASE Restart
  <2>1. \A d \in Executions : pc'[d] \notin Claimed
    BY <1>5 DEF Restart, Claimed, Looping
  <2> QED
    BY <1>5, <2>1, RowFrame, QuietSteps DEF Restart
<1>6. CASE Quiesce \/ UNCHANGED vars
  BY <1>6, RowFrame, QuietSteps DEF Quiesce, vars
<1> QED
  BY <1>1, <1>2, <1>3, <1>4, <1>5, <1>6 DEF CancelCall

-----------------------------------------------------------------------------
(* The inductive invariant and what follows from it                        *)

LEMMA InitIInv == Init => IInv
<1> SUFFICES ASSUME Init PROVE IInv
  OBVIOUS
<1>1. ClaimInv
  BY DEF Init, ClaimInv, Claimed, Looping
<1>2. StageInv
  BY DEF Init, StageInv, InitialStages, Claimed, Looping
<1>3. TerminalRunSettled
  BY DEF Init, TerminalRunSettled, Terminal
<1> QED
  BY <1>1, <1>2, <1>3, InitTypes DEF IInv

LEMMA NextIInv == IInv /\ [Next]_vars => IInv'
<1> SUFFICES ASSUME IInv, [Next]_vars PROVE IInv'
  OBVIOUS
<1>1. Types /\ StagesOK
  BY DEF IInv, TypeOK, Types, StagesOK
<1>2. ClaimInv'
  BY <1>1, NextClaim DEF IInv
<1>3. StagesOK'
  BY <1>1, ExecuteStages, OtherStages DEF Next, IInv
<1> QED
  BY <1>2, <1>3, NextTypes DEF IInv, StagesOK

LEMMA EngineInvariant == Spec => []IInv
  BY InitIInv, NextIInv, PTL DEF Spec

\* Only the execution whose UPDATE claimed a run works on it.
THEOREM ClaimantExecutes == Spec => []OnlyClaimantExecutes
<1>1. IInv => OnlyClaimantExecutes
  BY DEF IInv, ClaimInv, OnlyClaimantExecutes
<1> QED
  BY <1>1, EngineInvariant, PTL

\* A run that has its final status has no stage pending or running.
THEOREM TerminalSettled == Spec => []TerminalRunSettled
<1>1. IInv => TerminalRunSettled
  BY DEF IInv
<1> QED
  BY <1>1, EngineInvariant, PTL

TerminalStays ==
  \A r \in Runs : runStatus[r] \in Terminal => runStatus'[r] \in {runStatus[r], "deleted"}

\* The only unconditional write of a run's status is FailRun's, and ClaimInv
\* says that it finds no other final status than 'failed'.
LEMMA TerminalStep ==
  ASSUME IInv, [Next]_vars
  PROVE  TerminalStays
<1> USE RunOfType DEF dbVars, Terminal
<1>0. runStatus \in [Runs -> RunStatuses]
  BY DEF IInv, TypeOK
<1>1. ASSUME NEW e \in Executions, Execute(e) \/ StatementFails(e) \/ SettleFails(e)
      PROVE  TerminalStays
  <2>1. CASE Claim(e)
    BY <1>0, <2>1 DEF Claim, TerminalStays
  <2>2. CASE FailRun(e)
    <3>1. runStatus[RunOf[e]] \in {"running", "failed", "deleted"}
      BY <2>2 DEF FailRun, IInv, ClaimInv, Claimed, Looping
    <3> QED
      BY <1>0, <2>2, <3>1 DEF FailRun, TerminalStays
  <2>3. CASE Finish(e)
    BY <1>0, <2>3 DEF Finish, ReturnIfCancelled, ReplaceRun, TerminalStays
  <2>4. CASE Settle(e)
    BY <1>0, <2>4 DEF Settle, ReplaceRun, TerminalStays
  <2>5. CASE ~(Claim(e) \/ FailRun(e) \/ Finish(e) \/ Settle(e))
    <3>1. UNCHANGED runStatus
      BY <1>1, <2>5
      DEF Execute, Select, AcquireProject, AcquireSlot, Register, Prepare, Sync, Record,
          BeginStage, EndCommand, ReportStage, SkipRest, WorkFails, Leave,
          StatementFails, SettleFails, ReturnIfCancelled
    <3> QED
      BY <3>1 DEF TerminalStays
  <2> QED
    BY <2>1, <2>2, <2>3, <2>4, <2>5
<1>2. ASSUME NEW r \in Runs, CancelRows(r) PROVE TerminalStays
  BY <1>0, <1>2 DEF CancelRows, ReplaceRun, TerminalStays
<1>3. ASSUME NEW c \in Cancels, CancelCall(c) \/ CancelFails(c) PROVE TerminalStays
  BY <1>2, <1>3 DEF CancelCall, CancelToken, CancelPending, CancelFails, TerminalStays
<1>4. ASSUME NEW r \in Runs, ApiCancel(r) PROVE TerminalStays
  BY <1>2, <1>4 DEF ApiCancel
<1>5. ASSUME NEW p \in Deletable, DeleteProject(p) PROVE TerminalStays
  BY <1>5 DEF DeleteProject, TerminalStays
<1>6. CASE Restart \/ Quiesce \/ UNCHANGED vars
  BY <1>6 DEF Restart, Quiesce, vars, TerminalStays
<1> QED
  BY <1>1, <1>3, <1>4, <1>5, <1>6 DEF Next

\* Once a run is success, failed or cancelled no call, duplicate or restart
\* gives it another status; only the deletion of its project takes it away.
THEOREM TerminalFinal == Spec => TerminalIsFinal
<1>1. IInv /\ [Next]_vars =>
        [\A r \in Runs : runStatus[r] \in Terminal =>
           runStatus'[r] \in {runStatus[r], "deleted"}]_vars
  BY TerminalStep DEF TerminalStays
<1> QED
  BY <1>1, EngineInvariant, PTL DEF Spec, TerminalIsFinal

StartsWhileRunning ==
  \A r \in Runs : \A i \in Stages :
    stageStatus[r][i] = "pending" /\ stageStatus'[r][i] = "running" => runStatus[r] = "running"

\* BeginStage alone makes a stage running.  Its run is running or failed by
\* ClaimInv, and a failed run has no pending stage.
LEMMA StartStep ==
  ASSUME IInv, [Next]_vars
  PROVE  StartsWhileRunning
<1> USE RunOfType DEF dbVars
<1>0. /\ stageStatus \in [Runs -> [Stages -> StageStatuses]]
      /\ Types
  BY DEF IInv, TypeOK, Types
<1>1. ASSUME NEW e \in Executions, Execute(e) \/ StatementFails(e) \/ SettleFails(e)
      PROVE  StartsWhileRunning
  <2>1. CASE BeginStage(e)
    <3>1. runStatus[RunOf[e]] \in {"running", "failed", "deleted"}
      BY <2>1 DEF BeginStage, IInv, ClaimInv, Claimed, Looping
    <3>2. \A i \in Stages : stageStatus[RunOf[e]][i] = "pending" =>
            runStatus[RunOf[e]] = "running"
      BY <3>1 DEF IInv, StageInv, TerminalRunSettled, Terminal
    <3>3. \A q \in Runs : q # RunOf[e] => stageStatus'[q] = stageStatus[q]
      BY <1>0, <2>1 DEF BeginStage, ReturnIfCancelled
    <3> QED
      BY <3>2, <3>3 DEF StartsWhileRunning
  <2>2. CASE ReportStage(e)
    <3>1. PICK result \in {"success", "failed"} :
            stageStatus' = [stageStatus EXCEPT
              ![RunOf[e]][NextStage(e)] = IF @ = "deleted" THEN @ ELSE result]
      BY <2>2 DEF ReportStage
    <3> QED
      BY <1>0, <3>1 DEF StartsWhileRunning
  <2>3. CASE SkipRest(e)
    BY <1>0, <2>3 DEF SkipRest, Replace, StartsWhileRunning
  <2>4. CASE Settle(e)
    <3>1. PICK status \in {"failed", "cancelled"} :
            stageStatus' = [stageStatus EXCEPT
              ![RunOf[e]] = Replace(Replace(@, "running", status), "pending", "skipped")]
      BY <2>4 DEF Settle
    <3> QED
      BY <1>0, <3>1 DEF Replace, StartsWhileRunning
  <2>5. CASE ~(BeginStage(e) \/ ReportStage(e) \/ SkipRest(e) \/ Settle(e))
    <3>1. UNCHANGED stageStatus
      BY <1>1, <2>5
      DEF Execute, Select, AcquireProject, AcquireSlot, Register, Claim, Prepare, Sync, Record,
          EndCommand, FailRun, Finish, WorkFails, Leave, StatementFails, SettleFails,
          ReturnIfCancelled
    <3> QED
      BY <3>1 DEF StartsWhileRunning
  <2> QED
    BY <2>1, <2>2, <2>3, <2>4, <2>5
<1>2. ASSUME NEW r \in Runs, CancelRows(r) PROVE StartsWhileRunning
  BY <1>0, <1>2 DEF CancelRows, Replace, StartsWhileRunning
<1>3. ASSUME NEW c \in Cancels, CancelCall(c) \/ CancelFails(c) PROVE StartsWhileRunning
  BY <1>2, <1>3
  DEF CancelCall, CancelToken, CancelPending, CancelFails, StartsWhileRunning
<1>4. ASSUME NEW r \in Runs, ApiCancel(r) PROVE StartsWhileRunning
  BY <1>2, <1>4 DEF ApiCancel
<1>5. ASSUME NEW p \in Deletable, DeleteProject(p) PROVE StartsWhileRunning
  BY <1>5 DEF DeleteProject, StartsWhileRunning
<1>6. CASE Restart \/ Quiesce \/ UNCHANGED vars
  BY <1>6 DEF Restart, Quiesce, vars, StartsWhileRunning
<1> QED
  BY <1>1, <1>3, <1>4, <1>5, <1>6 DEF Next

\* A stage is started only while its run is running, although its claim does
\* not look at the run: cancelled, failed and successful runs start nothing.
THEOREM StagesStartInRunningRuns == Spec => StageStartsInRunningRun
<1>1. IInv /\ [Next]_vars =>
        [\A r \in Runs : \A i \in Stages :
           stageStatus[r][i] = "pending" /\ stageStatus'[r][i] = "running"
             => runStatus[r] = "running"]_vars
  BY StartStep DEF StartsWhileRunning
<1> QED
  BY <1>1, EngineInvariant, PTL DEF Spec, StageStartsInRunningRun

ClaimStays == \A r \in Runs : claimant[r] # None => claimant'[r] = claimant[r]

\* A claim finds the run pending, and then nobody has claimed it before.
LEMMA ClaimStep ==
  ASSUME IInv, [Next]_vars
  PROVE  ClaimStays
<1> USE RunOfType DEF dbVars, ClaimStays
<1>1. ASSUME NEW e \in Executions, Execute(e) \/ StatementFails(e) \/ SettleFails(e)
      PROVE  ClaimStays
  <2>1. CASE Claim(e)
    BY <2>1 DEF Claim, IInv, TypeOK, ClaimInv
  <2>2. CASE ~Claim(e)
    BY <1>1, <2>2
    DEF Execute, Select, AcquireProject, AcquireSlot, Register, Prepare, Sync, Record,
        BeginStage, EndCommand, ReportStage, SkipRest, FailRun, Finish, WorkFails, Settle,
        Leave, StatementFails, SettleFails, ReturnIfCancelled
  <2> QED
    BY <2>1, <2>2
<1>2. ASSUME NEW c \in Cancels, CancelCall(c) \/ CancelFails(c) PROVE ClaimStays
  BY <1>2 DEF CancelCall, CancelToken, CancelPending, CancelFails
<1> QED
  BY <1>1, <1>2 DEF Next, ApiCancel, DeleteProject, Restart, Quiesce, vars

\* A run is claimed by at most one execution in its life.
THEOREM ClaimsFinal == Spec => ClaimedOnce
<1>1. IInv /\ [Next]_vars =>
        [\A r \in Runs : claimant[r] # None => claimant'[r] = claimant[r]]_vars
  BY ClaimStep DEF ClaimStays
<1> QED
  BY <1>1, EngineInvariant, PTL DEF Spec, ClaimedOnce

-----------------------------------------------------------------------------
(* Rows that nobody works on                                               *)

\* The claimant is an execution of the run, and is at work while the run is
\* running.
AttendedInv ==
  /\ \A r \in Runs : claimant[r] # None => RunOf[claimant[r]] = r
  /\ OnlyFaultsAbandon

\* A step that takes no run out of the hands of its claimant.
LEMMA AttendedFrame ==
  ASSUME TypeOK, AttendedInv,
         UNCHANGED claimant,
         \A r \in Runs : runStatus'[r] = "running" =>
           /\ runStatus[r] = "running"
           /\ \/ pc'[claimant[r]] \in {pc[claimant[r]], "dead"}
              \/ pc'[claimant[r]] \in Claimed \cup Settling
              \/ dbErrors' > 0,
         dbErrors' \in {dbErrors, dbErrors + 1}
  PROVE  AttendedInv'
<1>1. dbErrors \in Nat
  BY EngineAssumption DEF TypeOK
<1>2. ASSUME NEW r \in Runs, runStatus'[r] = "running"
      PROVE  /\ claimant'[r] # None
             /\ \/ pc'[claimant'[r]] \in Claimed \cup Settling
                \/ pc'[claimant'[r]] = "dead" \/ dbErrors' > 0
  <2>1. dbErrors > 0 => dbErrors' > 0
    BY <1>1
  <2> QED
    BY <1>2, <2>1 DEF AttendedInv, OnlyFaultsAbandon
<1> QED
  BY <1>2 DEF AttendedInv, OnlyFaultsAbandon

LEMMA ExecuteAttended ==
  ASSUME IInv, AttendedInv, NEW e \in Executions,
         Execute(e) \/ StatementFails(e) \/ SettleFails(e)
  PROVE  AttendedInv'
<1> USE RunOfType DEF IInv, dbVars, CallVars, Goto, Return, ReturnIfCancelled
<1>0. /\ pc \in [Executions -> Labels] /\ runStatus \in [Runs -> RunStatuses]
      /\ claimant \in [Runs -> Executions \cup {None}] /\ dbErrors \in Nat
      /\ TypeOK /\ ClaimInv
      /\ \A r \in Runs : claimant[r] # None => RunOf[claimant[r]] = r
  BY EngineAssumption DEF TypeOK, AttendedInv
<1>1. CASE Claim(e) /\ runStatus[RunOf[e]] = "pending"
  <2>1. /\ runStatus' = [runStatus EXCEPT ![RunOf[e]] = "running"]
        /\ claimant' = [claimant EXCEPT ![RunOf[e]] = e]
        /\ pc' = [pc EXCEPT ![e] = "prepare"] /\ pc[e] = "claim" /\ dbErrors' = dbErrors
    BY <1>1 DEF Claim
  <2>2. \A r \in Runs : claimant'[r] # None => RunOf[claimant'[r]] = r
    BY <1>0, <2>1
  <2>3. ASSUME NEW r \in Runs, runStatus'[r] = "running"
        PROVE  /\ claimant'[r] # None
               /\ \/ pc'[claimant'[r]] \in Claimed \cup Settling
                  \/ pc'[claimant'[r]] = "dead" \/ dbErrors' > 0
    <3>1. CASE r = RunOf[e]
      BY <1>0, <2>1, <3>1, EngineAssumption DEF Claimed
    <3>2. CASE r # RunOf[e]
      <4>1. runStatus[r] = "running" /\ claimant'[r] = claimant[r]
        BY <1>0, <2>1, <2>3, <3>2
      <4>2. claimant[r] # None /\ claimant[r] # e /\ claimant[r] \in Executions
        BY <1>0, <3>2, <4>1 DEF AttendedInv, OnlyFaultsAbandon
      <4>3. pc'[claimant[r]] = pc[claimant[r]]
        BY <1>0, <2>1, <4>2
      <4> QED
        BY <2>1, <4>1, <4>2, <4>3 DEF AttendedInv, OnlyFaultsAbandon
    <3> QED
      BY <3>1, <3>2
  <2> QED
    BY <2>2, <2>3 DEF AttendedInv, OnlyFaultsAbandon
<1>2. CASE ~(Claim(e) /\ runStatus[RunOf[e]] = "pending")
  <2>1. /\ UNCHANGED claimant
        /\ \E label : pc' = [pc EXCEPT ![e] = label]
        /\ dbErrors' \in {dbErrors, dbErrors + 1}
    BY <1>1, <1>2
    DEF Execute, Select, AcquireProject, AcquireSlot, Register, Claim, Prepare, Sync, Record,
        BeginStage, EndCommand, ReportStage, SkipRest, FailRun, Finish, WorkFails, Settle,
        Leave, StatementFails, SettleFails
  <2>2. \A r \in Runs : runStatus'[r] = "running" => runStatus[r] = "running"
    BY <1>0, <1>2
    DEF Execute, Select, AcquireProject, AcquireSlot, Register, Claim, Prepare, Sync, Record,
        BeginStage, EndCommand, ReportStage, SkipRest, FailRun, Finish, WorkFails, Settle,
        Leave, StatementFails, SettleFails, ReplaceRun
  <2>3. ASSUME runStatus'[RunOf[e]] = "running", claimant[RunOf[e]] = e
        PROVE  \/ pc'[e] \in {pc[e], "dead"}
               \/ pc'[e] \in Claimed \cup Settling
               \/ dbErrors' > 0 \/ dbErrors > 0
    <3>1. \/ pc[e] \in Claimed \cup Settling \cup {"dead"}
          \/ dbErrors > 0
      BY <2>2, <2>3 DEF AttendedInv, OnlyFaultsAbandon
    <3>2. CASE pc[e] \in Claimed
      <4>1. Prepare(e) \/ Sync(e) \/ Record(e) \/ BeginStage(e) \/ EndCommand(e)
            \/ ReportStage(e) \/ SkipRest(e) \/ FailRun(e) \/ Finish(e) \/ WorkFails(e)
            \/ StatementFails(e)
        BY <3>2
        DEF Execute, Select, AcquireProject, AcquireSlot, Register, Claim, Settle, Leave,
            SettleFails, Claimed, Looping, Settling
      <4>2. CASE FailRun(e)
        BY <1>0, <2>3, <4>2 DEF FailRun
      <4>3. CASE Finish(e)
        BY <1>0, <2>3, <4>3 DEF Finish, ReplaceRun, Claimed, Settling
      <4>4. CASE Prepare(e) \/ Sync(e) \/ Record(e) \/ BeginStage(e)
        BY <1>0, <4>4 DEF Prepare, Sync, Record, BeginStage, Claimed, Looping, Settling
      <4>5. CASE EndCommand(e) \/ ReportStage(e) \/ SkipRest(e)
        BY <1>0, <4>5 DEF EndCommand, ReportStage, SkipRest, Claimed, Looping, Settling
      <4>6. CASE WorkFails(e) \/ StatementFails(e)
        BY <1>0, <4>6 DEF WorkFails, StatementFails, Claimed, Looping, Settling
      <4> QED
        BY <4>1, <4>2, <4>3, <4>4, <4>5, <4>6
    <3>3. CASE pc[e] \in Settling
      <4>1. Settle(e) \/ SettleFails(e)
        BY <3>3
        DEF Execute, Select, AcquireProject, AcquireSlot, Register, Claim, Prepare, Sync, Record,
            BeginStage, EndCommand, ReportStage, SkipRest, FailRun, Finish, WorkFails, Leave,
            StatementFails, Claimed, Looping, Settling
      <4>2. CASE Settle(e)
        BY <1>0, <2>3, <4>2 DEF Settle, ReplaceRun
      <4>3. CASE SettleFails(e)
        BY <1>0, <4>3 DEF SettleFails
      <4> QED
        BY <4>1, <4>2, <4>3
    <3>4. pc[e] # "dead"
      BY <1>2
      DEF Execute, Select, AcquireProject, AcquireSlot, Register, Claim, Prepare, Sync, Record,
          BeginStage, EndCommand, ReportStage, SkipRest, FailRun, Finish, WorkFails, Settle,
          Leave, StatementFails, SettleFails, Claimed, Looping, Settling
    <3> QED
      BY <3>1, <3>2, <3>3, <3>4
  <2>4. dbErrors > 0 => dbErrors' > 0
    BY <1>0, <2>1
  <2>5. ASSUME NEW r \in Runs, runStatus'[r] = "running"
        PROVE  /\ runStatus[r] = "running"
               /\ \/ pc'[claimant[r]] \in {pc[claimant[r]], "dead"}
                  \/ pc'[claimant[r]] \in Claimed \cup Settling
                  \/ dbErrors' > 0
    <3>1. runStatus[r] = "running" /\ claimant[r] \in Executions
      BY <1>0, <2>2, <2>5 DEF AttendedInv, OnlyFaultsAbandon
    <3>2. CASE claimant[r] = e
      <4>1. RunOf[e] = r
        BY <1>0, <3>1, <3>2, EngineAssumption
      <4> QED
        BY <2>3, <2>4, <2>5, <3>1, <3>2, <4>1
    <3>3. CASE claimant[r] # e
      BY <1>0, <2>1, <3>1, <3>3
    <3> QED
      BY <3>1, <3>2, <3>3
  <2> QED
    BY <1>0, <2>1, <2>5, AttendedFrame
<1> QED
  BY <1>1, <1>2

LEMMA NextAttended ==
  ASSUME IInv, AttendedInv, [Next]_vars
  PROVE  AttendedInv'
<1> USE DEF dbVars, CallVars
<1>0. /\ TypeOK /\ runStatus \in [Runs -> RunStatuses] /\ dbErrors \in Nat
      /\ claimant \in [Runs -> Executions \cup {None}] /\ pc \in [Executions -> Labels]
  BY EngineAssumption DEF IInv, TypeOK
<1>1. ASSUME NEW r \in Runs, CancelRows(r), UNCHANGED <<claimant, pc>>,
             dbErrors' \in {dbErrors, dbErrors + 1}
      PROVE  AttendedInv'
  <2>1. runStatus' = [runStatus EXCEPT ![r] = IF @ = "pending" THEN "cancelled" ELSE @]
    BY <1>1 DEF CancelRows, ReplaceRun
  <2> QED
    BY <1>0, <1>1, <2>1, AttendedFrame
<1>2. CASE \E c \in Cancels : CancelCall(c) \/ CancelFails(c)
  <2>1. PICK c \in Cancels : CancelCall(c) \/ CancelFails(c)
    BY <1>2
  <2>2. CASE CancelToken(c) \/ CancelFails(c)
    BY <1>0, <2>2, AttendedFrame DEF CancelToken, CancelFails
  <2>3. CASE CancelPending(c)
    BY <1>1, <2>3, RunOfType DEF CancelPending
  <2> QED
    BY <2>1, <2>2, <2>3 DEF CancelCall
<1>3. CASE \E r \in Runs : ApiCancel(r)
  BY <1>1, <1>3 DEF ApiCancel
<1>4. CASE \E p \in Deletable : DeleteProject(p)
  BY <1>0, <1>4, AttendedFrame DEF DeleteProject
<1>5. CASE Restart
  <2>1. \A r \in Runs : runStatus[r] = "running" => claimant[r] \in Executions
    BY <1>0 DEF AttendedInv, OnlyFaultsAbandon
  <2> QED
    BY <1>0, <1>5, <2>1, AttendedFrame DEF Restart
<1>6. CASE Quiesce \/ UNCHANGED vars
  BY <1>0, <1>6, AttendedFrame DEF Quiesce, vars
<1> QED
  BY <1>2, <1>3, <1>4, <1>5, <1>6, ExecuteAttended DEF Next

\* A row stays 'running' without its claimant at work on it only after a
\* restart of the process or a failed statement (execute_mode settles every
\* error of execute_inner).
THEOREM RunningAttended == Spec => []OnlyFaultsAbandon
<1>1. Init => AttendedInv
  BY DEF Init, AttendedInv, OnlyFaultsAbandon
<1>2. IInv /\ AttendedInv /\ [Next]_vars => AttendedInv'
  BY NextAttended
<1>3. AttendedInv => OnlyFaultsAbandon
  BY DEF AttendedInv
<1> QED
  BY <1>1, <1>2, <1>3, EngineInvariant, PTL DEF Spec

-----------------------------------------------------------------------------
(* The abstract mutex                                                      *)

\* Every step takes the permit of one project as Mutex allows, gives permits
\* back, or leaves them alone.
LEMMA NextMapsToMutex ==
  ASSUME TypeOK, [Next]_vars
  PROVE  [Mutex!Next]_projectLock
<1>0. projectLock = [p \in Projects |-> projectLock[p]]
  BY DEF TypeOK
<1>1. ASSUME NEW e \in Executions, AcquireProject(e) PROVE Mutex!Next
  <2>1. Mutex!Acquire(e)
    BY <1>1 DEF AcquireProject, Mutex!Acquire, ProjectOfExec
  <2> QED
    BY <2>1 DEF Mutex!Next
<1>2. ASSUME NEW e \in Executions, Returns(e) PROVE [Mutex!Next]_projectLock
  <2>1. PICK label \in Settling \cup {"leaving"} : Return(e, label)
    BY <1>2 DEF Returns
  <2>2. CASE pc[e] \in HoldsProject
    <3>1. Mutex!Release({ProjectOfExec(e)})
      BY <1>0, <2>1, <2>2 DEF Return, Mutex!Release
    <3>2. {ProjectOfExec(e)} \in SUBSET Projects
      BY RunOfType
    <3> QED
      BY <3>1, <3>2 DEF Mutex!Next
  <2>3. CASE pc[e] \notin HoldsProject
    BY <2>1, <2>3 DEF Return
  <2> QED
    BY <2>2, <2>3
<1>3. CASE Restart
  <2>1. Mutex!Release(Projects)
    BY <1>3 DEF Restart, Mutex!Release
  <2> QED
    BY <2>1 DEF Mutex!Next
<1>4. ASSUME NEW e \in Executions, AcquireSlot(e) \/ Stays(e) PROVE UNCHANGED projectLock
  BY <1>4 DEF AcquireSlot, Stays, Moves
<1> QED
  BY <1>1, <1>2, <1>3, <1>4, ExecutionSteps, OtherSteps DEF Next

\* The executions use the project permits as the abstract mutex allows: a
\* permit is taken only when free and every early return gives it back.
THEOREM EngineImplementsMutex == Spec => ImplementsMutex
<1>1. Init => Mutex!Init
  BY DEF Init, Mutex!Init
<1>2. IInv /\ [Next]_vars => [Mutex!Next]_projectLock
  BY NextMapsToMutex DEF IInv
<1> QED
  BY <1>1, <1>2, EngineInvariant, PTL DEF Spec, ImplementsMutex, Mutex!Spec
=============================================================================

---------------------------- MODULE StageExecution ----------------------------
(***************************************************************************)
(* One command from its start to the report of its outcome: a call of the  *)
(* executor (CommandExecutor), the task of persist_stage_logs that takes   *)
(* the output from the log channel and inserts it                          *)
(* (src/src/pipeline_log_store.rs), and the engine, which waits for the    *)
(* call and then for that task (src/src/pipeline_engine.rs).  A call       *)
(* without logs, one of git's, has neither.                                *)
(***************************************************************************)
EXTENDS CommandExecutor

CONSTANT LogLimit   \* MAX_LOG_BYTES, in half chunks

ASSUME StageAssumption == LogLimit \in Nat

\* In half chunks, so that the limit can fall inside a chunk.
ChunkSize == 2

VARIABLES
  writer,         \* the log writer: "none", "receiving", "returned" or "failed"
  hand,           \* the stream of the chunk it handles
  stored,         \* per stream: half chunks inserted
  logsTruncated,  \* that the limit has cost the log something
  report          \* what the engine takes the command's outcome to be

stageVars == <<writer, hand, stored, logsTruncated, report>>
allVars == <<vars, stageVars>>

StageInit ==
  /\ Init
  /\ writer = IF withLogs THEN "receiving" ELSE "none"
  /\ hand = None
  /\ stored = Zero
  /\ logsTruncated = FALSE
  /\ report = None

-----------------------------------------------------------------------------
(* persist_stage_logs                                                      *)

WriterOnly ==
  UNCHANGED <<taskVars, cancelled, expired, pipe, capture, retained, truncated, delivered,
              processVars, report>>

\* A clone of the sender moves into each capture; before, the call has it.
SenderAlive == pc = "start" \/ \E s \in Streams : Readers(s)

Receive ==
  /\ writer = "receiving" /\ hand = None /\ channel # <<>>
  /\ hand' = Head(channel)
  /\ channel' = Tail(channel)
  /\ UNCHANGED <<sinkOpen, writer, stored, logsTruncated>>
  /\ WriterOnly

\* The limit is one for both streams.
Total == stored["stdout"] + stored["stderr"]
Remaining == LogLimit - Total

\* Mutant: only a chunk that is skipped whole counts as truncated.
StoreUntold ==
  /\ stored' = [stored EXCEPT ![hand] =
                 @ + IF Remaining < ChunkSize THEN Remaining ELSE ChunkSize]
  /\ UNCHANGED logsTruncated

\* The chunk, cut at the limit.
Store ==
  /\ stored' = [stored EXCEPT ![hand] =
                 @ + IF Remaining < ChunkSize THEN Remaining ELSE ChunkSize]
  /\ logsTruncated' = (logsTruncated \/ Remaining < ChunkSize)

Insert ==
  /\ hand # None /\ Remaining > 0
  /\ Store
  /\ hand' = None
  /\ UNCHANGED <<channel, sinkOpen, writer>>
  /\ WriterOnly

\* The log is full.
Skip ==
  /\ hand # None /\ Remaining = 0
  /\ logsTruncated' = TRUE
  /\ hand' = None
  /\ UNCHANGED <<channel, sinkOpen, writer, stored>>
  /\ WriterOnly

\* The task returns the error and drops the receiver with what is in it.
InsertFails ==
  /\ hand # None /\ Remaining > 0
  /\ writer' = "failed"
  /\ hand' = None
  /\ sinkOpen' = FALSE
  /\ channel' = <<>>
  /\ UNCHANGED <<stored, logsTruncated>>
  /\ WriterOnly

\* recv returns None.
ReturnWriter ==
  /\ writer = "receiving" /\ hand = None
  /\ channel = <<>> /\ ~SenderAlive
  /\ writer' = "returned"
  /\ UNCHANGED <<channel, sinkOpen, hand, stored, logsTruncated>>
  /\ WriterOnly

LogWriter == Receive \/ Insert \/ Skip \/ InsertFails \/ ReturnWriter

-----------------------------------------------------------------------------
(* PipelineEngine::execute_inner around the command                        *)

WriterEnded == writer \in {"returned", "failed"}

\* log_writer.await, whose error comes first, then the output.
Report ==
  /\ pc = "done" /\ withLogs /\ report = None
  /\ WriterEnded
  /\ report' = IF writer = "failed" THEN "Error" ELSE result
  /\ UNCHANGED <<vars, writer, hand, stored, logsTruncated>>

\* That the engine goes on is a temporal property.
Terminated == pc = "done" /\ UNCHANGED allVars

Next ==
  \/ Execution /\ UNCHANGED stageVars
  \/ LogWriter \/ Report
  \/ Terminated

Spec == StageInit /\ [][Next]_allVars

\* The runtime polls the tasks.  No failure is owed: neither that of kill or
\* try_wait (WaitFails is not in Task) nor that of an insert.
FairSpec ==
  /\ Spec
  /\ WF_vars(Task) /\ \A s \in Streams : WF_vars(Capture(s))
  /\ WF_allVars(LogWriter) /\ WF_allVars(Report)

-----------------------------------------------------------------------------
StageTypeOK ==
  /\ TypeOK
  /\ writer \in {"none", "receiving", "returned", "failed"}
  /\ hand \in Streams \cup {None}
  /\ stored \in [Streams -> 0 .. LogLimit]
  /\ logsTruncated \in BOOLEAN
  /\ report \in {None, "Success", "Failed", "TimedOut", "Cancelled", "Error"}

\* A result that comes from an exit status comes with the whole output: all
\* that any process of the group wrote before the end of file is retained up
\* to the limit and marked as truncated exactly when it exceeds it.
CompleteOutput ==
  result \in {"Success", "Failed"} =>
    \A s \in Streams :
      /\ retained[s] = IF produced[s] < RetainLimit THEN produced[s] ELSE RetainLimit
      /\ truncated[s] <=> produced[s] > RetainLimit

\* Every state is well formed and a result from an exit status is complete:
\* the captures lose nothing of what a process wrote.
OutputInv == StageTypeOK /\ CompleteOutput

\* What the engine takes for an outcome from an exit status comes with a log
\* whose flag tells exactly whether the two streams together exceed its
\* limit: the log then fills it, and otherwise holds the whole output.  The
\* log channel and its receiver lose nothing else, and the failure of an
\* INSERT never passes for the end of the output.
CompleteLog ==
  report \in {"Success", "Failed"} =>
    /\ logsTruncated <=> ChunkSize * (produced["stdout"] + produced["stderr"]) > LogLimit
    /\ IF logsTruncated
         THEN Total = LogLimit
         ELSE \A s \in Streams : stored[s] = ChunkSize * produced[s]

\* When the wait ends with a kill, no process of the group survives it.
KillReachesGroup ==
  pc \in {"collect", "done"} /\ status \in {"Cancelled", "TimedOut"} => alive = {}

\* The call has ended and left a capture behind, with its sender.
Detached == pc = "done" /\ \E s \in Streams : Readers(s)

\* The deadline alone makes a started call return, whatever holds the pipes
\* open and whoever stopped receiving logs; and the engine goes on from the
\* stage, unless the call left a capture behind.
DeadlineReturns ==
  WF_vars(Expire) =>
    /\ pc = "wait" ~> pc = "done"
    /\ withLogs /\ pc # "start" ~> report # None \/ Detached

\* Without the help of the deadline, and though a kill failed or the caller
\* is gone, a call whose processes finish their writes and exit comes to its
\* end: it has returned, no capture is left behind and the engine goes on.
\* Both streams are drained together, so full pipes and a full channel never
\* block each other.
DrainReturns ==
  (\A m \in Members : WF_vars(Process(m))) =>
    (pc = "wait" ~> pc = "done" /\ ~Detached /\ (withLogs => report # None))

\* A cancelled command leaves no process behind, as the design requires and
\* cancellation_terminates_descendant_processes expects.
CancelledLeavesNoProcess == result = "Cancelled" => alive = {}
=============================================================================

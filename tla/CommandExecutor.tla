-------------------------- MODULE CommandExecutor --------------------------
(***************************************************************************)
(* The actions of one call of CommandExecutor::execute_with_logs (or       *)
(* execute), see src/src/command_executor.rs: the task that waits for the  *)
(* process group, the two tasks that capture stdout and stderr, the        *)
(* processes of the group, which may outlive their leader, the token and   *)
(* the deadline.  StageExecution puts them together with the receiver of   *)
(* the log channel and the caller.                                         *)
(*                                                                         *)
(* Output is counted in chunks: a read of the buffer returns one chunk.    *)
(***************************************************************************)
EXTENDS Integers, Sequences

CONSTANTS
  Leader, Descendants,  \* the processes of the group
  PipeCapacity,         \* chunks an operating system pipe holds
  ChannelCapacity,      \* chunks the log channel holds (64 in the engine)
  RetainLimit,          \* MAX_CAPTURED_STREAM_BYTES, in chunks
  MaxChunks,            \* bound: chunks written to a stream
  None

\* LogStream.
Streams == {"stdout", "stderr"}

\* ExecutionStatus, an error of the call, and a call that never returns.
Outcomes == {"Success", "Failed", "TimedOut", "Cancelled", "Error", "Dropped"}

ASSUME ExecutorAssumption ==
  /\ Leader \notin Descendants
  /\ PipeCapacity \in Nat \ {0} /\ ChannelCapacity \in Nat \ {0}
  /\ RetainLimit \in Nat /\ MaxChunks \in Nat
  /\ None \notin Streams \cup Outcomes

VARIABLES
  withLogs,                \* execute_with_logs, not execute
  pc, status, result,      \* the waiting task; status: how the wait ended
  cancelled, expired,
  alive, silent, writing,  \* processes; those that closed their output
  exit,                    \* of the leader
  pipe, produced,          \* per stream: chunks unread, chunks ever written
  capture, retained, truncated,
  channel, sinkOpen, delivered   \* the log channel and what was sent into it

taskVars == <<withLogs, pc, status, result>>
processVars == <<alive, silent, writing, exit, produced>>
captureVars == <<capture, retained, truncated, channel, delivered>>
vars == <<withLogs, pc, status, result, cancelled, expired, alive, silent, writing, exit,
          pipe, produced, capture, retained, truncated, channel, sinkOpen, delivered>>

Members == Descendants \cup {Leader}
Reading == {"reading", "sending"}
Readers(s) == capture[s] \in Reading
Zero == [s \in Streams |-> 0]

Init ==
  /\ withLogs \in BOOLEAN
  /\ pc = "start" /\ status = None /\ result = None
  /\ cancelled = FALSE /\ expired = FALSE
  /\ alive = {} /\ silent = {} /\ exit = None
  /\ writing = [m \in Members |-> None]
  /\ pipe = Zero /\ produced = Zero
  /\ capture = [s \in Streams |-> "none"]
  /\ retained = Zero
  /\ truncated = [s \in Streams |-> FALSE]
  /\ channel = <<>> /\ sinkOpen = TRUE
  /\ delivered = Zero

-----------------------------------------------------------------------------
(* execute_inner                                                           *)

Return(value) ==
  /\ pc' = "done"
  /\ result' = value
  /\ UNCHANGED <<withLogs, status>>

\* Dropping the JoinHandle detaches a capture; abort stops it.
AbortCaptures ==
  capture' = [s \in Streams |-> IF Readers(s) THEN "aborted" ELSE capture[s]]

\* An invalid specification, or a program that cannot be started.
Refuse ==
  /\ pc = "start"
  /\ Return("Error")
  /\ UNCHANGED <<cancelled, expired, pipe, sinkOpen, processVars, captureVars>>

StartCancelled ==
  /\ pc = "start" /\ cancelled
  /\ Return("Cancelled")
  /\ UNCHANGED <<cancelled, expired, pipe, sinkOpen, processVars, captureVars>>

Spawn ==
  /\ pc = "start" /\ ~cancelled
  /\ pc' = "wait"
  /\ alive' = {Leader}
  /\ capture' = [s \in Streams |-> "reading"]
  /\ UNCHANGED <<withLogs, status, result, cancelled, expired, silent, writing, exit, pipe,
                 produced, retained, truncated, channel, sinkOpen, delivered>>

EndWait(how) ==
  /\ pc = "wait"
  /\ pc' = "collect"
  /\ status' = how
  /\ UNCHANGED <<withLogs, result, cancelled, expired, pipe, sinkOpen, captureVars>>

\* kill_on_drop: the dropped child is killed, its descendants are not.
KillLeader ==
  /\ alive' = alive \ {Leader}
  /\ writing' = [writing EXCEPT ![Leader] = None]
  /\ exit' = IF Leader \in alive THEN "Failed" ELSE exit
  /\ UNCHANGED <<silent, produced>>

\* SIGKILL to the process group, and the wait for the leader.
KillGroup ==
  /\ alive' = {}
  /\ writing' = [m \in Members |-> None]
  /\ exit' = IF Leader \in alive THEN "Failed" ELSE exit
  /\ UNCHANGED <<silent, produced>>

\* wait_for_group: the select is biased, cancellation before the deadline
\* before the poll of the leader.
WaitCancelled ==
  /\ cancelled
  /\ EndWait("Cancelled")
  /\ KillGroup

WaitExpired ==
  /\ ~cancelled /\ expired
  /\ EndWait("TimedOut")
  /\ KillGroup

WaitExited ==
  /\ ~cancelled /\ ~expired
  /\ Leader \notin alive
  /\ EndWait(exit)
  /\ UNCHANGED processVars

DropChild == KillLeader \/ UNCHANGED processVars

\* kill or try_wait fails (kill may have reached the group before it does):
\* the function returns, drops the child and detaches the captures.
WaitFails ==
  /\ pc = "wait"
  /\ Return("Error")
  /\ \/ DropChild
     \/ (cancelled \/ expired) /\ KillGroup
  /\ UNCHANGED <<cancelled, expired, pipe, sinkOpen, captureVars>>

\* The future is dropped with its caller, a handler whose client is gone (the
\* engine's task is not dropped): what it held goes the same way.
DropCall ==
  /\ ~withLogs /\ pc \in {"wait", "collect"}
  /\ Return("Dropped")
  /\ IF pc = "wait" THEN DropChild ELSE UNCHANGED processVars
  /\ UNCHANGED <<cancelled, expired, pipe, sinkOpen, captureVars>>

\* collect_output, biased in the same order; nothing is killed here.
CollectCancelled ==
  /\ pc = "collect" /\ cancelled
  /\ Return("Cancelled")
  /\ AbortCaptures
  /\ UNCHANGED <<cancelled, expired, pipe, sinkOpen, retained, truncated, channel,
                 delivered, processVars>>

\* Mutant: the output is collected without the deadline.
CollectForever == FALSE

CollectExpired ==
  /\ pc = "collect" /\ ~cancelled /\ expired
  /\ Return("TimedOut")
  /\ AbortCaptures
  /\ UNCHANGED <<cancelled, expired, pipe, sinkOpen, retained, truncated, channel,
                 delivered, processVars>>

\* Mutant: the captures are not joined.
NotJoined(s) == TRUE

Joined(s) == capture[s] \in {"ended", "broken"}

CollectComplete ==
  /\ pc = "collect" /\ ~cancelled /\ ~expired
  /\ \A s \in Streams : Joined(s)
  /\ Return(IF \E s \in Streams : capture[s] = "broken" THEN "Error" ELSE status)
  /\ UNCHANGED <<cancelled, expired, pipe, sinkOpen, processVars, captureVars>>

Collect == CollectCancelled \/ CollectExpired \/ CollectComplete

-----------------------------------------------------------------------------
(* read_bounded                                                            *)

\* Mutant: stderr is read after stdout.
ReadableInOrder(s) == pipe[s] > 0 /\ (s = "stderr" => ~Readers("stdout"))

Readable(s) == pipe[s] > 0

ReadChunk(s) ==
  /\ capture[s] = "reading" /\ Readable(s)
  /\ pipe' = [pipe EXCEPT ![s] = @ - 1]
  /\ capture' = [capture EXCEPT ![s] = "sending"]
  /\ UNCHANGED <<taskVars, cancelled, expired, retained, truncated, channel,
                 sinkOpen, delivered, processVars>>

Retain(s) ==
  /\ retained' = [retained EXCEPT ![s] = IF @ < RetainLimit THEN @ + 1 ELSE @]
  /\ truncated' = [truncated EXCEPT ![s] = @ \/ retained[s] >= RetainLimit]

\* The chunk goes to the log channel, waiting for room, and is retained up
\* to the limit; a closed channel ends the capture.
SendChunk(s) ==
  /\ capture[s] = "sending"
  /\ \/ /\ withLogs /\ sinkOpen
        /\ Len(channel) < ChannelCapacity
        /\ channel' = Append(channel, s)
        /\ delivered' = [delivered EXCEPT ![s] = @ + 1]
        /\ capture' = [capture EXCEPT ![s] = "reading"]
        /\ Retain(s)
     \/ /\ withLogs /\ ~sinkOpen
        /\ capture' = [capture EXCEPT ![s] = "broken"]
        /\ UNCHANGED <<retained, truncated, channel, delivered>>
     \/ /\ ~withLogs
        /\ capture' = [capture EXCEPT ![s] = "reading"]
        /\ Retain(s)
        /\ UNCHANGED <<channel, delivered>>
  /\ UNCHANGED <<taskVars, cancelled, expired, pipe, sinkOpen, processVars>>

\* End of file: no process holds the write end.
EndCapture(s) ==
  /\ capture[s] = "reading" /\ pipe[s] = 0
  /\ alive \subseteq silent
  /\ capture' = [capture EXCEPT ![s] = "ended"]
  /\ UNCHANGED <<taskVars, cancelled, expired, pipe, retained, truncated, channel,
                 sinkOpen, delivered, processVars>>

Capture(s) == ReadChunk(s) \/ SendChunk(s) \/ EndCapture(s)

-----------------------------------------------------------------------------
(* The processes                                                           *)

ProcessOnly == UNCHANGED <<taskVars, cancelled, expired, sinkOpen, captureVars>>

\* A descendant inherits the leader's output.
Fork(m) ==
  /\ Leader \in alive /\ m \in Descendants \ (alive \cup silent)
  /\ alive' = alive \cup {m}
  /\ silent' = IF Leader \in silent THEN silent \cup {m} ELSE silent
  /\ UNCHANGED <<writing, exit, pipe, produced>>
  /\ ProcessOnly

StartWrite(m, s) ==
  /\ m \in alive \ silent /\ writing[m] = None
  /\ produced[s] < MaxChunks
  /\ writing' = [writing EXCEPT ![m] = s]
  /\ produced' = [produced EXCEPT ![s] = @ + 1]
  /\ UNCHANGED <<alive, silent, exit, pipe>>
  /\ ProcessOnly

\* A write waits for room in the pipe.
FinishWrite(m) ==
  /\ m \in alive /\ writing[m] # None
  /\ Readers(writing[m]) /\ pipe[writing[m]] < PipeCapacity
  /\ pipe' = [pipe EXCEPT ![writing[m]] = @ + 1]
  /\ writing' = [writing EXCEPT ![m] = None]
  /\ UNCHANGED <<alive, silent, exit, produced>>
  /\ ProcessOnly

Die(m, how) ==
  /\ alive' = alive \ {m}
  /\ writing' = [writing EXCEPT ![m] = None]
  /\ exit' = IF m = Leader THEN how ELSE exit
  /\ silent' = silent \cup {m}
  /\ UNCHANGED <<pipe, produced>>
  /\ ProcessOnly

Exit(m) ==
  /\ m \in alive /\ writing[m] = None
  /\ \E how \in {"Success", "Failed"} : Die(m, how)

\* SIGPIPE: the capture is gone.
BrokenWrite(m) ==
  /\ m \in alive /\ writing[m] # None
  /\ ~Readers(writing[m])
  /\ Die(m, "Failed")

\* A daemon redirects its output and lives on.
CloseOutput(m) ==
  /\ m \in alive \ silent /\ writing[m] = None
  /\ silent' = silent \cup {m}
  /\ UNCHANGED <<alive, writing, exit, pipe, produced>>
  /\ ProcessOnly

Process(m) == FinishWrite(m) \/ Exit(m) \/ BrokenWrite(m)

-----------------------------------------------------------------------------
(* The token and the clock                                                 *)

CallerOnly ==
  UNCHANGED <<taskVars, pipe, capture, retained, truncated, channel, sinkOpen, delivered,
              processVars>>

Cancel ==
  /\ ~cancelled
  /\ cancelled' = TRUE
  /\ UNCHANGED expired
  /\ CallerOnly

Expire ==
  /\ ~expired /\ pc \in {"wait", "collect"}
  /\ expired' = TRUE
  /\ UNCHANGED cancelled
  /\ CallerOnly

-----------------------------------------------------------------------------
\* What the waiting task does of itself.
Task ==
  \/ StartCancelled \/ Spawn
  \/ WaitCancelled \/ WaitExpired \/ WaitExited
  \/ Collect

Execution ==
  \/ Task \/ Refuse \/ WaitFails \/ DropCall
  \/ \E s \in Streams : Capture(s)
  \/ \E m \in Members :
       \/ Process(m) \/ Fork(m) \/ CloseOutput(m)
       \/ \E s \in Streams : StartWrite(m, s)
  \/ Cancel \/ Expire

\* The form of every state; buffers and retained output keep their limits.
TypeOK ==
  /\ withLogs \in BOOLEAN
  /\ pc \in {"start", "wait", "collect", "done"}
  /\ status \in {None, "Success", "Failed", "TimedOut", "Cancelled"}
  /\ result \in Outcomes \cup {None}
  /\ pc = "done" <=> result # None
  /\ {cancelled, expired, sinkOpen} \subseteq BOOLEAN
  /\ alive \subseteq Members /\ silent \subseteq Members
  /\ exit \in {None, "Success", "Failed"}
  /\ writing \in [Members -> Streams \cup {None}]
  /\ \A m \in Members : writing[m] # None => m \in alive
  /\ pipe \in [Streams -> 0 .. PipeCapacity]
  /\ produced \in [Streams -> 0 .. MaxChunks]
  /\ capture \in [Streams -> Reading \cup {"none", "ended", "broken", "aborted"}]
  /\ retained \in [Streams -> 0 .. RetainLimit]
  /\ truncated \in [Streams -> BOOLEAN]
  /\ channel \in Seq(Streams) /\ Len(channel) <= ChannelCapacity
  /\ delivered \in [Streams -> 0 .. MaxChunks]
=============================================================================

------------------------------ MODULE StageLogs ------------------------------
(***************************************************************************)
(* The logs of one run: its enabled stages are executed one after the      *)
(* other, each with a bounded channel from the captures of its command to  *)
(* a task of persist_stage_logs (src/src/pipeline_log_store.rs), which     *)
(* inserts rows up to a limit, while a client pages through the rows of    *)
(* all stages (src/src/pipeline_logs.rs).                                  *)
(*                                                                         *)
(* What a command prints is numbered 1, 2, 3 ..., in the order in which    *)
(* the channel takes it; an event, a chunk or a row is an interval         *)
(* [from, to] of it.                                                       *)
(***************************************************************************)
EXTENDS Integers, Sequences

CONSTANTS
  NumStages,
  MaxLogBytes,       \* MAX_LOG_BYTES
  MaxChunkBytes,     \* MAX_LOG_CHUNK_BYTES
  ChannelCapacity,   \* 64
  EventSizes,        \* sizes of what a capture reads at once
  MaxOutput,         \* bound: what a command prints
  PageLimits         \* limits a client asks for

ASSUME LogsAssumption ==
  /\ NumStages \in Nat /\ MaxLogBytes \in Nat /\ MaxOutput \in Nat
  /\ MaxChunkBytes \in Nat \ {0} /\ ChannelCapacity \in Nat \ {0}
  /\ EventSizes \subseteq Nat \ {0} /\ PageLimits \subseteq Nat \ {0}

VARIABLES
  stage,      \* the stage the engine is at
  engine,     \* "idle", "command", "await", "record" or "ended"
  sent,       \* per stage: what its captures have sent
  channel,    \* per stage: intervals not received yet
  writer,     \* per stage: "none", "receiving", "returned" or "failed"
  hand,       \* per stage: chunks of the received event not handled yet
  total, sequence, truncated,   \* the variables of persist_stage_logs
  rows,       \* per stage: the rows of pipeline_stage_logs, oldest first
  stored,     \* per stage: stage_runs.logs_truncated, NULL until recorded
  page        \* what the client has read

logVars == <<sent, channel, writer, hand, total, sequence, truncated, rows>>
vars == <<stage, engine, logVars, stored, page>>

Stages == 1 .. NumStages
Smaller(a, b) == IF a < b THEN a ELSE b
Size(i) == i.to - i.from + 1

Init ==
  /\ stage = 0 /\ engine = "idle"
  /\ sent = [i \in Stages |-> 0]
  /\ channel = [i \in Stages |-> <<>>]
  /\ writer = [i \in Stages |-> "none"]
  /\ hand = [i \in Stages |-> <<>>]
  /\ total = [i \in Stages |-> 0]
  /\ sequence = [i \in Stages |-> 0]
  /\ truncated = [i \in Stages |-> FALSE]
  /\ rows = [i \in Stages |-> <<>>]
  /\ stored = [i \in Stages |-> "unset"]
  /\ page = <<>>

ClientIdle == UNCHANGED page

-----------------------------------------------------------------------------
(* The engine around a stage's command                                     *)

StartStage ==
  /\ engine = "idle" /\ stage < NumStages
  /\ stage' = stage + 1
  /\ engine' = "command"
  /\ writer' = [writer EXCEPT ![stage'] = "receiving"]
  /\ UNCHANGED <<sent, channel, hand, total, sequence, truncated, rows, stored>>
  /\ ClientIdle

\* A capture sends what it has read, when the channel has room.
Send(n) ==
  /\ engine = "command" /\ writer[stage] = "receiving"
  /\ Len(channel[stage]) < ChannelCapacity
  /\ sent[stage] + n <= MaxOutput
  /\ sent' = [sent EXCEPT ![stage] = @ + n]
  /\ channel' = [channel EXCEPT
       ![stage] = Append(@, [from |-> sent[stage] + 1, to |-> sent[stage] + n])]
  /\ UNCHANGED <<stage, engine, writer, hand, total, sequence, truncated,
                 rows, stored>>
  /\ ClientIdle

EndCommandTo(next) ==
  /\ engine = "command"
  /\ engine' = next
  /\ UNCHANGED <<stage, logVars, stored>>
  /\ ClientIdle

\* Mutant: the engine goes on without the writer.
EndCommandUnawaited == EndCommandTo("idle")

\* The command ended, in whatever way, and both captures dropped their sender.
EndCommand == EndCommandTo("await")

\* The engine joins the log writer; its error fails the run.
AwaitWriter ==
  /\ engine = "await"
  /\ \/ writer[stage] = "returned" /\ engine' = "record"
     \/ writer[stage] = "failed" /\ engine' = "ended"
  /\ UNCHANGED <<stage, logVars, stored>>
  /\ ClientIdle

\* logs_truncated is updated; the run goes on with the next stage unless the
\* command failed or was cancelled or a statement fails.
RecordTruncated ==
  /\ engine = "record"
  /\ stored' = [stored EXCEPT ![stage] = IF truncated[stage] THEN "yes" ELSE "no"]
  /\ engine' \in {"idle", "ended"}
  /\ UNCHANGED <<stage, logVars>>
  /\ ClientIdle

RecordFails ==
  /\ engine = "record"
  /\ engine' = "ended"
  /\ UNCHANGED <<stage, logVars, stored>>
  /\ ClientIdle

-----------------------------------------------------------------------------
(* persist_stage_logs                                                      *)

\* data.chunks(MAX_LOG_CHUNK_BYTES)
Chunks(event) ==
  [k \in 1 .. (Size(event) + MaxChunkBytes - 1) \div MaxChunkBytes |->
     [from |-> event.from + (k - 1) * MaxChunkBytes,
      to   |-> Smaller(event.to, event.from + k * MaxChunkBytes - 1)]]

Receive(i) ==
  /\ writer[i] = "receiving" /\ hand[i] = <<>> /\ channel[i] # <<>>
  /\ hand' = [hand EXCEPT ![i] = Chunks(Head(channel[i]))]
  /\ channel' = [channel EXCEPT ![i] = Tail(@)]
  /\ UNCHANGED <<stage, engine, sent, writer, total, sequence, truncated, rows,
                 stored>>
  /\ ClientIdle

Remaining(i) == IF total[i] < MaxLogBytes THEN MaxLogBytes - total[i] ELSE 0

\* Nothing remains of the limit: the chunk is dropped.
DropChunk(i) ==
  /\ writer[i] = "receiving" /\ hand[i] # <<>>
  /\ Remaining(i) = 0
  /\ truncated' = [truncated EXCEPT ![i] = TRUE]
  /\ hand' = [hand EXCEPT ![i] = Tail(@)]
  /\ UNCHANGED <<stage, engine, sent, channel, writer, total, sequence, rows,
                 stored>>
  /\ ClientIdle

\* Mutants: the last chunk is not cut; a chunk that is cut is not marked.
WholeChunk(i) == Size(Head(hand[i]))
NeverCut(i) == FALSE

Length(i) == Smaller(Size(Head(hand[i])), Remaining(i))
Cut(i) == Length(i) < Size(Head(hand[i]))

InsertChunk(i) ==
  /\ writer[i] = "receiving" /\ hand[i] # <<>>
  /\ Remaining(i) > 0
  /\ truncated' = [truncated EXCEPT ![i] = @ \/ Cut(i)]
  /\ LET first == Head(hand[i]).from
     IN rows' = [rows EXCEPT ![i] = Append(@,
          [sequence |-> sequence[i], from |-> first, to |-> first + Length(i) - 1])]
  /\ total' = [total EXCEPT ![i] = @ + Length(i)]
  /\ sequence' = [sequence EXCEPT ![i] = @ + 1]
  /\ hand' = [hand EXCEPT ![i] = Tail(@)]
  /\ UNCHANGED <<stage, engine, sent, channel, writer, stored>>
  /\ ClientIdle

\* The INSERT fails: the task returns and drops the receiver, which breaks
\* the captures of the command.
InsertFails(i) ==
  /\ writer[i] = "receiving" /\ hand[i] # <<>>
  /\ Remaining(i) > 0
  /\ writer' = [writer EXCEPT ![i] = "failed"]
  /\ channel' = [channel EXCEPT ![i] = <<>>]
  /\ hand' = [hand EXCEPT ![i] = <<>>]
  /\ UNCHANGED <<stage, engine, sent, total, sequence, truncated, rows, stored>>
  /\ ClientIdle

\* recv returns None: the channel is empty and no sender is left.  The captures
\* drop theirs when the command ends (StageExecution has the exceptions).
ReturnTruncated(i) ==
  /\ writer[i] = "receiving" /\ hand[i] = <<>> /\ channel[i] = <<>>
  /\ i # stage \/ engine # "command"
  /\ writer' = [writer EXCEPT ![i] = "returned"]
  /\ UNCHANGED <<stage, engine, sent, channel, hand, total, sequence, truncated,
                 rows, stored>>
  /\ ClientIdle

Write(i) == Receive(i) \/ DropChunk(i) \/ InsertChunk(i) \/ InsertFails(i) \/ ReturnTruncated(i)

-----------------------------------------------------------------------------
(* GET /api/runs/{id}/logs                                                 *)

\* ORDER BY position, sequence: the rows of stages 1 .. n in order.
RowsUpTo[n \in Nat] ==
  IF n = 0 THEN <<>>
  ELSE RowsUpTo[n - 1] \o [k \in DOMAIN rows[n] |-> <<n, rows[n][k].sequence>>]

AllRows == RowsUpTo[NumStages]

\* The client asks for the rows after those it has: OFFSET Len(page).
ReadPage(limit) ==
  /\ page' = page \o SubSeq(AllRows, Len(page) + 1, Smaller(Len(page) + limit, Len(AllRows)))
  /\ UNCHANGED <<stage, engine, logVars, stored>>

-----------------------------------------------------------------------------
Engine == StartStage \/ EndCommand \/ AwaitWriter \/ RecordTruncated \/ RecordFails

Terminated ==
  /\ engine = "ended" \/ (engine = "idle" /\ stage = NumStages)
  /\ UNCHANGED vars

Next ==
  \/ Engine
  \/ \E n \in EventSizes : Send(n)
  \/ \E i \in Stages : Write(i)
  \/ \E limit \in PageLimits : ReadPage(limit)
  \/ Terminated

Spec == Init /\ [][Next]_vars

-----------------------------------------------------------------------------
Intervals == [from : 1 .. MaxOutput, to : 1 .. MaxOutput]

\* The form of every state; stored bytes never exceed the limit of a stage.
TypeOK ==
  /\ stage \in 0 .. NumStages
  /\ engine \in {"idle", "command", "await", "record", "ended"}
  /\ sent \in [Stages -> 0 .. MaxOutput]
  /\ channel \in [Stages -> Seq(Intervals)]
  /\ \A i \in Stages : Len(channel[i]) <= ChannelCapacity
  /\ writer \in [Stages -> {"none", "receiving", "returned", "failed"}]
  /\ hand \in [Stages -> Seq(Intervals)]
  /\ total \in [Stages -> 0 .. MaxLogBytes]
  /\ sequence \in [Stages -> Nat]
  /\ truncated \in [Stages -> BOOLEAN]
  /\ rows \in [Stages -> Seq([sequence : Nat, from : 1 .. MaxOutput, to : 1 .. MaxOutput])]
  /\ stored \in [Stages -> {"unset", "yes", "no"}]

\* The rows of a stage hold a prefix of its output: no gap, no repetition,
\* no empty row and none beyond the chunk size, numbered from 0; the limit
\* cuts the last one (persist_stage_logs).
RowsArePrefix ==
  \A i \in Stages : \A k \in DOMAIN rows[i] :
    /\ rows[i][k].sequence = k - 1
    /\ rows[i][k].from = IF k = 1 THEN 1 ELSE rows[i][k - 1].to + 1
    /\ Size(rows[i][k]) \in 1 .. MaxChunkBytes
    /\ rows[i][k].to <= Smaller(sent[i], MaxLogBytes)

\* Every state is well formed and its rows tell a part of the output: no cut,
\* failing insert or dropped chunk leaves a hole, an overlap or a long row.
RowsInv == TypeOK /\ RowsArePrefix

\* A stage whose flag was recorded has all its output in the rows, up to the
\* limit, and is marked truncated exactly when the output exceeds the limit.
TruncationTold ==
  \A i \in Stages : stored[i] # "unset" =>
    /\ stored[i] = "yes" <=> sent[i] > MaxLogBytes
    /\ total[i] = Smaller(sent[i], MaxLogBytes)

\* A client that pages with OFFSET while the run executes reads every row
\* once and in order: rows only ever appear after those it has seen, because
\* a stage starts only after the log writer of the one before has returned.
PagesExact ==
  /\ Len(page) <= Len(AllRows)
  /\ page = SubSeq(AllRows, 1, Len(page))
=============================================================================

------------------------- MODULE StageExecutionProofs -------------------------
(***************************************************************************)
(* What is proved of StageExecution, for every group of processes, every   *)
(* capacity of the pipes and the log channel and every limit: a result     *)
(* that comes from an exit status comes with the whole output and with a   *)
(* log that is complete up to its limit, and a kill reaches the whole      *)
(* group.                                                                  *)
(***************************************************************************)
EXTENDS StageExecution, FiniteSets, FunctionTheorems, FiniteSetTheorems, SequenceTheorems, TLAPS

-----------------------------------------------------------------------------
(* The inductive invariant.                                                *)

\* The processes that have begun a write to the stream and not finished it.
Writers(s) == {m \in Members : writing[m] = s}

\* Chunks of the stream that its capture has read and not passed on, chunks
\* in the log channel, and the one the log writer inserts.
Unsent(s) == IF capture[s] = "sending" THEN 1 ELSE 0
Places(s) == {i \in 1 .. Len(channel) : channel[i] = s}
Queued(s) == Cardinality(Places(s))
InHand(s) == IF hand = s THEN 1 ELSE 0

\* What of the stream's output has passed its capture, when none is lost.
Passed(s) == produced[s] - Cardinality(Writers(s)) - pipe[s] - Unsent(s)

\* No kill, no error and no abort has cost the stream any of its output.
Unhurt(s) ==
  /\ capture[s] \notin {"broken", "aborted"}
  /\ status \in {None, "Success", "Failed"}
  /\ result \in {None, "Success", "Failed"}

\* The processes of the group and the write ends they hold.
GroupInv ==
  /\ IsFiniteSet(alive)
  /\ \A m \in Members : writing[m] # None => m \in alive /\ m \notin silent
  /\ pc = "start" => alive = {} /\ \A s \in Streams : capture[s] = "none"
  /\ \A s \in Streams : capture[s] = "none" => alive = {} /\ pc \in {"start", "done"}
  /\ \A s \in Streams : capture[s] = "ended" => pipe[s] = 0 /\ alive \subseteq silent

\* How the call ends.
CallInv ==
  /\ pc \in {"start", "wait"} => status = None
  /\ pc = "wait" /\ Leader \notin alive => exit # None
  /\ pc = "collect" => status # None
  /\ pc # "start" /\ status \in {"Cancelled", "TimedOut"} => alive = {}
  /\ result \in {"Success", "Failed"} =>
       status = result /\ \A s \in Streams : capture[s] = "ended"
  /\ withLogs => result # "Dropped"

\* No chunk is counted twice, and none is missing of a stream that is unhurt.
OutputKept(s) ==
  /\ delivered[s] <= Passed(s)
  /\ Unhurt(s) =>
       /\ retained[s] = IF Passed(s) < RetainLimit THEN Passed(s) ELSE RetainLimit
       /\ truncated[s] <=> Passed(s) > RetainLimit
       /\ withLogs => delivered[s] = Passed(s)

\* Chunks of the stream that the log writer has taken and is done with.
Handled(s) == delivered[s] - InHand(s) - Queued(s)

\* Unless the writer failed, the log holds what it handled, up to the limit.
LogKept ==
  /\ Total <= LogLimit
  /\ writer # "failed" =>
       /\ logsTruncated <=> 2 * (Handled("stdout") + Handled("stderr")) > LogLimit
       /\ logsTruncated => Total = LogLimit
       /\ ~logsTruncated => \A s \in Streams : stored[s] = 2 * Handled(s)

WriterInv ==
  /\ writer = "none" <=> ~withLogs
  /\ ~withLogs => channel = <<>>
  /\ hand # None => writer = "receiving"
  /\ writer = "failed" => channel = <<>> /\ ~sinkOpen
  /\ writer = "returned" =>
       channel = <<>> /\ pc # "start" /\ \A s \in Streams : ~Readers(s)
  /\ report \in {"Success", "Failed"} => writer = "returned" /\ result = report

ExecutionInv ==
  /\ StageTypeOK
  /\ GroupInv /\ CallInv /\ WriterInv
  /\ \A s \in Streams : OutputKept(s)
  /\ LogKept

-----------------------------------------------------------------------------
(* Counting: what a step does to the number of writers and to the queue.   *)

LEMMA CountsAreNumbers ==
  ASSUME ExecutionInv, NEW s \in Streams
  PROVE  /\ IsFiniteSet(Writers(s)) /\ Cardinality(Writers(s)) \in Nat
         /\ IsFiniteSet(Places(s)) /\ Queued(s) \in Nat
<1>1. IsFiniteSet(alive) /\ Writers(s) \subseteq alive
  BY ExecutorAssumption DEF ExecutionInv, GroupInv, Writers
<1>2. IsFiniteSet(Writers(s)) /\ Cardinality(Writers(s)) \in Nat
  BY <1>1, FS_Subset, FS_CardinalityType
<1>3. Len(channel) \in Nat /\ Places(s) \subseteq 1 .. Len(channel)
  BY DEF ExecutionInv, StageTypeOK, TypeOK, Places
<1>4. IsFiniteSet(1 .. Len(channel))
  BY <1>3, FS_Interval
<1>5. IsFiniteSet(Places(s)) /\ Cardinality(Places(s)) \in Nat
  BY <1>3, <1>4, FS_Subset, FS_CardinalityType
<1> QED
  BY <1>2, <1>5 DEF Queued

LEMMA OneMoreWriter ==
  ASSUME ExecutionInv, NEW m \in Members, NEW s \in Streams,
         writing[m] = None, writing' = [writing EXCEPT ![m] = s]
  PROVE  /\ Cardinality(Writers(s)') = Cardinality(Writers(s)) + 1
         /\ \A t \in Streams \ {s} : Writers(t)' = Writers(t)
<1>1. writing \in [Members -> Streams \cup {None}] /\ None \notin Streams
  BY ExecutorAssumption DEF ExecutionInv, StageTypeOK, TypeOK
<1>2. Writers(s)' = Writers(s) \cup {m} /\ m \notin Writers(s)
  BY <1>1 DEF Writers
<1>3. \A t \in Streams \ {s} : Writers(t)' = Writers(t)
  BY <1>1 DEF Writers
<1> QED
  BY <1>2, <1>3, CountsAreNumbers, FS_AddElement

LEMMA OneWriterLess ==
  ASSUME ExecutionInv, NEW m \in Members, NEW s \in Streams,
         writing[m] = s, writing' = [writing EXCEPT ![m] = None]
  PROVE  /\ Cardinality(Writers(s)') = Cardinality(Writers(s)) - 1
         /\ \A t \in Streams \ {s} : Writers(t)' = Writers(t)
<1>1. writing \in [Members -> Streams \cup {None}] /\ None \notin Streams
  BY ExecutorAssumption DEF ExecutionInv, StageTypeOK, TypeOK
<1>2. Writers(s)' = Writers(s) \ {m} /\ m \in Writers(s)
  BY <1>1 DEF Writers
<1>3. \A t \in Streams \ {s} : Writers(t)' = Writers(t)
  BY <1>1 DEF Writers
<1> QED
  BY <1>2, <1>3, CountsAreNumbers, FS_RemoveElement

\* A kill, or the end of a process, takes writers away.
LEMMA NoNewWriter ==
  ASSUME ExecutionInv, NEW s \in Streams,
         \A m \in Members : writing'[m] \in {writing[m], None}
  PROVE  /\ Cardinality(Writers(s)') \in Nat
         /\ Cardinality(Writers(s)') <= Cardinality(Writers(s))
<1>1. Writers(s)' \subseteq Writers(s)
  BY ExecutorAssumption DEF Writers
<1> QED
  BY <1>1, CountsAreNumbers, FS_Subset, FS_CardinalityType

LEMMA OneMoreQueued ==
  ASSUME ExecutionInv, NEW s \in Streams, channel' = Append(channel, s)
  PROVE  /\ Queued(s)' = Queued(s) + 1
         /\ \A t \in Streams \ {s} : Queued(t)' = Queued(t)
<1>1. channel \in Seq(Streams) /\ Len(channel) \in Nat
  BY DEF ExecutionInv, StageTypeOK, TypeOK
<1>2. /\ Len(channel') = Len(channel) + 1
      /\ channel'[Len(channel) + 1] = s
      /\ \A i \in 1 .. Len(channel) : channel'[i] = channel[i]
  BY <1>1, AppendProperties
<1>3. Places(s)' = Places(s) \cup {Len(channel) + 1} /\ Len(channel) + 1 \notin Places(s)
  <2> DEFINE n == Len(channel)
             old == channel
             new == channel'
  <2>1. n \in Nat /\ 1 .. (n + 1) = (1 .. n) \cup {n + 1} /\ n + 1 \notin 1 .. n
    BY <1>1
  <2>2. Places(s) = {i \in 1 .. n : old[i] = s} /\ Places(s)' = {i \in 1 .. (n + 1) : new[i] = s}
    BY <1>2 DEF Places
  <2>3. new[n + 1] = s /\ \A i \in 1 .. n : new[i] = old[i]
    BY <1>2
  <2> HIDE DEF n, old, new
  <2>4. Places(s)' = Places(s) \cup {n + 1} /\ n + 1 \notin Places(s)
    BY <2>1, <2>2, <2>3
  <2> QED
    BY <2>4 DEF n
<1>4. \A t \in Streams \ {s} : Places(t)' = Places(t)
  <2> SUFFICES ASSUME NEW t \in Streams \ {s} PROVE Places(t)' = Places(t)
    OBVIOUS
  <2> DEFINE n == Len(channel)
             old == channel
             new == channel'
  <2>1. n \in Nat /\ 1 .. (n + 1) = (1 .. n) \cup {n + 1}
    BY <1>1
  <2>2. Places(t) = {i \in 1 .. n : old[i] = t} /\ Places(t)' = {i \in 1 .. (n + 1) : new[i] = t}
    BY <1>2 DEF Places
  <2>3. new[n + 1] = s /\ \A i \in 1 .. n : new[i] = old[i]
    BY <1>2
  <2> HIDE DEF n, old, new
  <2> QED
    BY <2>1, <2>2, <2>3
<1>5. IsFiniteSet(Places(s))
  BY CountsAreNumbers
<1>6. Cardinality(Places(s)') = Cardinality(Places(s)) + 1
  BY <1>3, <1>5, FS_AddElement
<1> QED
  BY <1>4, <1>6 DEF Queued

LEMMA OneQueuedLess ==
  ASSUME ExecutionInv, channel # <<>>, channel' = Tail(channel), NEW h, h = Head(channel)
  PROVE  /\ h \in Streams
         /\ Queued(h)' = Queued(h) - 1
         /\ \A t \in Streams \ {h} : Queued(t)' = Queued(t)
<1> DEFINE n == Len(channel)
           old == channel
           new == channel'
           P(t) == {i \in 1 .. n : old[i] = t}
           Q(t) == {i \in 1 .. (n - 1) : new[i] = t}
<1>1. channel \in Seq(Streams) /\ n \in Nat /\ n >= 1 /\ h = old[1] /\ h \in Streams
  BY HeadTailProperties, EmptySeq, LenProperties DEF ExecutionInv, StageTypeOK, TypeOK
<1>2. Len(new) = n - 1 /\ \A i \in 1 .. (n - 1) : new[i] = old[i + 1]
  BY <1>1, HeadTailProperties
<1>3. \A t \in Streams : Places(t) = P(t) /\ Places(t)' = Q(t)
  BY <1>2 DEF Places
<1> HIDE DEF n, old, new
<1>4. ASSUME NEW t \in Streams
      PROVE  /\ IsFiniteSet(P(t)) /\ IsFiniteSet(P(t) \ {1})
             /\ Cardinality(P(t) \ {1}) = Cardinality(Q(t))
             /\ Cardinality(P(t) \ {1}) = Cardinality(P(t)) - (IF h = t THEN 1 ELSE 0)
  <2>1. IsFiniteSet(P(t)) /\ Cardinality(P(t)) \in Nat
    BY <1>3, CountsAreNumbers DEF Queued
  <2>2. 1 \in P(t) <=> h = t
    BY <1>1
  <2>3. /\ IsFiniteSet(P(t) \ {1})
        /\ Cardinality(P(t) \ {1}) = Cardinality(P(t)) - (IF h = t THEN 1 ELSE 0)
    <3> HIDE DEF P
    <3>1. CASE 1 \in P(t)
      BY <2>1, <2>2, <3>1, FS_RemoveElement
    <3>2. CASE 1 \notin P(t)
      BY <2>1, <2>2, <3>2, FS_RemoveElement
    <3> QED
      BY <3>1, <3>2
  <2> DEFINE f == [i \in P(t) \ {1} |-> i - 1]
  <2>4. f \in [P(t) \ {1} -> Q(t)]
    BY <1>1, <1>2
  <2>5. \A i, j \in P(t) \ {1} : f[i] = f[j] => i = j
    BY <1>1
  <2>6. \A j \in Q(t) : \E i \in P(t) \ {1} : f[i] = j
    <3> SUFFICES ASSUME NEW j \in Q(t) PROVE \E i \in P(t) \ {1} : f[i] = j
      OBVIOUS
    <3>1. j + 1 \in P(t) \ {1}
      BY <1>1, <1>2
    <3> QED
      BY <3>1, <1>1
  <2> HIDE DEF f
  <2>7. f \in Bijection(P(t) \ {1}, Q(t))
    BY <2>4, <2>5, <2>6, Fun_IsBij
  <2>8. ExistsBijection(P(t) \ {1}, Q(t))
    BY <2>7 DEF ExistsBijection
  <2> HIDE DEF P, Q
  <2> QED
    BY <2>1, <2>3, <2>8, FS_Bijection
<1>5. \A t \in Streams : Queued(t) = Cardinality(P(t)) /\ Queued(t)' = Cardinality(Q(t))
  BY <1>3 DEF Queued
<1>6. \A t \in Streams : Cardinality(P(t)) \in Nat
  BY <1>5, CountsAreNumbers
<1> HIDE DEF P, Q
<1>8. \A t \in Streams : Queued(t)' = Queued(t) - (IF h = t THEN 1 ELSE 0)
  BY <1>4, <1>5, <1>6
<1>9. h \in Streams /\ Queued(h)' = Queued(h) - 1
  BY <1>1, <1>8
<1>10. \A t \in Streams \ {h} : Queued(t)' = Queued(t)
  BY <1>5, <1>6, <1>8
<1> QED
  BY <1>9, <1>10

-----------------------------------------------------------------------------
(* What steps leave of the output and of the logs alone.                   *)

LEMMA OutputFrame ==
  ASSUME ExecutionInv, NEW s \in Streams,
         UNCHANGED <<withLogs, produced, pipe, retained, truncated, delivered>>,
         \A m \in Members : writing'[m] \in {writing[m], None},
         capture'[s] \in {capture[s], "aborted"},
         Unhurt(s)' => Unhurt(s) /\ Writers(s)' = Writers(s)
  PROVE  OutputKept(s)'
<1> DEFINE c == Cardinality(Writers(s))
           d == Cardinality(Writers(s)')
<1>1. c \in Nat /\ d \in Nat /\ d <= c
  BY CountsAreNumbers, NoNewWriter
<1>2. Writers(s)' = Writers(s) => d = c
  OBVIOUS
<1>3. /\ OutputKept(s)
      /\ pipe[s] \in Nat /\ produced[s] \in Nat /\ delivered[s] \in Nat /\ retained[s] \in Nat
      /\ MaxChunks \in Nat /\ RetainLimit \in Nat
  BY ExecutorAssumption DEF ExecutionInv, StageTypeOK, TypeOK
<1>4. /\ Passed(s) = produced[s] - c - pipe[s] - Unsent(s)
      /\ Passed(s)' = produced[s] - d - pipe[s] - Unsent(s)'
  BY DEF Passed
<1> HIDE DEF c, d
<1>5. Unsent(s) \in Nat /\ Unsent(s)' \in Nat /\ Unsent(s)' <= Unsent(s)
  BY DEF Unsent
<1>6. Unhurt(s)' => capture'[s] = capture[s] /\ Unsent(s)' = Unsent(s)
  BY DEF Unhurt, Unsent
<1>7. delivered'[s] <= Passed(s)'
  BY <1>1, <1>3, <1>4, <1>5 DEF OutputKept
<1>8. Unhurt(s)' => Passed(s)' = Passed(s)
  BY <1>1, <1>2, <1>4, <1>6
<1> QED
  BY <1>3, <1>7, <1>8 DEF OutputKept

LEMMA LogFrame ==
  ASSUME ExecutionInv,
         UNCHANGED <<stored, logsTruncated>>,
         writer' # "failed" =>
           writer # "failed" /\ \A s \in Streams : Handled(s)' = Handled(s)
  PROVE  LogKept'
<1>1. LogKept
  BY DEF ExecutionInv
<1>2. Total' = Total
  BY DEF Total
<1>3. "stdout" \in Streams /\ "stderr" \in Streams
  BY DEF Streams
<1> QED
  BY <1>1, <1>2, <1>3 DEF LogKept

LEMMA LogUntouched ==
  ASSUME ExecutionInv,
         UNCHANGED <<stored, logsTruncated, hand, channel, delivered, writer>>
  PROVE  LogKept'
<1>1. \A s \in Streams : Handled(s)' = Handled(s)
  BY DEF Handled, Queued, Places, InHand
<1> QED
  BY <1>1, LogFrame

-----------------------------------------------------------------------------
(* The waiting task                                                        *)

Kill == KillGroup \/ DropChild

LEMMA KillTakesAway ==
  ASSUME ExecutionInv, Kill
  PROVE  /\ alive' \subseteq alive /\ IsFiniteSet(alive')
         /\ UNCHANGED <<silent, produced>>
         /\ writing' \in [Members -> Streams \cup {None}]
         /\ \A m \in Members : writing'[m] \in {writing[m], None}
         /\ \A m \in Members : writing'[m] # None => m \in alive' /\ m \notin silent'
         /\ exit' \in {None, "Success", "Failed"}
<1> USE DEF ExecutionInv, StageTypeOK, TypeOK, GroupInv
<1>0. Leader \in Members
  BY DEF Members
<1>1. CASE KillGroup
  <2>1. alive' = {} /\ IsFiniteSet(alive')
    BY <1>1, FS_EmptySet DEF KillGroup
  <2> QED
    BY <1>1, <2>1 DEF KillGroup
<1>2. CASE KillLeader
  <2>1. alive' = alive \ {Leader} /\ IsFiniteSet(alive')
    BY <1>2, FS_RemoveElement DEF KillLeader
  <2> QED
    BY <1>0, <1>2, <2>1 DEF KillLeader
<1>3. CASE UNCHANGED processVars
  BY <1>3 DEF processVars
<1> QED
  BY <1>1, <1>2, <1>3 DEF Kill, DropChild

\* A step of the waiting task that ends the wait or the call.
LEMMA CallStep ==
  ASSUME ExecutionInv, Kill, pc # "done",
         UNCHANGED <<withLogs, cancelled, expired, pipe, sinkOpen, retained, truncated,
                     channel, delivered, stageVars>>,
         AbortCaptures \/ UNCHANGED capture,
         \/ pc' = "collect" /\ pc = "wait" /\ result' = None
         \/ pc' = "done" /\ result' # None /\ status' = status,
         status' \in {None, "Success", "Failed", "TimedOut", "Cancelled"},
         result' \in Outcomes \cup {None},
         status' \in {None, "Success", "Failed"} /\ result' \in {None, "Success", "Failed"}
           => UNCHANGED <<capture, writing>>,
         CallInv'
  PROVE  ExecutionInv'
<1> USE DEF ExecutionInv
<1>1. /\ StageTypeOK /\ TypeOK /\ GroupInv /\ CallInv /\ WriterInv
      /\ result = None /\ None \notin Outcomes \cup Streams
  BY ExecutorAssumption DEF StageTypeOK, TypeOK
<1>2. /\ alive' \subseteq alive /\ IsFiniteSet(alive')
      /\ UNCHANGED <<silent, produced>>
      /\ writing' \in [Members -> Streams \cup {None}]
      /\ \A m \in Members : writing'[m] \in {writing[m], None}
      /\ \A m \in Members : writing'[m] # None => m \in alive' /\ m \notin silent'
      /\ exit' \in {None, "Success", "Failed"}
  BY KillTakesAway
<1>3. /\ capture' \in [Streams -> Reading \cup {"none", "ended", "broken", "aborted"}]
      /\ \A s \in Streams : \/ capture'[s] = capture[s]
                            \/ capture'[s] = "aborted" /\ Readers(s)
  BY <1>1 DEF TypeOK, AbortCaptures
<1>4. \A s \in Streams : Readers(s)' => Readers(s)
  BY <1>3 DEF Readers, Reading
<1>5. StageTypeOK'
  <2>1. alive' \subseteq Members /\ silent' \subseteq Members
    BY <1>1, <1>2 DEF TypeOK
  <2>2. pc' \in {"start", "wait", "collect", "done"} /\ (pc' = "done" <=> result' # None)
    OBVIOUS
  <2>3. TypeOK'
    BY <1>1, <1>2, <1>3, <2>1, <2>2 DEF TypeOK
  <2> QED
    BY <1>1, <2>3 DEF StageTypeOK, stageVars
<1>6. GroupInv'
  <2>1. \A s \in Streams : capture'[s] = "none" => alive' = {} /\ pc' \in {"start", "done"}
    BY <1>1, <1>2, <1>3 DEF GroupInv
  <2>2. \A s \in Streams : capture'[s] = "ended" => pipe'[s] = 0 /\ alive' \subseteq silent'
    BY <1>1, <1>2, <1>3 DEF GroupInv
  <2> QED
    BY <1>2, <2>1, <2>2 DEF GroupInv
<1>7. WriterInv'
  <2>1. report \notin {"Success", "Failed"}
    BY <1>1 DEF WriterInv, Outcomes
  <2> QED
    BY <1>1, <1>4, <2>1 DEF WriterInv, stageVars
<1>8. ASSUME NEW s \in Streams PROVE OutputKept(s)'
  <2>1. capture'[s] \in {capture[s], "aborted"}
    BY <1>3
  <2>2. Unhurt(s)' => Unhurt(s) /\ Writers(s)' = Writers(s)
    BY <1>1 DEF Unhurt, Writers, CallInv
  <2> QED
    BY <1>2, <2>1, <2>2, OutputFrame
<1>9. LogKept'
  BY LogUntouched DEF stageVars
<1> QED
  BY <1>5, <1>6, <1>7, <1>8, <1>9

LEMMA TaskSteps ==
  ASSUME ExecutionInv, UNCHANGED stageVars,
         \/ Refuse \/ StartCancelled
         \/ WaitCancelled \/ WaitExpired \/ WaitExited \/ WaitFails
         \/ DropCall \/ Collect
  PROVE  ExecutionInv'
<1>1. /\ TypeOK /\ GroupInv /\ CallInv
      /\ None \notin Outcomes /\ (pc # "done" => result = None)
  BY ExecutorAssumption DEF ExecutionInv, StageTypeOK, TypeOK
<1>2. CASE Refuse \/ StartCancelled
  <2>1. /\ UNCHANGED processVars /\ UNCHANGED captureVars /\ pc = "start"
        /\ pc' = "done" /\ result' \in {"Error", "Cancelled"} /\ status' = status
        /\ UNCHANGED <<withLogs, cancelled, expired, pipe, sinkOpen>>
    BY <1>2 DEF Refuse, StartCancelled, Return
  <2>2. Kill /\ UNCHANGED <<capture, retained, truncated, channel, delivered>>
    BY <2>1 DEF Kill, DropChild, captureVars
  <2>3. CallInv'
    BY <1>1, <2>1, <2>2 DEF CallInv, Outcomes
  <2>4. result' \in Outcomes \cup {None} /\ result' # None
    BY <1>1, <2>1 DEF Outcomes
  <2> QED
    BY <1>1, <2>1, <2>2, <2>3, <2>4, CallStep DEF TypeOK, processVars
<1>3. CASE WaitCancelled \/ WaitExpired
  <2>1. /\ KillGroup /\ UNCHANGED captureVars /\ pc = "wait"
        /\ pc' = "collect" /\ status' \in {"Cancelled", "TimedOut"} /\ result' = result
        /\ UNCHANGED <<withLogs, cancelled, expired, pipe, sinkOpen>>
    BY <1>3 DEF WaitCancelled, WaitExpired, EndWait
  <2>2. Kill /\ UNCHANGED <<capture, retained, truncated, channel, delivered>>
    BY <2>1 DEF Kill, captureVars
  <2>3. CallInv'
    <3>1. alive' = {}
      BY <2>1 DEF KillGroup
    <3>2. result' = None /\ status' # None
      BY <1>1, <2>1 DEF Outcomes
    <3> QED
      BY <1>1, <2>1, <3>1, <3>2 DEF Outcomes, CallInv
  <2>4. status' \notin {None, "Success", "Failed"} /\ result' = None
    BY <1>1, <2>1 DEF Outcomes
  <2> QED
    BY <1>1, <2>1, <2>2, <2>3, <2>4, CallStep
<1>4. CASE WaitExited
  <2>1. /\ UNCHANGED processVars /\ UNCHANGED captureVars /\ pc = "wait" /\ Leader \notin alive
        /\ pc' = "collect" /\ status' = exit /\ result' = result
        /\ UNCHANGED <<withLogs, cancelled, expired, pipe, sinkOpen>>
    BY <1>4 DEF WaitExited, EndWait
  <2>2. Kill /\ UNCHANGED <<capture, retained, truncated, channel, delivered>>
    BY <2>1 DEF Kill, DropChild, captureVars
  <2>3. status' \in {"Success", "Failed"} /\ result' = None
    BY <1>1, <2>1 DEF CallInv, TypeOK
  <2>4. CallInv'
    BY <1>1, <2>1, <2>3 DEF Outcomes, CallInv
  <2> QED
    BY <1>1, <2>1, <2>2, <2>3, <2>4, CallStep DEF processVars
<1>5. CASE WaitFails \/ DropCall
  <2>1. /\ pc' = "done" /\ result' \in {"Error", "Dropped"} /\ status' = status
        /\ pc \in {"wait", "collect"}
        /\ UNCHANGED captureVars
        /\ UNCHANGED <<withLogs, cancelled, expired, pipe, sinkOpen>>
    BY <1>5 DEF WaitFails, DropCall, Return
  <2>2. Kill /\ UNCHANGED <<capture, retained, truncated, channel, delivered>>
    BY <1>5, <2>1 DEF Kill, DropChild, captureVars, WaitFails, DropCall
  <2>3. withLogs => result' # "Dropped"
    BY <1>5 DEF WaitFails, DropCall, Return
  <2>4. alive' \subseteq alive
    BY <2>2, KillTakesAway
  <2>5. CallInv'
    BY <1>1, <2>1, <2>3, <2>4 DEF CallInv
  <2>6. result' \in Outcomes \cup {None} /\ result' # None
    BY <1>1, <2>1 DEF Outcomes
  <2>7. result' \notin {None, "Success", "Failed"}
    BY <2>1, <2>6
  <2> QED
    BY <1>1, <2>1, <2>2, <2>5, <2>6, <2>7, CallStep DEF TypeOK
<1>6. CASE CollectCancelled \/ CollectExpired
  <2>1. /\ pc' = "done" /\ result' \in {"Cancelled", "TimedOut"} /\ status' = status
        /\ pc = "collect" /\ AbortCaptures /\ UNCHANGED processVars
        /\ UNCHANGED <<withLogs, cancelled, expired, pipe, sinkOpen>>
        /\ UNCHANGED <<retained, truncated, channel, delivered>>
    BY <1>6 DEF CollectCancelled, CollectExpired, Return
  <2>2. Kill
    BY <2>1 DEF Kill, DropChild
  <2>3. CallInv'
    BY <1>1, <2>1 DEF CallInv, processVars
  <2>4. result' \in Outcomes \cup {None} /\ result' # None
    BY <1>1, <2>1 DEF Outcomes
  <2>5. result' \notin {None, "Success", "Failed"}
    BY <2>1, <2>4
  <2> QED
    BY <1>1, <2>1, <2>2, <2>3, <2>4, <2>5, CallStep DEF TypeOK
<1>7. CASE CollectComplete
  <2>1. /\ pc' = "done" /\ status' = status /\ result' \in {status, "Error"}
        /\ result' = "Error" \/ \A s \in Streams : capture[s] # "broken"
        /\ \A s \in Streams : capture[s] \in {"ended", "broken"}
        /\ pc = "collect" /\ UNCHANGED processVars /\ UNCHANGED captureVars
        /\ UNCHANGED <<withLogs, cancelled, expired, pipe, sinkOpen>>
    BY <1>7 DEF CollectComplete, Return, Joined
  <2>2. Kill /\ UNCHANGED <<capture, retained, truncated, channel, delivered>>
    BY <2>1 DEF Kill, DropChild, captureVars
  <2>3. result' \in Outcomes /\ result' # None /\ result' # "Dropped"
    BY <1>1, <2>1 DEF Outcomes, CallInv, TypeOK
  <2>4. CallInv'
    BY <1>1, <2>1, <2>2, <2>3 DEF CallInv, processVars
  <2> QED
    BY <1>1, <2>1, <2>2, <2>3, <2>4, CallStep DEF TypeOK, processVars
<1> QED
  BY <1>2, <1>3, <1>4, <1>5, <1>6, <1>7 DEF Collect

LEMMA SpawnStep ==
  ASSUME ExecutionInv, Spawn, UNCHANGED stageVars
  PROVE  ExecutionInv'
<1> USE DEF ExecutionInv
<1>1. /\ pc = "start" /\ pc' = "wait" /\ alive = {} /\ alive' = {Leader} /\ alive' \subseteq Members
      /\ capture' = [s \in Streams |-> "reading"]
      /\ UNCHANGED <<withLogs, status, result, cancelled, expired, silent, writing, exit, pipe,
                     produced, retained, truncated, channel, sinkOpen, delivered>>
      /\ UNCHANGED <<writer, hand, stored, logsTruncated, report>>
      /\ None \notin Outcomes \cup Streams
  BY ExecutorAssumption DEF Spawn, GroupInv, stageVars, Members
<1>2. StageTypeOK'
  BY <1>1 DEF StageTypeOK, TypeOK, Reading
<1>3. GroupInv'
  <2>1. IsFiniteSet(alive')
    BY <1>1, FS_Singleton
  <2> QED
    BY <1>1, <2>1 DEF GroupInv
<1>4. CallInv'
  <2>1. status' = None /\ None \notin {"Cancelled", "TimedOut"}
    BY <1>1 DEF CallInv, Outcomes
  <2> QED
    BY <1>1, <2>1 DEF CallInv, StageTypeOK, TypeOK, Outcomes
<1>5. WriterInv'
  BY <1>1 DEF WriterInv
<1>6. ASSUME NEW s \in Streams PROVE OutputKept(s)'
  <2>1. Writers(s)' = Writers(s) /\ Unsent(s)' = Unsent(s)
    BY <1>1 DEF Writers, Unsent, GroupInv
  <2>2. Passed(s)' = Passed(s) /\ (Unhurt(s)' => Unhurt(s))
    BY <1>1, <2>1 DEF Passed, Unhurt, GroupInv
  <2> QED
    BY <1>1, <2>2 DEF OutputKept
<1>7. LogKept'
  BY <1>1, LogUntouched
<1> QED
  BY <1>2, <1>3, <1>4, <1>5, <1>6, <1>7

LEMMA CallerSteps ==
  ASSUME ExecutionInv, Cancel \/ Expire, UNCHANGED stageVars
  PROVE  ExecutionInv'
<1> USE DEF ExecutionInv
<1>1. /\ UNCHANGED <<withLogs, pc, status, result, alive, silent, writing, exit, pipe, produced,
                     capture, retained, truncated, channel, sinkOpen, delivered>>
      /\ UNCHANGED <<writer, hand, stored, logsTruncated, report>>
      /\ cancelled' \in BOOLEAN /\ expired' \in BOOLEAN
  BY DEF Cancel, Expire, CallerOnly, taskVars, processVars, stageVars, StageTypeOK, TypeOK
<1>2. StageTypeOK'
  BY <1>1 DEF StageTypeOK, TypeOK
<1>3. GroupInv' /\ CallInv' /\ WriterInv'
  BY <1>1 DEF GroupInv, CallInv, WriterInv, Readers
<1>4. ASSUME NEW s \in Streams PROVE OutputKept(s)'
  <2>1. Passed(s)' = Passed(s) /\ Unhurt(s)' = Unhurt(s)
    BY <1>1 DEF Passed, Unhurt, Writers, Unsent
  <2> QED
    BY <1>1, <2>1 DEF OutputKept
<1>5. LogKept'
  BY <1>1, LogUntouched
<1> QED
  BY <1>2, <1>3, <1>4, <1>5

-----------------------------------------------------------------------------
(* The captures                                                            *)

\* The steps of a capture that pass nothing on.
LEMMA ReadSteps ==
  ASSUME ExecutionInv, NEW s \in Streams, ReadChunk(s) \/ EndCapture(s), UNCHANGED stageVars
  PROVE  ExecutionInv'
<1> USE DEF ExecutionInv
<1>1. /\ UNCHANGED <<withLogs, pc, status, result, cancelled, expired, alive, silent, writing,
                     exit, produced, retained, truncated, channel, sinkOpen, delivered>>
      /\ UNCHANGED <<writer, hand, stored, logsTruncated, report>>
      /\ capture[s] = "reading"
      /\ \/ /\ pipe[s] > 0 /\ pipe' = [pipe EXCEPT ![s] = @ - 1]
            /\ capture' = [capture EXCEPT ![s] = "sending"]
         \/ /\ pipe[s] = 0 /\ alive \subseteq silent /\ pipe' = pipe
            /\ capture' = [capture EXCEPT ![s] = "ended"]
  BY DEF ReadChunk, EndCapture, Readable, taskVars, processVars, stageVars
<1>2. /\ pipe \in [Streams -> 0 .. PipeCapacity] /\ PipeCapacity \in Nat
      /\ capture \in [Streams -> Reading \cup {"none", "ended", "broken", "aborted"}]
      /\ produced \in [Streams -> 0 .. MaxChunks] /\ MaxChunks \in Nat
  BY ExecutorAssumption DEF StageTypeOK, TypeOK
<1>3. /\ pipe' \in [Streams -> 0 .. PipeCapacity]
      /\ capture' \in [Streams -> Reading \cup {"none", "ended", "broken", "aborted"}]
  BY <1>1, <1>2 DEF Reading
<1>4. StageTypeOK'
  BY <1>1, <1>3 DEF StageTypeOK, TypeOK
<1>5. GroupInv'
  <2>1. \A t \in Streams : capture'[t] = "ended" => pipe'[t] = 0 /\ alive' \subseteq silent'
    BY <1>1, <1>2 DEF GroupInv
  <2>2. \A t \in Streams : capture'[t] = "none" => capture[t] = "none"
    BY <1>1, <1>2
  <2>3. pc # "start"
    BY <1>1 DEF GroupInv
  <2> QED
    BY <1>1, <2>1, <2>2, <2>3 DEF GroupInv
<1>6. CallInv'
  BY <1>1, <1>2 DEF CallInv
<1>7. WriterInv'
  BY <1>1, <1>2 DEF WriterInv, Readers, Reading
<1>8. ASSUME NEW t \in Streams PROVE OutputKept(t)'
  <2>1. pipe'[t] + Unsent(t)' = pipe[t] + Unsent(t)
    BY <1>1, <1>2 DEF Unsent
  <2>2. Writers(t)' = Writers(t) /\ Cardinality(Writers(t)) \in Nat
    BY <1>1, CountsAreNumbers DEF Writers
  <2>3. Passed(t)' = Passed(t)
    <3> DEFINE c == Cardinality(Writers(t))
    <3>1. Passed(t)' = produced[t] - c - pipe'[t] - Unsent(t)' /\ c \in Nat
      BY <1>1, <2>2 DEF Passed
    <3>2. Unsent(t) \in Nat /\ Unsent(t)' \in Nat /\ pipe[t] \in Nat /\ pipe'[t] \in Nat
      BY <1>2, <1>3 DEF Unsent
    <3>3. Passed(t) = produced[t] - c - pipe[t] - Unsent(t)
      BY DEF Passed
    <3> HIDE DEF c
    <3> QED
      BY <1>2, <2>1, <3>1, <3>2, <3>3
  <2>4. Unhurt(t)' = Unhurt(t)
    BY <1>1, <1>2 DEF Unhurt
  <2> QED
    BY <1>1, <2>3, <2>4 DEF OutputKept
<1>9. LogKept'
  BY <1>1, LogUntouched
<1> QED
  BY <1>4, <1>5, <1>6, <1>7, <1>8, <1>9

\* A capture passes on the chunk it has read.
LEMMA SendStep ==
  ASSUME ExecutionInv, NEW s \in Streams, SendChunk(s), UNCHANGED stageVars
  PROVE  ExecutionInv'
<1> USE DEF ExecutionInv
<1>1. /\ UNCHANGED <<withLogs, pc, status, result, cancelled, expired, alive, silent, writing,
                     exit, produced, pipe, sinkOpen>>
      /\ UNCHANGED <<writer, hand, stored, logsTruncated, report>>
      /\ capture[s] = "sending"
  BY DEF SendChunk, taskVars, processVars, stageVars
<1>2. /\ pipe \in [Streams -> 0 .. PipeCapacity] /\ PipeCapacity \in Nat
      /\ capture \in [Streams -> Reading \cup {"none", "ended", "broken", "aborted"}]
      /\ produced \in [Streams -> 0 .. MaxChunks] /\ MaxChunks \in Nat
      /\ retained \in [Streams -> 0 .. RetainLimit] /\ RetainLimit \in Nat
      /\ truncated \in [Streams -> BOOLEAN]
      /\ delivered \in [Streams -> 0 .. MaxChunks]
      /\ channel \in Seq(Streams) /\ Len(channel) <= ChannelCapacity /\ ChannelCapacity \in Nat
  BY ExecutorAssumption DEF StageTypeOK, TypeOK
<1>3. pc # "start"
  BY <1>1 DEF GroupInv
<1>4. ASSUME NEW t \in Streams
      PROVE  /\ Writers(t)' = Writers(t) /\ Cardinality(Writers(t)) \in Nat
             /\ Queued(t) \in Nat /\ InHand(t) \in Nat /\ InHand(t)' = InHand(t)
             /\ Passed(t) \in Int /\ OutputKept(t)
             /\ Passed(t) = produced[t] - Cardinality(Writers(t)) - pipe[t] - Unsent(t)
             /\ Passed(t)' = produced[t] - Cardinality(Writers(t)) - pipe[t] - Unsent(t)'
  <2>1. Writers(t)' = Writers(t) /\ Cardinality(Writers(t)) \in Nat /\ Queued(t) \in Nat
    BY <1>1, CountsAreNumbers DEF Writers
  <2>2. InHand(t) \in Nat /\ InHand(t)' = InHand(t) /\ Unsent(t) \in Nat
    BY <1>1 DEF InHand, Unsent
  <2> DEFINE c == Cardinality(Writers(t))
  <2>3. c \in Nat /\ Cardinality(Writers(t)') = c
    BY <2>1
  <2>4. /\ Passed(t) = produced[t] - c - pipe[t] - Unsent(t)
        /\ Passed(t)' = produced'[t] - Cardinality(Writers(t)') - pipe'[t] - Unsent(t)'
    BY DEF Passed
  <2> HIDE DEF c
  <2>5. /\ Passed(t) \in Int
        /\ Passed(t)' = produced[t] - c - pipe[t] - Unsent(t)'
    BY <1>1, <1>2, <2>2, <2>3, <2>4
  <2>6. OutputKept(t)
    OBVIOUS
  <2> QED
    BY <2>1, <2>2, <2>4, <2>5, <2>6 DEF c
<1>5. Unsent(s) = 1
  BY <1>1 DEF Unsent
<1>6. CASE /\ withLogs /\ sinkOpen /\ Len(channel) < ChannelCapacity
           /\ channel' = Append(channel, s)
           /\ delivered' = [delivered EXCEPT ![s] = @ + 1]
           /\ capture' = [capture EXCEPT ![s] = "reading"]
           /\ Retain(s)
  <2>1. /\ Passed(s)' = Passed(s) + 1
        /\ delivered'[s] = delivered[s] + 1
        /\ \A t \in Streams \ {s} : Passed(t)' = Passed(t) /\ delivered'[t] = delivered[t]
    <3>1. Unsent(s)' = 0 /\ \A t \in Streams \ {s} : Unsent(t)' = Unsent(t)
      BY <1>2, <1>6 DEF Unsent
    <3>2. Passed(s)' = Passed(s) + 1
      <4> DEFINE c == Cardinality(Writers(s))
      <4>1. /\ Passed(s) = produced[s] - c - pipe[s] - 1
            /\ Passed(s)' = produced[s] - c - pipe[s] - 0
            /\ c \in Nat /\ produced[s] \in Nat /\ pipe[s] \in Nat
        BY <1>2, <1>4, <1>5, <3>1
      <4> HIDE DEF c
      <4> QED
        BY <4>1
    <3>3. \A t \in Streams \ {s} : Passed(t)' = Passed(t)
      BY <1>4, <3>1
    <3> QED
      BY <1>2, <1>6, <3>2, <3>3
  <2>2. /\ Queued(s)' = Queued(s) + 1
        /\ \A t \in Streams \ {s} : Queued(t)' = Queued(t)
    BY <1>6, OneMoreQueued
  <2>3. \A t \in Streams : Unhurt(t)' = Unhurt(t)
    BY <1>1, <1>2, <1>6 DEF Unhurt
  <2>4. OutputKept(s)'
    <3>1. retained'[s] = (IF retained[s] < RetainLimit THEN retained[s] + 1 ELSE retained[s])
          /\ (truncated'[s] <=> (truncated[s] \/ retained[s] >= RetainLimit))
      BY <1>2, <1>6 DEF Retain
    <3>2. delivered[s] \in Nat /\ retained[s] \in Nat /\ Passed(s) \in Int
      BY <1>2, <1>4
    <3>3. delivered'[s] <= Passed(s)'
      BY <1>4, <2>1, <3>2 DEF OutputKept
    <3>4. ASSUME Unhurt(s)'
          PROVE  /\ retained'[s] = IF Passed(s)' < RetainLimit THEN Passed(s)' ELSE RetainLimit
                 /\ truncated'[s] <=> Passed(s)' > RetainLimit
                 /\ withLogs' => delivered'[s] = Passed(s)'
      <4>1. /\ retained[s] = IF Passed(s) < RetainLimit THEN Passed(s) ELSE RetainLimit
            /\ truncated[s] <=> Passed(s) > RetainLimit
            /\ withLogs => delivered[s] = Passed(s)
        BY <1>4, <2>3, <3>4 DEF OutputKept
      <4>2. Passed(s)' = Passed(s) + 1
        BY <2>1
      <4>3. retained'[s] = IF Passed(s)' < RetainLimit THEN Passed(s)' ELSE RetainLimit
        BY <1>2, <3>1, <3>2, <4>1, <4>2
      <4>4. truncated'[s] <=> Passed(s)' > RetainLimit
        BY <1>2, <3>1, <3>2, <4>1, <4>2
      <4> QED
        BY <1>1, <2>1, <4>1, <4>3, <4>4
    <3> QED
      BY <3>3, <3>4 DEF OutputKept
  <2>5. \A t \in Streams \ {s} : OutputKept(t)'
    <3>1. \A t \in Streams \ {s} : retained'[t] = retained[t] /\ truncated'[t] = truncated[t]
      BY <1>2, <1>6 DEF Retain
    <3> QED
      BY <1>1, <1>4, <2>1, <2>3, <3>1 DEF OutputKept
  <2>6. LogKept'
    <3>1. \A t \in Streams : Handled(t)' = Handled(t)
      <4> SUFFICES ASSUME NEW t \in Streams PROVE Handled(t)' = Handled(t)
        OBVIOUS
      <4>1. \/ Queued(t)' = Queued(t) + 1 /\ delivered'[t] = delivered[t] + 1
            \/ Queued(t)' = Queued(t) /\ delivered'[t] = delivered[t]
        BY <2>1, <2>2
      <4>2. /\ delivered[t] \in Nat /\ Queued(t) \in Nat /\ InHand(t) \in Nat
            /\ InHand(t)' = InHand(t)
        BY <1>2, <1>4
      <4> QED
        BY <4>1, <4>2 DEF Handled
    <3> QED
      BY <1>1, <3>1, LogFrame
  <2>7. delivered' \in [Streams -> 0 .. MaxChunks]
    <3>1. delivered'[s] <= produced[s]
      <4> DEFINE c == Cardinality(Writers(s))
      <4>1. /\ delivered[s] <= Passed(s) /\ Passed(s) = produced[s] - c - pipe[s] - 1
            /\ c \in Nat /\ pipe[s] \in Nat /\ produced[s] \in Nat /\ delivered[s] \in Nat
        BY <1>2, <1>4, <1>5 DEF OutputKept
      <4> HIDE DEF c
      <4> QED
        BY <2>1, <4>1
    <3> QED
      BY <1>2, <1>6, <3>1
  <2>8. StageTypeOK'
    <3>1. /\ capture' \in [Streams -> Reading \cup {"none", "ended", "broken", "aborted"}]
          /\ retained' \in [Streams -> 0 .. RetainLimit] /\ truncated' \in [Streams -> BOOLEAN]
      BY <1>2, <1>6 DEF Retain, Reading
    <3>2. channel' \in Seq(Streams) /\ Len(channel') <= ChannelCapacity
      BY <1>2, <1>6, AppendProperties
    <3>3. TypeOK'
      BY <1>1, <2>7, <3>1, <3>2, Zenon DEF StageTypeOK, TypeOK
    <3> QED
      BY <1>1, <3>3 DEF StageTypeOK
  <2>9. \A t \in Streams : /\ capture'[t] \in {"none", "ended"} => capture'[t] = capture[t] /\ t # s
                           /\ capture[t] = "ended" => capture'[t] = "ended"
    BY <1>1, <1>2, <1>6
  <2>10. GroupInv'
    BY <1>1, <2>9 DEF GroupInv
  <2>11. CallInv'
    BY <1>1, <2>9 DEF CallInv
  <2>12. WriterInv'
    <3>1. writer # "failed"
      BY <1>6 DEF WriterInv
    <3>2. writer # "returned"
      BY <1>1 DEF WriterInv, Readers, Reading
    <3> QED
      BY <1>1, <1>6, <3>1, <3>2 DEF WriterInv
  <2> QED
    BY <2>4, <2>5, <2>6, <2>8, <2>10, <2>11, <2>12
<1>7. CASE /\ withLogs /\ ~sinkOpen
           /\ capture' = [capture EXCEPT ![s] = "broken"]
           /\ UNCHANGED <<retained, truncated, channel, delivered>>
  <2>1. Passed(s)' = Passed(s) + 1 /\ ~Unhurt(s)'
        /\ \A t \in Streams \ {s} : Passed(t)' = Passed(t) /\ Unhurt(t)' = Unhurt(t)
    <3>1. Unsent(s)' = 0 /\ \A t \in Streams \ {s} : Unsent(t)' = Unsent(t)
      BY <1>2, <1>7 DEF Unsent
    <3>2. Passed(s)' = Passed(s) + 1
      <4> DEFINE c == Cardinality(Writers(s))
      <4>1. /\ Passed(s) = produced[s] - c - pipe[s] - 1
            /\ Passed(s)' = produced[s] - c - pipe[s] - 0
            /\ c \in Nat /\ produced[s] \in Nat /\ pipe[s] \in Nat
        BY <1>2, <1>4, <1>5, <3>1
      <4> HIDE DEF c
      <4> QED
        BY <4>1
    <3>3. \A t \in Streams \ {s} : Passed(t)' = Passed(t)
      BY <1>4, <3>1
    <3>4. ~Unhurt(s)' /\ \A t \in Streams \ {s} : Unhurt(t)' = Unhurt(t)
      BY <1>1, <1>2, <1>7 DEF Unhurt
    <3> QED
      BY <3>2, <3>3, <3>4
  <2>2. ASSUME NEW t \in Streams PROVE OutputKept(t)'
    <3>1. CASE t = s
      BY <1>2, <1>4, <1>7, <2>1, <3>1 DEF OutputKept
    <3>2. CASE t # s
      BY <1>1, <1>4, <1>7, <2>1, <3>2 DEF OutputKept
    <3> QED
      BY <3>1, <3>2
  <2>3. StageTypeOK'
    <3>1. capture' \in [Streams -> Reading \cup {"none", "ended", "broken", "aborted"}]
      BY <1>2, <1>7
    <3> QED
      BY <1>1, <1>7, <3>1 DEF StageTypeOK, TypeOK
  <2>4. \A t \in Streams : /\ capture'[t] \in {"none", "ended"} => capture'[t] = capture[t] /\ t # s
                           /\ capture[t] = "ended" => capture'[t] = "ended"
    BY <1>1, <1>2, <1>7
  <2>5. GroupInv' /\ CallInv'
    BY <1>1, <2>4 DEF GroupInv, CallInv
  <2>6. WriterInv'
    BY <1>1, <1>2, <1>7 DEF WriterInv, Readers, Reading
  <2>7. LogKept'
    BY <1>1, <1>7, LogUntouched
  <2> QED
    BY <2>2, <2>3, <2>5, <2>6, <2>7
<1>8. CASE /\ ~withLogs
           /\ capture' = [capture EXCEPT ![s] = "reading"]
           /\ Retain(s)
           /\ UNCHANGED <<channel, delivered>>
  <2>1. Passed(s)' = Passed(s) + 1 /\ \A t \in Streams \ {s} : Passed(t)' = Passed(t)
    <3>1. Unsent(s)' = 0 /\ \A t \in Streams \ {s} : Unsent(t)' = Unsent(t)
      BY <1>2, <1>8 DEF Unsent
    <3>2. Passed(s)' = Passed(s) + 1
      <4> DEFINE c == Cardinality(Writers(s))
      <4>1. /\ Passed(s) = produced[s] - c - pipe[s] - 1
            /\ Passed(s)' = produced[s] - c - pipe[s] - 0
            /\ c \in Nat /\ produced[s] \in Nat /\ pipe[s] \in Nat
        BY <1>2, <1>4, <1>5, <3>1
      <4> HIDE DEF c
      <4> QED
        BY <4>1
    <3>3. \A t \in Streams \ {s} : Passed(t)' = Passed(t)
      BY <1>4, <3>1
    <3> QED
      BY <3>2, <3>3
  <2>2. \A t \in Streams : Unhurt(t)' = Unhurt(t)
    BY <1>1, <1>2, <1>8 DEF Unhurt
  <2>3. OutputKept(s)'
    <3>1. retained'[s] = (IF retained[s] < RetainLimit THEN retained[s] + 1 ELSE retained[s])
          /\ (truncated'[s] <=> (truncated[s] \/ retained[s] >= RetainLimit))
      BY <1>2, <1>8 DEF Retain
    <3>2. delivered[s] \in Nat /\ retained[s] \in Nat /\ Passed(s) \in Int
      BY <1>2, <1>4
    <3>3. delivered'[s] <= Passed(s)'
      BY <1>4, <1>8, <2>1, <3>2 DEF OutputKept
    <3>4. ASSUME Unhurt(s)'
          PROVE  /\ retained'[s] = IF Passed(s)' < RetainLimit THEN Passed(s)' ELSE RetainLimit
                 /\ truncated'[s] <=> Passed(s)' > RetainLimit
      <4>1. /\ retained[s] = IF Passed(s) < RetainLimit THEN Passed(s) ELSE RetainLimit
            /\ truncated[s] <=> Passed(s) > RetainLimit
        BY <1>4, <2>2, <3>4 DEF OutputKept
      <4>2. Passed(s)' = Passed(s) + 1
        BY <2>1
      <4>3. retained'[s] = IF Passed(s)' < RetainLimit THEN Passed(s)' ELSE RetainLimit
        BY <1>2, <3>1, <3>2, <4>1, <4>2
      <4>4. truncated'[s] <=> Passed(s)' > RetainLimit
        BY <1>2, <3>1, <3>2, <4>1, <4>2
      <4> QED
        BY <4>3, <4>4
    <3> QED
      BY <1>1, <1>8, <3>3, <3>4 DEF OutputKept
  <2>4. \A t \in Streams \ {s} : OutputKept(t)'
    <3>1. \A t \in Streams \ {s} : retained'[t] = retained[t] /\ truncated'[t] = truncated[t]
      BY <1>2, <1>8 DEF Retain
    <3> QED
      BY <1>1, <1>4, <1>8, <2>1, <2>2, <3>1 DEF OutputKept
  <2>5. LogKept'
    BY <1>1, <1>8, LogUntouched
  <2>6. StageTypeOK'
    <3>1. /\ capture' \in [Streams -> Reading \cup {"none", "ended", "broken", "aborted"}]
          /\ retained' \in [Streams -> 0 .. RetainLimit] /\ truncated' \in [Streams -> BOOLEAN]
      BY <1>2, <1>8 DEF Retain, Reading
    <3>2. TypeOK'
      BY <1>1, <1>8, <3>1, Zenon DEF StageTypeOK, TypeOK
    <3> QED
      BY <1>1, <3>2 DEF StageTypeOK
  <2>7. \A t \in Streams : /\ capture'[t] \in {"none", "ended"} => capture'[t] = capture[t] /\ t # s
                           /\ capture[t] = "ended" => capture'[t] = "ended"
    BY <1>1, <1>2, <1>8
  <2>8. GroupInv' /\ CallInv'
    BY <1>1, <2>7 DEF GroupInv, CallInv
  <2>9. WriterInv'
    BY <1>1, <1>2, <1>8 DEF WriterInv, Readers, Reading
  <2> QED
    BY <2>3, <2>4, <2>5, <2>6, <2>8, <2>9
<1> QED
  BY <1>6, <1>7, <1>8 DEF SendChunk

-----------------------------------------------------------------------------
(* The processes                                                           *)

\* Processes that come, fall silent or end, without a step of any capture.
LEMMA GroupSteps ==
  ASSUME ExecutionInv, NEW m \in Members, UNCHANGED stageVars,
         Fork(m) \/ CloseOutput(m) \/ Exit(m) \/ BrokenWrite(m)
  PROVE  ExecutionInv'
<1> USE DEF ExecutionInv
<1>1. /\ UNCHANGED <<withLogs, pc, status, result, cancelled, expired, pipe, produced, capture,
                     retained, truncated, channel, sinkOpen, delivered>>
      /\ UNCHANGED <<writer, hand, stored, logsTruncated, report>>
  BY DEF Fork, CloseOutput, Exit, BrokenWrite, Die, ProcessOnly, taskVars, captureVars, stageVars
<1>2. /\ writing \in [Members -> Streams \cup {None}] /\ None \notin Outcomes \cup Streams
      /\ alive \subseteq Members /\ silent \subseteq Members
      /\ GroupInv /\ CallInv /\ Leader \in Members
      /\ exit \in {None, "Success", "Failed"}
  BY ExecutorAssumption DEF StageTypeOK, TypeOK, Members
<1>3. /\ alive' \subseteq Members /\ IsFiniteSet(alive')
      /\ silent' \subseteq Members /\ silent \subseteq silent'
      /\ alive = {} => alive' = {}
      /\ alive \subseteq silent => alive' \subseteq silent'
  <2>1. CASE Fork(m)
    <3>1. IsFiniteSet(alive \cup {m})
      BY <1>2, FS_AddElement DEF GroupInv
    <3> QED
      BY <1>2, <2>1, <3>1 DEF Fork
  <2>2. CASE CloseOutput(m)
    BY <1>2, <2>2 DEF CloseOutput, GroupInv
  <2>3. CASE Exit(m) \/ BrokenWrite(m)
    <3>1. IsFiniteSet(alive \ {m})
      BY <1>2, FS_RemoveElement DEF GroupInv
    <3> QED
      BY <1>2, <2>3, <3>1 DEF Exit, BrokenWrite, Die
  <2> QED
    BY <2>1, <2>2, <2>3
<1>4. /\ writing' \in [Members -> Streams \cup {None}]
      /\ \A k \in Members : writing'[k] \in {writing[k], None}
      /\ \A k \in Members : writing'[k] # None => k \in alive' /\ k \notin silent'
  BY <1>2 DEF Fork, CloseOutput, Exit, BrokenWrite, Die, GroupInv
<1>5. /\ exit' \in {None, "Success", "Failed"}
      /\ pc = "wait" /\ Leader \notin alive' => exit' # None
  BY <1>2 DEF Fork, CloseOutput, Exit, BrokenWrite, Die, CallInv, Outcomes
<1>6. StageTypeOK'
  <2>1. \A k \in Members : writing'[k] # None => k \in alive'
    BY <1>4
  <2>2. TypeOK'
    BY <1>1, <1>3, <1>4, <1>5, <2>1 DEF StageTypeOK, TypeOK
  <2> QED
    BY <1>1, <2>2 DEF StageTypeOK
<1>7. GroupInv' /\ CallInv' /\ WriterInv'
  BY <1>1, <1>2, <1>3, <1>4, <1>5 DEF GroupInv, CallInv, WriterInv, Readers
<1>8. ASSUME NEW s \in Streams PROVE OutputKept(s)'
  <2>1. Unhurt(s) => Writers(s)' = Writers(s)
    <3>1. CASE BrokenWrite(m)
      <4>1. /\ m \in alive /\ writing[m] # None /\ ~Readers(writing[m])
            /\ writing' = [writing EXCEPT ![m] = None]
        BY <3>1 DEF BrokenWrite, Die
      <4>2. CASE writing[m] = s
        <5>1. capture[s] \notin {"none", "ended"} /\ ~Readers(s)
          BY <1>2, <4>1, <4>2 DEF GroupInv
        <5>2. capture[s] \in {"broken", "aborted"}
          BY <5>1 DEF StageTypeOK, TypeOK, Readers, Reading
        <5> QED
          BY <5>2 DEF Unhurt
      <4>3. CASE writing[m] # s
        BY <1>2, <4>1, <4>3 DEF Writers
      <4> QED
        BY <4>2, <4>3
    <3>2. CASE ~BrokenWrite(m)
      BY <1>2, <3>2 DEF Fork, CloseOutput, Exit, Die, Writers
    <3> QED
      BY <3>1, <3>2
  <2>2. Unhurt(s)' => Unhurt(s)
    BY <1>1 DEF Unhurt
  <2> QED
    BY <1>1, <1>4, <2>1, <2>2, OutputFrame
<1>9. LogKept'
  BY <1>1, LogUntouched
<1> QED
  BY <1>6, <1>7, <1>8, <1>9

\* A write begins, or finds room in the pipe.
LEMMA WriteSteps ==
  ASSUME ExecutionInv, NEW m \in Members, NEW s \in Streams, UNCHANGED stageVars,
         StartWrite(m, s) \/ (FinishWrite(m) /\ writing[m] = s)
  PROVE  ExecutionInv'
<1> USE DEF ExecutionInv
<1>1. /\ UNCHANGED <<withLogs, pc, status, result, cancelled, expired, alive, silent, exit, capture,
                     retained, truncated, channel, sinkOpen, delivered>>
      /\ UNCHANGED <<writer, hand, stored, logsTruncated, report>>
      /\ m \in alive
      /\ \/ /\ m \notin silent /\ writing[m] = None /\ writing' = [writing EXCEPT ![m] = s]
            /\ produced[s] < MaxChunks /\ produced' = [produced EXCEPT ![s] = @ + 1]
            /\ pipe' = pipe
         \/ /\ writing[m] = s /\ writing' = [writing EXCEPT ![m] = None]
            /\ Readers(s) /\ pipe[s] < PipeCapacity
            /\ pipe' = [pipe EXCEPT ![s] = @ + 1]
            /\ produced' = produced
  BY DEF StartWrite, FinishWrite, ProcessOnly, taskVars, captureVars, stageVars
<1>2. /\ pipe \in [Streams -> 0 .. PipeCapacity] /\ PipeCapacity \in Nat
      /\ produced \in [Streams -> 0 .. MaxChunks] /\ MaxChunks \in Nat
      /\ writing \in [Members -> Streams \cup {None}] /\ None \notin Streams
      /\ GroupInv
  BY ExecutorAssumption DEF StageTypeOK, TypeOK
<1>3. /\ pipe' \in [Streams -> 0 .. PipeCapacity] /\ produced' \in [Streams -> 0 .. MaxChunks]
      /\ writing' \in [Members -> Streams \cup {None}]
      /\ \A k \in Members : writing'[k] # None => k \in alive /\ k \notin silent
  BY <1>1, <1>2 DEF GroupInv
<1>4. StageTypeOK'
  <2>1. \A k \in Members : writing'[k] # None => k \in alive
    BY <1>3
  <2>2. TypeOK'
    BY <1>1, <1>3, <2>1 DEF StageTypeOK, TypeOK
  <2> QED
    BY <1>1, <2>2 DEF StageTypeOK
<1>5. GroupInv'
  <2>1. \A t \in Streams : capture[t] = "ended" => pipe'[t] = 0
    BY <1>1, <1>2 DEF GroupInv, Readers, Reading
  <2> QED
    BY <1>1, <1>2, <1>3, <2>1 DEF GroupInv
<1>6. CallInv' /\ WriterInv'
  BY <1>1 DEF CallInv, WriterInv, Readers
<1>7. ASSUME NEW t \in Streams PROVE OutputKept(t)'
  <2> DEFINE c == Cardinality(Writers(t))
             d == Cardinality(Writers(t)')
  <2>1. c \in Nat /\ Unsent(t)' = Unsent(t) /\ Unsent(t) \in Nat
    BY <1>1, CountsAreNumbers DEF Unsent
  <2>2. \/ d = c /\ produced'[t] = produced[t] /\ pipe'[t] = pipe[t]
        \/ d = c + 1 /\ produced'[t] = produced[t] + 1 /\ pipe'[t] = pipe[t]
        \/ d = c - 1 /\ produced'[t] = produced[t] /\ pipe'[t] = pipe[t] + 1
    <3>1. CASE writing[m] = None /\ writing' = [writing EXCEPT ![m] = s]
      <4>1. /\ Cardinality(Writers(s)') = Cardinality(Writers(s)) + 1
            /\ \A u \in Streams \ {s} : Writers(u)' = Writers(u)
        BY <3>1, OneMoreWriter
      <4>2. produced' = [produced EXCEPT ![s] = @ + 1] /\ pipe' = pipe
        BY <1>1, <1>2, <3>1
      <4> QED
        BY <1>2, <4>1, <4>2
    <3>2. CASE writing[m] = s /\ writing' = [writing EXCEPT ![m] = None]
      <4>1. /\ Cardinality(Writers(s)') = Cardinality(Writers(s)) - 1
            /\ \A u \in Streams \ {s} : Writers(u)' = Writers(u)
        BY <3>2, OneWriterLess
      <4>2. pipe' = [pipe EXCEPT ![s] = @ + 1] /\ produced' = produced
        BY <1>1, <1>2, <3>2
      <4> QED
        BY <1>2, <4>1, <4>2
    <3> QED
      BY <1>1, <3>1, <3>2
  <2>3. /\ Passed(t) = produced[t] - c - pipe[t] - Unsent(t)
        /\ Passed(t)' = produced'[t] - d - pipe'[t] - Unsent(t)'
    BY DEF Passed
  <2> HIDE DEF c, d
  <2>4. Passed(t)' = Passed(t)
    BY <1>2, <2>1, <2>2, <2>3
  <2>5. Unhurt(t)' = Unhurt(t)
    BY <1>1 DEF Unhurt
  <2> QED
    BY <1>1, <2>4, <2>5 DEF OutputKept
<1>8. LogKept'
  BY <1>1, LogUntouched
<1> QED
  BY <1>4, <1>5, <1>6, <1>7, <1>8

-----------------------------------------------------------------------------
(* The log writer and the engine                                           *)

LEMMA ReceiveStep ==
  ASSUME ExecutionInv, Receive
  PROVE  ExecutionInv'
<1> USE DEF ExecutionInv
<1>1. PICK h \in Streams :
        /\ h = Head(channel) /\ hand' = h /\ hand = None
        /\ Queued(h)' = Queued(h) - 1
        /\ \A t \in Streams \ {h} : Queued(t)' = Queued(t)
  BY OneQueuedLess DEF Receive
<1>2. /\ UNCHANGED <<withLogs, pc, status, result, cancelled, expired, alive, silent, writing, exit,
                     pipe, produced, capture, retained, truncated, delivered, sinkOpen>>
      /\ UNCHANGED <<writer, stored, logsTruncated, report>>
      /\ writer = "receiving" /\ channel # <<>> /\ channel' = Tail(channel)
  BY DEF Receive, WriterOnly, taskVars, processVars
<1>3. StageTypeOK'
  <2>1. channel \in Seq(Streams) /\ Len(channel) <= ChannelCapacity /\ ChannelCapacity \in Nat
    BY ExecutorAssumption DEF StageTypeOK, TypeOK
  <2>2. channel' \in Seq(Streams) /\ Len(channel') = Len(channel) - 1 /\ Len(channel) \in Nat
    BY <1>2, <2>1, HeadTailProperties, LenProperties
  <2>3. Len(channel') <= ChannelCapacity
    BY <2>1, <2>2
  <2>4. TypeOK'
    BY <1>2, <2>2, <2>3 DEF StageTypeOK, TypeOK
  <2> QED
    BY <1>1, <1>2, <2>4 DEF StageTypeOK
<1>4. GroupInv' /\ CallInv'
  BY <1>2 DEF GroupInv, CallInv
<1>5. WriterInv'
  BY <1>2 DEF WriterInv
<1>6. ASSUME NEW t \in Streams PROVE OutputKept(t)'
  <2>1. Passed(t)' = Passed(t) /\ Unhurt(t)' = Unhurt(t)
    BY <1>2 DEF Passed, Unhurt, Writers, Unsent
  <2> QED
    BY <1>2, <2>1 DEF OutputKept
<1>7. ASSUME NEW t \in Streams PROVE Handled(t)' = Handled(t)
  <2>1. Queued(t) \in Nat /\ delivered[t] \in Nat /\ None \notin Streams
    <3>1. Queued(t) \in Nat
      BY CountsAreNumbers
    <3> QED
      BY <3>1, ExecutorAssumption DEF StageTypeOK, TypeOK
  <2>2. \/ InHand(t) = 0 /\ InHand(t)' = 1 /\ Queued(t)' = Queued(t) - 1
        \/ InHand(t) = 0 /\ InHand(t)' = 0 /\ Queued(t)' = Queued(t)
    BY <1>1, <2>1 DEF InHand
  <2> QED
    BY <1>2, <2>1, <2>2 DEF Handled
<1>8. LogKept'
  BY <1>2, <1>7, LogFrame
<1> QED
  BY <1>3, <1>4, <1>5, <1>6, <1>8

LEMMA InsertSteps ==
  ASSUME ExecutionInv, Insert \/ Skip \/ InsertFails
  PROVE  ExecutionInv'
<1> USE DEF ExecutionInv
<1>1. /\ UNCHANGED <<withLogs, pc, status, result, cancelled, expired, alive, silent, writing, exit,
                     pipe, produced, capture, retained, truncated, delivered>>
      /\ UNCHANGED report
      /\ hand # None /\ hand' = None /\ hand \in Streams /\ None \notin Streams
      /\ writer = "receiving"
  BY ExecutorAssumption
  DEF Insert, Skip, InsertFails, WriterOnly, taskVars, processVars, StageTypeOK, WriterInv
<1>2. GroupInv' /\ CallInv'
  BY <1>1 DEF GroupInv, CallInv
<1>3. ASSUME NEW t \in Streams PROVE OutputKept(t)'
  <2>1. Passed(t)' = Passed(t) /\ Unhurt(t)' = Unhurt(t)
    BY <1>1 DEF Passed, Unhurt, Writers, Unsent
  <2> QED
    BY <1>1, <2>1 DEF OutputKept
<1>4. CASE Insert \/ Skip
  <2> DEFINE o == stored["stdout"]
             e == stored["stderr"]
             room == LogLimit - (o + e)
             length == IF room < 2 THEN room ELSE 2
  <2>1. /\ "stdout" \in Streams /\ "stderr" \in Streams
        /\ \A t \in Streams : t \in {"stdout", "stderr"}
        /\ LogLimit \in Nat
    BY StageAssumption DEF Streams
  <2>2. /\ o \in Nat /\ e \in Nat /\ o + e <= LogLimit /\ room \in Nat
        /\ stored \in [Streams -> 0 .. LogLimit] /\ logsTruncated \in BOOLEAN
    BY <2>1 DEF StageTypeOK, LogKept, Total
  <2>3. room = Remaining
    BY DEF Remaining, Total
  <2>4. /\ UNCHANGED <<channel, sinkOpen, writer>>
        /\ stored' = [stored EXCEPT ![hand] = @ + length]
        /\ logsTruncated' \in BOOLEAN
        /\ logsTruncated' <=> logsTruncated \/ room < 2
    <3>1. CASE Insert
      <4>1. /\ UNCHANGED <<channel, sinkOpen, writer>>
            /\ stored' = [stored EXCEPT ![hand] = @ + length]
            /\ logsTruncated' = (logsTruncated \/ room < 2)
        BY <2>3, <3>1 DEF Insert, Store, ChunkSize
      <4> HIDE DEF room, length
      <4> QED
        BY <4>1
    <3>2. CASE Skip
      <4>1. room = 0 /\ length = 0 /\ stored' = stored /\ logsTruncated' = TRUE
        BY <2>3, <3>2 DEF Skip
      <4>2. stored[hand] + length = stored[hand]
        BY <1>1, <2>2, <4>1
      <4>3. UNCHANGED <<channel, sinkOpen, writer>> /\ room < 2
        BY <3>2, <4>1 DEF Skip
      <4> HIDE DEF room, length
      <4> QED
        BY <2>2, <4>1, <4>2, <4>3
    <3> QED
      BY <1>4, <3>1, <3>2
  <2>5. /\ length \in Nat /\ Total' = o + e + length /\ Total' <= LogLimit
        /\ stored' \in [Streams -> 0 .. LogLimit] /\ logsTruncated' \in BOOLEAN
    <3>1. length \in Nat /\ length <= room
      BY <2>2
    <3>2. \/ stored'["stdout"] = o + length /\ stored'["stderr"] = e
          \/ stored'["stdout"] = o /\ stored'["stderr"] = e + length
      <4> HIDE DEF length
      <4> QED
        BY <1>1, <2>1, <2>2, <2>4
    <3>3. Total' = o + e + length
      <4> HIDE DEF length
      <4> QED
        BY <2>2, <3>1, <3>2 DEF Total
    <3>4. stored[hand] + length \in 0 .. LogLimit
      <4> HIDE DEF length
      <4> QED
        BY <1>1, <2>1, <2>2, <3>1
    <3>5. stored' \in [Streams -> 0 .. LogLimit]
      <4> HIDE DEF length
      <4> QED
        BY <1>1, <2>2, <2>4, <3>4
    <3>6. o + e + length <= LogLimit
      <4> HIDE DEF length
      <4> QED
        BY <2>1, <2>2, <3>1
    <3> HIDE DEF length, room, o, e
    <3> QED
      BY <2>4, <3>1, <3>3, <3>5, <3>6
  <2> HIDE DEF length
  <2>6. ASSUME NEW t \in Streams
        PROVE  /\ Handled(t) \in Int
               /\ Handled(t)' = IF t = hand THEN Handled(t) + 1 ELSE Handled(t)
    <3>1. Queued(t) \in Nat /\ delivered[t] \in Nat
      BY CountsAreNumbers DEF StageTypeOK, TypeOK
    <3>2. Queued(t)' = Queued(t)
      BY <2>4 DEF Queued, Places
    <3>3. InHand(t) = (IF t = hand THEN 1 ELSE 0) /\ InHand(t)' = 0
      BY <1>1 DEF InHand
    <3> QED
      BY <1>1, <3>1, <3>2, <3>3 DEF Handled
  <2>7. StageTypeOK'
    <3>1. TypeOK'
      BY <1>1, <2>4 DEF StageTypeOK, TypeOK
    <3> QED
      BY <1>1, <2>4, <2>5, <3>1 DEF StageTypeOK
  <2>8. WriterInv'
    BY <1>1, <2>4 DEF WriterInv
  <2>9. LogKept'
    <3> DEFINE a == Handled("stdout")
               b == Handled("stderr")
               c == Handled("stdout")'
               d == Handled("stderr")'
    <3>1. a \in Int /\ b \in Int /\ c \in Int /\ d \in Int /\ c + d = a + b + 1
      BY <1>1, <2>1, <2>6
    <3>2. /\ logsTruncated <=> 2 * (a + b) > LogLimit
          /\ logsTruncated => o + e = LogLimit
          /\ ~logsTruncated => \A t \in Streams : stored[t] = 2 * Handled(t)
      BY <1>1 DEF LogKept, Total
    <3>3. ~logsTruncated => o = 2 * a /\ e = 2 * b
      BY <2>1, <3>2
    <3>4. /\ logsTruncated' <=> 2 * (c + d) > LogLimit
          /\ logsTruncated' => Total' = LogLimit
      <4> HIDE DEF a, b, c, d, o, e
      <4>1. CASE logsTruncated
        <5>1. logsTruncated' /\ length = 0 /\ Total' = o + e + length
          BY <2>1, <2>2, <2>4, <2>5, <3>2, <4>1 DEF length
        <5>2. 2 * (c + d) > LogLimit /\ Total' = LogLimit
          BY <2>1, <2>2, <3>1, <3>2, <4>1, <5>1
        <5> QED
          BY <5>1, <5>2
      <4>2. CASE ~logsTruncated
        <5>1. 2 * (c + d) = o + e + 2
          BY <3>1, <3>3, <4>2
        <5>2. logsTruncated' <=> room < 2
          BY <2>4, <4>2
        <5>3. room < 2 <=> 2 * (c + d) > LogLimit
          BY <2>1, <2>2, <5>1
        <5>4. room < 2 => Total' = LogLimit
          BY <2>1, <2>2, <2>5 DEF length
        <5> QED
          BY <5>2, <5>3, <5>4
      <4> QED
        BY <4>1, <4>2
    <3>5. ASSUME ~logsTruncated', NEW t \in Streams
          PROVE  stored'[t] = 2 * Handled(t)'
      <4>1. length = 2 /\ ~logsTruncated
        BY <2>2, <2>4, <3>5 DEF length
      <4>2. stored'[t] = IF t = hand THEN stored[t] + 2 ELSE stored[t]
        BY <1>1, <2>2, <2>4, <4>1
      <4>3. stored[t] = 2 * Handled(t)
        BY <3>2, <4>1
      <4> QED
        BY <2>6, <4>2, <4>3
    <3> QED
      BY <1>1, <2>5, <3>4, <3>5 DEF LogKept
  <2> QED
    BY <1>2, <1>3, <2>7, <2>8, <2>9
<1>5. CASE InsertFails
  <2>1. /\ UNCHANGED <<stored, logsTruncated>>
        /\ channel' = <<>> /\ sinkOpen' = FALSE /\ writer' = "failed"
    BY <1>5 DEF InsertFails
  <2>2. StageTypeOK'
    <3>1. channel' \in Seq(Streams) /\ Len(channel') <= ChannelCapacity
      BY <2>1, ExecutorAssumption, EmptySeq
    <3>2. TypeOK'
      BY <1>1, <2>1, <3>1 DEF StageTypeOK, TypeOK
    <3> QED
      BY <1>1, <2>1, <3>2 DEF StageTypeOK
  <2>3. WriterInv'
    BY <1>1, <2>1 DEF WriterInv
  <2>4. LogKept'
    BY <2>1, LogFrame
  <2> QED
    BY <1>2, <1>3, <2>2, <2>3, <2>4
<1> QED
  BY <1>4, <1>5

\* The log writer returns, or the engine takes the outcome.
LEMMA EndSteps ==
  ASSUME ExecutionInv, ReturnWriter \/ Report
  PROVE  ExecutionInv'
<1> USE DEF ExecutionInv
<1>1. /\ UNCHANGED <<withLogs, pc, status, result, cancelled, expired, alive, silent, writing, exit,
                     pipe, produced, capture, retained, truncated, channel, sinkOpen, delivered>>
      /\ UNCHANGED <<hand, stored, logsTruncated>>
      /\ writer' \in {writer, "returned"}
  BY DEF ReturnWriter, Report, WriterOnly, vars, taskVars, processVars
<1>2. TypeOK'
  BY <1>1 DEF StageTypeOK, TypeOK
<1>3. report' \in {None, "Success", "Failed", "TimedOut", "Cancelled", "Error"}
  <2>1. CASE ReturnWriter
    BY <2>1 DEF ReturnWriter, WriterOnly, StageTypeOK
  <2>2. CASE Report
    BY <2>2 DEF Report, StageTypeOK, TypeOK, CallInv, Outcomes
  <2> QED
    BY <2>1, <2>2
<1>4. StageTypeOK'
  BY <1>1, <1>2, <1>3 DEF StageTypeOK
<1>5. GroupInv' /\ CallInv'
  BY <1>1 DEF GroupInv, CallInv
<1>6. WriterInv'
  <2>1. CASE ReturnWriter
    BY <1>1, <2>1 DEF WriterInv, ReturnWriter, SenderAlive, Readers, WriterOnly
  <2>2. CASE Report
    BY <1>1, <2>2 DEF WriterInv, Report, WriterEnded, Readers
  <2> QED
    BY <2>1, <2>2
<1>7. ASSUME NEW t \in Streams PROVE OutputKept(t)'
  <2>1. Passed(t)' = Passed(t) /\ Unhurt(t)' = Unhurt(t)
    BY <1>1 DEF Passed, Unhurt, Writers, Unsent
  <2> QED
    BY <1>1, <2>1 DEF OutputKept
<1>8. LogKept'
  <2>1. \A t \in Streams : Handled(t)' = Handled(t)
    BY <1>1 DEF Handled, Queued, Places, InHand
  <2>2. writer' # "failed" => writer # "failed"
    BY DEF ReturnWriter, Report
  <2> QED
    BY <1>1, <2>1, <2>2, LogFrame
<1> QED
  BY <1>4, <1>5, <1>6, <1>7, <1>8

-----------------------------------------------------------------------------
(* The invariant and what follows from it                                  *)

LEMMA ExecutionInitially ==
  StageInit => ExecutionInv
<1> SUFFICES ASSUME StageInit PROVE ExecutionInv
  OBVIOUS
<1> USE DEF StageInit, Init, Zero
<1>0. /\ None \notin Outcomes \cup Streams /\ Leader \in Members
      /\ PipeCapacity \in Nat /\ ChannelCapacity \in Nat /\ RetainLimit \in Nat /\ MaxChunks \in Nat
  BY ExecutorAssumption DEF Members
<1>1. StageTypeOK
  <2>1. channel \in Seq(Streams) /\ Len(channel) = 0
    BY EmptySeq
  <2>2. /\ \A m \in Members : writing[m] = None
        /\ writing \in [Members -> Streams \cup {None}]
    OBVIOUS
  <2>3. /\ pipe \in [Streams -> 0 .. PipeCapacity] /\ produced \in [Streams -> 0 .. MaxChunks]
        /\ retained \in [Streams -> 0 .. RetainLimit] /\ delivered \in [Streams -> 0 .. MaxChunks]
        /\ truncated \in [Streams -> BOOLEAN]
        /\ capture \in [Streams -> Reading \cup {"none", "ended", "broken", "aborted"}]
    BY <1>0
  <2>4. withLogs \in BOOLEAN /\ {cancelled, expired, sinkOpen} \subseteq BOOLEAN
    OBVIOUS
  <2>5. TypeOK
    BY <1>0, <2>1, <2>2, <2>3, <2>4 DEF TypeOK
  <2>6. stored \in [Streams -> 0 .. LogLimit]
    BY StageAssumption
  <2> QED
    BY <1>0, <2>5, <2>6 DEF StageTypeOK
<1>2. GroupInv
  BY <1>0, FS_EmptySet DEF GroupInv
<1>3. CallInv
  BY <1>0 DEF CallInv, Outcomes
<1>4. WriterInv
  BY <1>0 DEF WriterInv, Outcomes
<1>5. ASSUME NEW s \in Streams PROVE OutputKept(s) /\ Handled(s) = 0
  <2>1. Writers(s) = {} /\ Places(s) = {}
    BY <1>0 DEF Writers, Places
  <2>2. Cardinality(Writers(s)) = 0 /\ Queued(s) = 0
    BY <2>1, FS_EmptySet DEF Queued
  <2>3. Unsent(s) = 0 /\ InHand(s) = 0
    BY <1>0 DEF Unsent, InHand
  <2>4. Passed(s) = 0
    BY <2>2, <2>3 DEF Passed
  <2> QED
    BY <1>0, <2>2, <2>3, <2>4 DEF OutputKept, Handled
<1>6. LogKept
  <2>1. Total = 0 /\ LogLimit \in Nat
    BY StageAssumption DEF Total, Streams
  <2>2. "stdout" \in Streams /\ "stderr" \in Streams
    BY DEF Streams
  <2> QED
    BY <1>5, <2>1, <2>2 DEF LogKept
<1> QED
  BY <1>1, <1>2, <1>3, <1>4, <1>5, <1>6 DEF ExecutionInv

LEMMA ExecutionStep ==
  ExecutionInv /\ [Next]_allVars => ExecutionInv'
<1> SUFFICES ASSUME ExecutionInv, [Next]_allVars PROVE ExecutionInv'
  OBVIOUS
<1>1. CASE Execution /\ UNCHANGED stageVars
  <2>1. CASE Task \/ Refuse \/ WaitFails \/ DropCall
    BY <1>1, <2>1, TaskSteps, SpawnStep DEF Task
  <2>2. CASE \E s \in Streams : Capture(s)
    BY <1>1, <2>2, ReadSteps, SendStep DEF Capture
  <2>3. CASE \E m \in Members :
               \/ Process(m) \/ Fork(m) \/ CloseOutput(m)
               \/ \E s \in Streams : StartWrite(m, s)
    <3>1. PICK m \in Members : \/ Process(m) \/ Fork(m) \/ CloseOutput(m)
                               \/ \E s \in Streams : StartWrite(m, s)
      BY <2>3
    <3>2. CASE Exit(m) \/ BrokenWrite(m) \/ Fork(m) \/ CloseOutput(m)
      BY <1>1, <3>2, GroupSteps
    <3>3. CASE \E s \in Streams : StartWrite(m, s)
      <4>1. PICK s \in Streams : StartWrite(m, s)
        BY <3>3
      <4> QED
        BY <1>1, <4>1, WriteSteps
    <3>4. CASE FinishWrite(m)
      <4>1. writing[m] \in Streams
        BY <3>4 DEF FinishWrite, ExecutionInv, StageTypeOK, TypeOK
      <4> QED
        BY <1>1, <3>4, <4>1, WriteSteps
    <3> QED
      BY <3>1, <3>2, <3>3, <3>4 DEF Process
  <2>4. CASE Cancel \/ Expire
    BY <1>1, <2>4, CallerSteps
  <2> QED
    BY <1>1, <2>1, <2>2, <2>3, <2>4 DEF Execution
<1>2. CASE LogWriter \/ Report
  BY <1>2, ReceiveStep, InsertSteps, EndSteps DEF LogWriter
<1>3. CASE UNCHANGED allVars
  <2>1. /\ UNCHANGED <<withLogs, pc, status, result, cancelled, expired, alive, silent, writing,
                       exit, pipe, produced, capture, retained, truncated, channel, sinkOpen,
                       delivered>>
        /\ UNCHANGED <<writer, hand, stored, logsTruncated, report>>
    BY <1>3 DEF allVars, vars, stageVars
  <2>2. StageTypeOK' /\ GroupInv' /\ CallInv' /\ WriterInv'
    BY <2>1 DEF ExecutionInv, StageTypeOK, TypeOK, GroupInv, CallInv, WriterInv, Readers
  <2>3. \A s \in Streams : OutputKept(s)'
    BY <2>1 DEF ExecutionInv, OutputKept, Passed, Unhurt, Writers, Unsent
  <2>4. LogKept'
    BY <2>1, LogUntouched
  <2> QED
    BY <2>2, <2>3, <2>4 DEF ExecutionInv
<1> QED
  BY <1>1, <1>2, <1>3 DEF Next, Terminated

LEMMA ExecutionAlways == Spec => []ExecutionInv
  BY ExecutionInitially, ExecutionStep, PTL DEF Spec

\* What an exit status means for a stream.
LEMMA AllPassed ==
  ASSUME ExecutionInv, result \in {"Success", "Failed"}, NEW s \in Streams
  PROVE  Passed(s) = produced[s] /\ Unhurt(s)
<1> USE DEF ExecutionInv
<1>1. capture[s] = "ended" /\ status = result
  BY DEF CallInv
<1>2. pipe[s] = 0 /\ alive \subseteq silent
  BY <1>1 DEF GroupInv
<1>3. Writers(s) = {}
  BY <1>2, ExecutorAssumption DEF Writers, GroupInv
<1>4. Cardinality(Writers(s)) = 0 /\ Unsent(s) = 0
  BY <1>1, <1>3, FS_EmptySet DEF Unsent
<1>5. produced[s] \in Nat
  BY ExecutorAssumption DEF StageTypeOK, TypeOK
<1>6. Passed(s) = produced[s]
  BY <1>2, <1>4, <1>5 DEF Passed
<1> QED
  BY <1>1, <1>6 DEF Unhurt

\* A result that comes from an exit status comes with the whole output.
LEMMA WholeOutput == ExecutionInv => CompleteOutput
  BY AllPassed DEF CompleteOutput, ExecutionInv, OutputKept

\* When the engine takes such a result, the log writer handled everything.
LEMMA WholeLog == ExecutionInv => CompleteLog
<1> SUFFICES ASSUME ExecutionInv, report \in {"Success", "Failed"} PROVE CompleteLog
  BY DEF CompleteLog
<1> USE DEF ExecutionInv
<1>1. writer = "returned" /\ result \in {"Success", "Failed"} /\ channel = <<>>
  BY DEF WriterInv
<1>2. withLogs /\ hand = None
  BY <1>1 DEF WriterInv, StageTypeOK
<1>3. ASSUME NEW s \in Streams PROVE Handled(s) = produced[s]
  <2>1. delivered[s] = produced[s] /\ produced[s] \in Nat
    BY <1>1, <1>2, AllPassed, ExecutorAssumption DEF OutputKept, StageTypeOK, TypeOK
  <2>2. InHand(s) = 0
    BY <1>2, ExecutorAssumption DEF InHand
  <2>3. Queued(s) = 0
    <3>1. Len(<<>>) = 0 /\ 1 .. 0 = {}
      OBVIOUS
    <3>2. Places(s) = {}
      BY <1>1, <3>1 DEF Places
    <3> QED
      BY <3>2, FS_EmptySet DEF Queued
  <2> QED
    BY <2>1, <2>2, <2>3 DEF Handled
<1>4. "stdout" \in Streams /\ "stderr" \in Streams
  BY DEF Streams
<1>5. logsTruncated \in BOOLEAN
  BY DEF StageTypeOK
<1> QED
  BY <1>1, <1>3, <1>4, <1>5 DEF LogKept, CompleteLog, ChunkSize

\* Every state is well formed, and the captures lose nothing of the output
\* behind a result that comes from an exit status (read_bounded,
\* collect_output).
THEOREM OutputComplete == Spec => []OutputInv
<1>1. ExecutionInv => OutputInv
  BY WholeOutput DEF ExecutionInv, OutputInv
<1> QED
  BY <1>1, ExecutionAlways, PTL

\* The log behind such a result holds the whole output, or is full and says
\* so: neither the channel nor its receiver loses anything but what exceeds
\* MAX_LOG_BYTES (persist_stage_logs and the wait for it in execute_inner).
THEOREM LogComplete == Spec => []CompleteLog
  BY WholeLog, ExecutionAlways, PTL

\* After a wait that ended with a kill no process of the group is alive:
\* wait_for_group kills the group, and nothing starts a process in it later.
THEOREM KillComplete == Spec => []KillReachesGroup
<1>1. ExecutionInv => KillReachesGroup
  BY DEF ExecutionInv, CallInv, KillReachesGroup
<1> QED
  BY <1>1, ExecutionAlways, PTL
=============================================================================

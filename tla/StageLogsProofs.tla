---------------------------- MODULE StageLogsProofs ----------------------------
(***************************************************************************)
(* What is proved of StageLogs, for every number of stages, every limit,   *)
(* chunk size and capacity of the channel: the rows of a stage are a       *)
(* prefix of its output, the flag tells when the prefix is not the whole,  *)
(* and a client that pages through the rows misses none.                   *)
(***************************************************************************)
EXTENDS StageLogs, FunctionTheorems, FiniteSetTheorems, SequenceTheorems, TLAPS

-----------------------------------------------------------------------------
(* The inductive invariant.                                                *)

\* The intervals of the sequence follow one another from a + 1 to b.
Chain(s, a, b) ==
  /\ \A k \in 1 .. Len(s) :
       /\ s[k].from = IF k = 1 THEN a + 1 ELSE s[k - 1].to + 1
       /\ s[k].from <= s[k].to /\ s[k].to <= b
  /\ b = IF Len(s) = 0 THEN a ELSE s[Len(s)].to

\* The rows of a stage: numbered from 0, none beyond the chunk size, together
\* the first total[i] of the output.
RowsKept(i) ==
  /\ Chain(rows[i], 0, total[i])
  /\ sequence[i] = Len(rows[i])
  /\ \A k \in 1 .. Len(rows[i]) :
       rows[i][k].sequence = k - 1 /\ Size(rows[i][k]) <= MaxChunkBytes
  /\ total[i] <= sent[i]

\* Output up to p has been handled, up to q taken from the channel.
Handled(i, p, q) ==
  /\ Chain(hand[i], p, q) /\ Chain(channel[i], q, sent[i])
  /\ IF truncated[i] THEN total[i] = MaxLogBytes /\ p > MaxLogBytes ELSE total[i] = p

\* What is on its way to the rows of a stage.
Flow(i) ==
  /\ writer[i] # "failed" => \E p, q \in 0 .. MaxOutput : p <= q /\ q <= sent[i] /\ Handled(i, p, q)
  /\ writer[i] # "receiving" => hand[i] = <<>> /\ channel[i] = <<>>
  /\ \A k \in 1 .. Len(hand[i]) : Size(hand[i][k]) <= MaxChunkBytes

\* One stage after the other: a stage begins when the log writer of the one
\* before has returned.
Order(i) ==
  /\ i < stage => writer[i] = "returned"
  /\ i = stage /\ engine \in {"idle", "record"} => writer[i] = "returned"
  /\ i > stage => writer[i] = "none" /\ rows[i] = <<>>
  /\ stored[i] # "unset" => writer[i] = "returned" /\ (stored[i] = "yes" <=> truncated[i])

LogsInv ==
  /\ TypeOK
  /\ stage = 0 => engine = "idle"
  /\ \A i \in Stages : RowsKept(i) /\ Flow(i) /\ Order(i)

-----------------------------------------------------------------------------
(* Chains of intervals                                                     *)

LEMMA ChainEmpty ==
  ASSUME NEW a, NEW b, Chain(<<>>, a, b)
  PROVE  a = b
<1>1. Len(<<>>) = 0
  OBVIOUS
<1> QED
  BY <1>1 DEF Chain

LEMMA ChainNothing ==
  ASSUME NEW a
  PROVE  Chain(<<>>, a, a)
<1>1. Len(<<>>) = 0 /\ 1 .. 0 = {}
  OBVIOUS
<1> QED
  BY <1>1 DEF Chain

LEMMA ChainTail ==
  ASSUME NEW S, NEW s \in Seq(S), s # <<>>, NEW a, NEW b, Chain(s, a, b)
  PROVE  /\ s[1] \in S /\ Tail(s) \in Seq(S)
         /\ s[1].from = a + 1 /\ s[1].from <= s[1].to /\ s[1].to <= b
         /\ Chain(Tail(s), s[1].to, b)
<1> DEFINE n == Len(s)
           t == Tail(s)
<1>1. n \in Nat /\ n >= 1 /\ t \in Seq(S) /\ Len(t) = n - 1 /\ s[1] \in S
      /\ \A k \in 1 .. (n - 1) : t[k] = s[k + 1]
  BY HeadTailProperties, LenProperties, EmptySeq
<1>2. /\ \A k \in 1 .. n : /\ s[k].from = IF k = 1 THEN a + 1 ELSE s[k - 1].to + 1
                           /\ s[k].from <= s[k].to /\ s[k].to <= b
      /\ b = IF n = 0 THEN a ELSE s[n].to
  BY DEF Chain
<1> HIDE DEF n, t
<1>3. 1 \in 1 .. n
  BY <1>1
<1>4. s[1].from = a + 1 /\ s[1].from <= s[1].to /\ s[1].to <= b
  BY <1>2, <1>3
<1>5. ASSUME NEW k \in 1 .. (n - 1)
      PROVE  /\ t[k].from = IF k = 1 THEN s[1].to + 1 ELSE t[k - 1].to + 1
             /\ t[k].from <= t[k].to /\ t[k].to <= b
  <2>1. k + 1 \in 1 .. n /\ k + 1 # 1 /\ (k + 1) - 1 = k
    BY <1>1
  <2>2. s[k + 1].from = s[k].to + 1 /\ s[k + 1].from <= s[k + 1].to /\ s[k + 1].to <= b
    BY <1>2, <2>1
  <2>3. t[k] = s[k + 1]
    BY <1>1
  <2>4. k # 1 => t[k - 1] = s[k]
    BY <1>1
  <2> QED
    BY <2>2, <2>3, <2>4
<1>6. b = IF n - 1 = 0 THEN s[1].to ELSE t[n - 1].to
  BY <1>1, <1>2
<1>7. Chain(t, s[1].to, b)
  BY <1>1, <1>5, <1>6 DEF Chain
<1> QED
  BY <1>1, <1>4, <1>7 DEF t

LEMMA ChainAppend ==
  ASSUME NEW S, NEW s \in Seq(S), NEW x \in S, NEW a \in Int, NEW b \in Int, Chain(s, a, b),
         \A k \in 1 .. Len(s) : s[k].to \in Int,
         x.from = b + 1, x.from <= x.to, x.to \in Int
  PROVE  Append(s, x) \in Seq(S) /\ Chain(Append(s, x), a, x.to)
<1> DEFINE n == Len(s)
           t == Append(s, x)
           c == x.to
<1>1. n \in Nat /\ t \in Seq(S) /\ Len(t) = n + 1 /\ t[n + 1] = x
      /\ \A k \in 1 .. n : t[k] = s[k]
  BY AppendProperties, LenProperties
<1>2. /\ \A k \in 1 .. n : /\ s[k].from = IF k = 1 THEN a + 1 ELSE s[k - 1].to + 1
                           /\ s[k].from <= s[k].to /\ s[k].to <= b /\ s[k].to \in Int
      /\ b = IF n = 0 THEN a ELSE s[n].to
  BY DEF Chain
<1>3. x.from = b + 1 /\ x.from <= c /\ c \in Int /\ b < c
  OBVIOUS
<1> HIDE DEF n, t
<1>4. ASSUME NEW k \in 1 .. n
      PROVE  /\ t[k].from = IF k = 1 THEN a + 1 ELSE t[k - 1].to + 1
             /\ t[k].from <= t[k].to /\ t[k].to <= c
  <2>1. t[k] = s[k] /\ (k # 1 => t[k - 1] = s[k - 1])
    BY <1>1
  <2>2. s[k].from = (IF k = 1 THEN a + 1 ELSE s[k - 1].to + 1) /\ s[k].from <= s[k].to
    BY <1>2
  <2>3. s[k].to <= c
    BY <1>2, <1>3
  <2> QED
    BY <2>1, <2>2, <2>3
<1>5. x.from = IF n + 1 = 1 THEN a + 1 ELSE t[n].to + 1
  <2>1. CASE n = 0
    BY <1>2, <1>3, <2>1
  <2>2. CASE n # 0
    <3>1. n \in 1 .. n
      BY <1>1, <2>2
    <3> QED
      BY <1>1, <1>2, <1>3, <2>2, <3>1
  <2> QED
    BY <2>1, <2>2
<1>6. ASSUME NEW k \in 1 .. (n + 1)
      PROVE  /\ t[k].from = IF k = 1 THEN a + 1 ELSE t[k - 1].to + 1
             /\ t[k].from <= t[k].to /\ t[k].to <= c
  <2>1. CASE k \in 1 .. n
    BY <1>4, <2>1
  <2>2. CASE k = n + 1
    <3>1. t[k] = x /\ k - 1 = n
      BY <1>1, <2>2
    <3> QED
      BY <1>3, <1>5, <2>2, <3>1
  <2> QED
    BY <1>1, <2>1, <2>2
<1>7. c = IF n + 1 = 0 THEN a ELSE t[n + 1].to
  BY <1>1
<1>8. Chain(t, a, c)
  BY <1>1, <1>6, <1>7 DEF Chain
<1> QED
  BY <1>1, <1>8 DEF t

\* The pieces of one event: none beyond the chunk size, together the event.
LEMMA ChunksAreChain ==
  ASSUME NEW e \in Intervals, e.from <= e.to
  PROVE  /\ Chunks(e) \in Seq(Intervals)
         /\ Chain(Chunks(e), e.from - 1, e.to)
         /\ \A k \in 1 .. Len(Chunks(e)) : Size(Chunks(e)[k]) <= MaxChunkBytes
<1> DEFINE m == MaxChunkBytes
           f == e.from
           t == e.to
           n == (Size(e) + m - 1) \div m
           c == Chunks(e)
<1>1. m \in Nat /\ m >= 1 /\ f \in 1 .. MaxOutput /\ t \in 1 .. MaxOutput /\ f <= t
      /\ MaxOutput \in Nat
  BY LogsAssumption DEF Intervals
<1>2. n = (t - f + 1 + m - 1) \div m
  BY DEF Size
<1>3. c = [k \in 1 .. n |-> [from |-> f + (k - 1) * m, to |-> Smaller(t, f + k * m - 1)]]
  BY DEF Chunks
<1> HIDE DEF m, f, t, n, c
<1>4. n \in Nat /\ n >= 1 /\ m * n <= (t - f) + m /\ (t - f) + m < m * n + m
  <2> DEFINE d == t - f
  <2>1. d \in Nat /\ n = (d + m) \div m
    BY <1>1, <1>2
  <2> HIDE DEF d
  <2>2. n \in Int /\ m * n <= d + m /\ d + m < m * n + m
    BY <1>1, <2>1
  <2>3. n >= 1
    <3>1. CASE n <= 0
      <4>1. m * n <= 0
        BY <1>1, <2>2, <3>1
      <4> QED
        BY <1>1, <2>1, <2>2, <4>1
    <3> QED
      BY <2>2, <3>1
  <2> QED
    BY <2>2, <2>3 DEF d
<1>5. ASSUME NEW k \in 1 .. n
      PROVE  /\ k * m \in Int /\ (k - 1) * m \in Int /\ k * m = (k - 1) * m + m
             /\ (k - 1) * m >= 0
             /\ (k - 1) * m <= t - f
             /\ k < n => k * m <= t - f
             /\ k = n => k * m > t - f
  <2>1. k \in Int /\ k >= 1 /\ k <= n /\ m \in Int /\ m >= 1
    BY <1>1, <1>4
  <2>2. k * m \in Int /\ (k - 1) * m \in Int /\ k * m = (k - 1) * m + m
    BY <2>1
  <2>3. (k - 1) * m >= 0
    BY <2>1
  <2>4. (n - 1) * m = m * n - m /\ (n - 1) * m \in Int
    BY <1>1, <1>4
  <2>5. (k - 1) * m <= (n - 1) * m
    BY <1>4, <2>1
  <2>6. k < n => k * m <= (n - 1) * m
    BY <1>4, <2>1
  <2>7. (n - 1) * m <= t - f
    BY <1>1, <1>4, <2>4
  <2>8. k = n => k * m > t - f
    BY <1>1, <1>4, <2>1
  <2> QED
    BY <1>1, <2>2, <2>3, <2>4, <2>5, <2>6, <2>7, <2>8
<1>6. ASSUME NEW k \in 1 .. n
      PROVE  /\ c[k].from = f + (k - 1) * m
             /\ c[k].to = IF k = n THEN t ELSE f + k * m - 1
             /\ c[k].from <= c[k].to /\ c[k].to <= t
             /\ c[k].to - c[k].from + 1 <= m
             /\ c[k] \in Intervals
  <2> DEFINE lo == (k - 1) * m
             hi == k * m
  <2>1. /\ lo \in Int /\ hi = lo + m /\ lo >= 0 /\ lo <= t - f
        /\ k < n => hi <= t - f
        /\ k = n => hi > t - f
    BY <1>1, <1>5
  <2>2. c[k] = [from |-> f + lo, to |-> Smaller(t, f + hi - 1)]
    BY <1>3
  <2>3. k = n \/ k < n
    BY <1>4
  <2> HIDE DEF lo, hi
  <2>4. k = n => Smaller(t, f + hi - 1) = t
    BY <1>1, <2>1 DEF Smaller
  <2>5. k < n => Smaller(t, f + hi - 1) = f + hi - 1
    BY <1>1, <2>1 DEF Smaller
  <2>6. c[k].from = f + lo /\ c[k].to = IF k = n THEN t ELSE f + hi - 1
    BY <1>4, <2>2, <2>3, <2>4, <2>5
  <2>7. f + lo \in 1 .. MaxOutput /\ c[k].to \in 1 .. MaxOutput
        /\ f + lo <= c[k].to /\ c[k].to <= t /\ c[k].to - (f + lo) + 1 <= m
    BY <1>1, <1>4, <2>1, <2>3, <2>6
  <2>8. c[k] \in Intervals
    BY <2>2, <2>6, <2>7 DEF Intervals
  <2> QED
    BY <2>6, <2>7, <2>8 DEF lo, hi
<1>7. c \in Seq(Intervals) /\ Len(c) = n
  <2>1. \A k \in 1 .. n : c[k] \in Intervals
    BY <1>6
  <2>2. c \in [1 .. n -> Intervals]
    BY <1>3, <2>1
  <2> QED
    BY <1>4, <2>2, IsASeq, LenProperties
<1>8. ASSUME NEW k \in 1 .. n
      PROVE  /\ c[k].from = IF k = 1 THEN (f - 1) + 1 ELSE c[k - 1].to + 1
             /\ c[k].from <= c[k].to /\ c[k].to <= t
  <2>1. CASE k = 1
    BY <1>1, <1>6, <2>1
  <2>2. CASE k # 1
    <3>1. k - 1 \in 1 .. n /\ k - 1 # n
      BY <1>4, <2>2
    <3>2. c[k - 1].to = f + (k - 1) * m - 1
      BY <1>6, <3>1
    <3>3. (k - 1) * m \in Int
      BY <1>5
    <3>4. c[k].from = c[k - 1].to + 1
      BY <1>1, <1>6, <3>2, <3>3
    <3> QED
      BY <1>6, <2>2, <3>4
  <2> QED
    BY <2>1, <2>2
<1>9. t = IF n = 0 THEN f - 1 ELSE c[n].to
  BY <1>4, <1>6
<1>10. Chain(c, f - 1, t)
  BY <1>7, <1>8, <1>9 DEF Chain
<1>11. \A k \in 1 .. Len(c) : Size(c[k]) <= m
  BY <1>6, <1>7 DEF Size
<1> QED
  BY <1>7, <1>10, <1>11 DEF m, f, t, c

-----------------------------------------------------------------------------
(* The steps of the log writer, the captures and the engine                *)

\* What a stage keeps while nothing of it changes.
LEMMA StageFrame ==
  ASSUME NEW j \in Stages, RowsKept(j), Flow(j),
         sent'[j] = sent[j], channel'[j] = channel[j], writer'[j] = writer[j],
         hand'[j] = hand[j], total'[j] = total[j], sequence'[j] = sequence[j],
         truncated'[j] = truncated[j], rows'[j] = rows[j]
  PROVE  RowsKept(j)' /\ Flow(j)'
<1>1. RowsKept(j)'
  BY DEF RowsKept
<1>2. \A p, q : Handled(j, p, q) => Handled(j, p, q)'
  BY DEF Handled
<1>3. Flow(j)'
  BY <1>2 DEF Flow
<1> QED
  BY <1>1, <1>3

\* The stages keep their order while the engine stays where it is.
LEMMA OrderFrame ==
  ASSUME NEW j \in Stages, Order(j), UNCHANGED <<stage, engine>>,
         writer'[j] = writer[j], rows'[j] = rows[j], stored'[j] = stored[j],
         truncated'[j] = truncated[j]
  PROVE  Order(j)'
BY DEF Order

LEMMA IntervalsAreNumbers ==
  ASSUME NEW x \in Intervals
  PROVE  x.from \in Nat /\ x.to \in Nat /\ x.from >= 1 /\ x.from \in 1 .. MaxOutput
         /\ x.to \in 1 .. MaxOutput
BY LogsAssumption DEF Intervals

\* The engine moves, and no log writer and no row with it.
LEMMA EngineSteps ==
  ASSUME LogsInv, EndCommand \/ AwaitWriter \/ RecordTruncated \/ RecordFails
  PROVE  LogsInv'
<1> USE DEF LogsInv
<1>1. /\ UNCHANGED <<stage, sent, channel, writer, hand, total, sequence, truncated, rows>>
      /\ engine' \in {"idle", "command", "await", "record", "ended"}
  BY DEF EndCommand, EndCommandTo, AwaitWriter, RecordTruncated, RecordFails, logVars
<1>2. stage \in Stages
  BY DEF EndCommand, EndCommandTo, AwaitWriter, RecordTruncated, RecordFails, TypeOK, Stages
<1>3. \/ stored' = stored
      \/ /\ engine = "record"
         /\ stored' = [stored EXCEPT ![stage] = IF truncated[stage] THEN "yes" ELSE "no"]
  BY DEF EndCommand, EndCommandTo, AwaitWriter, RecordTruncated, RecordFails
<1>4. TypeOK'
  <2>1. stored' \in [Stages -> {"unset", "yes", "no"}]
    BY <1>3 DEF TypeOK
  <2> QED
    BY <1>1, <2>1 DEF TypeOK
<1>5. \A j \in Stages : RowsKept(j)' /\ Flow(j)'
  BY <1>1, StageFrame
<1>6. stage # 0
  BY <1>2 DEF Stages
<1>7. engine' \in {"idle", "record"} => writer[stage] = "returned"
  BY <1>2 DEF EndCommand, EndCommandTo, AwaitWriter, RecordTruncated, RecordFails, Order
<1>8. ASSUME NEW j \in Stages PROVE Order(j)'
  <2>1. stored'[j] # "unset" => writer[j] = "returned" /\ (stored'[j] = "yes" <=> truncated[j])
    <3>1. CASE stored' = stored
      BY <3>1 DEF Order
    <3>2. CASE /\ engine = "record"
               /\ stored' = [stored EXCEPT ![stage] = IF truncated[stage] THEN "yes" ELSE "no"]
      <4>1. writer[stage] = "returned"
        BY <1>2, <3>2 DEF Order
      <4>2. stored'[stage] = "yes" <=> truncated[stage]
        BY <1>2, <3>2 DEF TypeOK
      <4>3. j # stage => stored'[j] = stored[j]
        BY <3>2 DEF TypeOK
      <4> QED
        BY <4>1, <4>2, <4>3 DEF Order
    <3> QED
      BY <1>3, <3>1, <3>2
  <2> QED
    BY <1>1, <1>7, <2>1 DEF Order
<1> QED
  BY <1>1, <1>4, <1>5, <1>6, <1>8

LEMMA StartStep ==
  ASSUME LogsInv, StartStage
  PROVE  LogsInv'
<1> USE DEF LogsInv
<1>1. /\ UNCHANGED <<sent, channel, hand, total, sequence, truncated, rows, stored>>
      /\ engine = "idle" /\ stage < NumStages /\ stage' = stage + 1 /\ engine' = "command"
      /\ writer' = [writer EXCEPT ![stage + 1] = "receiving"]
  BY DEF StartStage
<1>2. stage \in Nat /\ NumStages \in Nat /\ stage + 1 \in Stages /\ stage' \in 0 .. NumStages
      /\ stage' # 0
  BY <1>1, LogsAssumption DEF TypeOK, Stages
<1>3. TypeOK'
  BY <1>1, <1>2 DEF TypeOK
<1>4. ASSUME NEW j \in Stages PROVE RowsKept(j)' /\ Flow(j)' /\ Order(j)'
  <2>1. CASE j = stage + 1
    <3>1. writer[j] = "none" /\ rows[j] = <<>> /\ stored[j] = "unset" /\ writer'[j] = "receiving"
      BY <1>1, <1>2, <2>1 DEF Order, TypeOK
    <3>2. RowsKept(j)'
      BY <1>1 DEF RowsKept
    <3>3. \A p, q : Handled(j, p, q) => Handled(j, p, q)'
      BY <1>1 DEF Handled
    <3>4. Flow(j)'
      BY <1>1, <3>1, <3>3 DEF Flow
    <3>5. Order(j)'
      BY <1>1, <1>2, <2>1, <3>1 DEF Order
    <3> QED
      BY <3>2, <3>4, <3>5
  <2>2. CASE j # stage + 1
    <3>1. writer'[j] = writer[j]
      BY <1>1, <2>2 DEF TypeOK
    <3>2. RowsKept(j)' /\ Flow(j)'
      BY <1>1, <3>1, StageFrame
    <3>3. j \in Nat
      BY DEF Stages
    <3>4. j < stage' => j < stage \/ j = stage
      BY <1>1, <1>2, <2>2, <3>3
    <3>5. j > stage' => j > stage
      BY <1>1, <1>2, <3>3
    <3>6. j # stage'
      BY <1>1, <2>2
    <3>7. Order(j)'
      BY <1>1, <3>1, <3>4, <3>5, <3>6 DEF Order
    <3> QED
      BY <3>2, <3>7
  <2> QED
    BY <2>1, <2>2
<1> QED
  BY <1>2, <1>3, <1>4

LEMMA SendStep ==
  ASSUME LogsInv, NEW n \in EventSizes, Send(n)
  PROVE  LogsInv'
<1> USE DEF LogsInv
<1>0. PICK i \in Stages : i = stage
  <2>1. stage # 0
    BY DEF Send
  <2> QED
    BY <2>1, LogsAssumption DEF TypeOK, Stages
<1> DEFINE x == [from |-> sent[i] + 1, to |-> sent[i] + n]
<1>1. /\ UNCHANGED <<stage, engine, writer, hand, total, sequence, truncated, rows, stored>>
      /\ engine = "command" /\ writer[i] = "receiving"
      /\ Len(channel[i]) < ChannelCapacity /\ sent[i] + n <= MaxOutput
      /\ sent' = [sent EXCEPT ![i] = @ + n]
      /\ channel' = [channel EXCEPT ![i] = Append(@, x)]
  BY <1>0 DEF Send
<1>2. i \in Stages
  OBVIOUS
<1>3. /\ n \in Nat /\ n >= 1 /\ sent[i] \in Nat /\ MaxOutput \in Nat
      /\ channel[i] \in Seq(Intervals) /\ ChannelCapacity \in Nat
  BY <1>2, LogsAssumption DEF TypeOK
<1>4. x \in Intervals /\ x.from = sent[i] + 1 /\ x.from <= x.to /\ x.to = sent[i] + n
      /\ x.to \in Nat /\ x.to <= MaxOutput
  BY <1>1, <1>3 DEF Intervals
<1> HIDE DEF x
<1>5. Append(channel[i], x) \in Seq(Intervals) /\ Len(Append(channel[i], x)) = Len(channel[i]) + 1
      /\ Len(channel[i]) \in Nat
  BY <1>3, <1>4, AppendProperties, LenProperties
<1>6. TypeOK'
  <2>1. sent' \in [Stages -> 0 .. MaxOutput]
    BY <1>1, <1>2, <1>3 DEF TypeOK
  <2>2. channel' \in [Stages -> Seq(Intervals)]
    BY <1>1, <1>2, <1>5 DEF TypeOK
  <2>3. \A j \in Stages : Len(channel'[j]) <= ChannelCapacity
    BY <1>1, <1>2, <1>3, <1>5 DEF TypeOK
  <2> QED
    BY <1>1, <2>1, <2>2, <2>3 DEF TypeOK
<1>7. sent'[i] = sent[i] + n /\ channel'[i] = Append(channel[i], x)
  BY <1>1, <1>2 DEF TypeOK
<1>8. ASSUME NEW j \in Stages PROVE RowsKept(j)' /\ Flow(j)'
  <2>1. CASE j # i
    BY <1>1, <2>1, StageFrame DEF TypeOK
  <2>2. CASE j = i
    <3>1. RowsKept(i)'
      <4>1. total[i] <= sent'[i]
        <5>1. total[i] <= sent[i] /\ total[i] \in Nat
          BY LogsAssumption DEF RowsKept, TypeOK
        <5> QED
          BY <1>3, <1>7, <5>1
      <4> QED
        BY <1>1, <1>2, <4>1 DEF RowsKept
    <3>2. PICK p, q \in 0 .. MaxOutput : p <= q /\ q <= sent[i] /\ Handled(i, p, q)
      BY <1>1, <1>2 DEF Flow
    <3>3. Chain(channel'[i], q, sent'[i])
      <4>1. \A k \in 1 .. Len(channel[i]) : channel[i][k].to \in Int
        BY <1>3, ElementOfSeq, IntervalsAreNumbers
      <4>2. Chain(channel[i], q, sent[i]) /\ q \in Int /\ sent[i] \in Int /\ x.to \in Int
        BY <1>3, <1>4, <3>2 DEF Handled
      <4>3. Chain(Append(channel[i], x), q, x.to)
        BY <1>3, <1>4, <4>1, <4>2, ChainAppend
      <4> QED
        BY <1>4, <1>7, <4>3
    <3>4. Handled(i, p, q)'
      BY <1>1, <3>2, <3>3 DEF Handled
    <3>5. q <= sent'[i]
      BY <1>3, <1>7, <3>2
    <3>6. Flow(i)'
      BY <1>1, <1>2, <3>2, <3>4, <3>5 DEF Flow
    <3> QED
      BY <2>2, <3>1, <3>6
  <2> QED
    BY <2>1, <2>2
<1>9. \A j \in Stages : Order(j)'
  BY <1>1, OrderFrame
<1> QED
  BY <1>1, <1>6, <1>8, <1>9

LEMMA ReceiveStep ==
  ASSUME LogsInv, NEW i \in Stages, Receive(i)
  PROVE  LogsInv'
<1> USE DEF LogsInv
<1>0. PICK e : e = Head(channel[i])
  OBVIOUS
<1>1. /\ UNCHANGED <<stage, engine, sent, writer, total, sequence, truncated, rows, stored>>
      /\ writer[i] = "receiving" /\ hand[i] = <<>> /\ channel[i] # <<>>
      /\ hand' = [hand EXCEPT ![i] = Chunks(e)]
      /\ channel' = [channel EXCEPT ![i] = Tail(@)]
  BY <1>0 DEF Receive
<1>2. PICK p, q \in 0 .. MaxOutput : p <= q /\ q <= sent[i] /\ Handled(i, p, q)
  BY <1>1 DEF Flow
<1>3. p = q
  BY <1>1, <1>2, ChainEmpty DEF Handled
<1>4. channel[i] \in Seq(Intervals) /\ Chain(channel[i], q, sent[i])
  BY <1>2 DEF TypeOK, Handled
<1>5. /\ e \in Intervals /\ Tail(channel[i]) \in Seq(Intervals)
      /\ e.from = q + 1 /\ e.from <= e.to /\ e.to <= sent[i]
      /\ Chain(Tail(channel[i]), e.to, sent[i])
  <2>1. e = channel[i][1]
    BY <1>0, <1>1, <1>4, HeadTailProperties
  <2> QED
    BY <1>1, <1>4, <2>1, ChainTail
<1>6. /\ Chunks(e) \in Seq(Intervals) /\ Chain(Chunks(e), e.from - 1, e.to)
      /\ \A k \in 1 .. Len(Chunks(e)) : Size(Chunks(e)[k]) <= MaxChunkBytes
  BY <1>5, ChunksAreChain
<1>7. e.to \in 0 .. MaxOutput /\ e.from - 1 = p /\ p <= e.to
  BY <1>3, <1>5, LogsAssumption, IntervalsAreNumbers
<1>8. hand'[i] = Chunks(e) /\ channel'[i] = Tail(channel[i])
  BY <1>1 DEF TypeOK
<1>9. TypeOK'
  <2>1. hand' \in [Stages -> Seq(Intervals)] /\ channel' \in [Stages -> Seq(Intervals)]
    BY <1>1, <1>5, <1>6 DEF TypeOK
  <2>2. Len(Tail(channel[i])) <= ChannelCapacity
    <3>1. Len(Tail(channel[i])) = Len(channel[i]) - 1 /\ Len(channel[i]) \in Nat
      BY <1>1, <1>4, HeadTailProperties, LenProperties
    <3> QED
      BY <3>1, LogsAssumption DEF TypeOK
  <2>3. \A j \in Stages : Len(channel'[j]) <= ChannelCapacity
    BY <1>1, <1>8, <2>2 DEF TypeOK
  <2> QED
    BY <1>1, <2>1, <2>3 DEF TypeOK
<1>10. ASSUME NEW j \in Stages PROVE RowsKept(j)' /\ Flow(j)'
  <2>1. CASE j # i
    BY <1>1, <2>1, StageFrame DEF TypeOK
  <2>2. CASE j = i
    <3>1. RowsKept(i)'
      BY <1>1 DEF RowsKept
    <3>2. Handled(i, p, e.to)'
      BY <1>1, <1>2, <1>5, <1>6, <1>7, <1>8 DEF Handled
    <3>3. Flow(i)'
      BY <1>1, <1>2, <1>5, <1>6, <1>7, <1>8, <3>2 DEF Flow
    <3> QED
      BY <2>2, <3>1, <3>3
  <2> QED
    BY <2>1, <2>2
<1>11. \A j \in Stages : Order(j)'
  BY <1>1, OrderFrame
<1> QED
  BY <1>1, <1>9, <1>10, <1>11

LEMMA RemainingOfLimit ==
  ASSUME LogsInv, NEW i \in Stages
  PROVE  /\ total[i] \in Nat /\ MaxLogBytes \in Nat /\ total[i] <= MaxLogBytes
         /\ Remaining(i) = MaxLogBytes - total[i] /\ Remaining(i) \in Nat
BY LogsAssumption DEF LogsInv, TypeOK, Remaining

LEMMA DropStep ==
  ASSUME LogsInv, NEW i \in Stages, DropChunk(i)
  PROVE  LogsInv'
<1> USE DEF LogsInv
<1>1. /\ UNCHANGED <<stage, engine, sent, channel, writer, total, sequence, rows, stored>>
      /\ writer[i] = "receiving" /\ hand[i] # <<>> /\ Remaining(i) = 0
      /\ truncated' = [truncated EXCEPT ![i] = TRUE]
      /\ hand' = [hand EXCEPT ![i] = Tail(@)]
  BY DEF DropChunk
<1>2. PICK p, q \in 0 .. MaxOutput : p <= q /\ q <= sent[i] /\ Handled(i, p, q)
  BY <1>1 DEF Flow
<1>3. PICK r : r = hand[i][1].to
  OBVIOUS
<1>4. hand[i] \in Seq(Intervals) /\ Chain(hand[i], p, q)
  BY <1>2 DEF TypeOK, Handled
<1>5. /\ hand[i][1] \in Intervals /\ Tail(hand[i]) \in Seq(Intervals)
      /\ hand[i][1].from = p + 1 /\ hand[i][1].from <= r /\ r <= q
      /\ Chain(Tail(hand[i]), r, q)
  BY <1>1, <1>3, <1>4, ChainTail
<1>6. r \in 0 .. MaxOutput /\ p < r
  BY <1>2, <1>3, <1>5, LogsAssumption, IntervalsAreNumbers
<1>7. hand'[i] = Tail(hand[i]) /\ truncated'[i] = TRUE
  BY <1>1 DEF TypeOK
<1>8. total[i] = MaxLogBytes /\ p >= MaxLogBytes /\ r > MaxLogBytes
  <2>1. total[i] = MaxLogBytes /\ MaxLogBytes \in Nat
    BY <1>1, RemainingOfLimit
  <2>2. p >= MaxLogBytes
    BY <1>2, <2>1, LogsAssumption DEF Handled
  <2> QED
    BY <1>2, <1>6, <2>1, <2>2, LogsAssumption
<1>9. TypeOK'
  <2>1. hand' \in [Stages -> Seq(Intervals)] /\ truncated' \in [Stages -> BOOLEAN]
    BY <1>1, <1>5 DEF TypeOK
  <2> QED
    BY <1>1, <2>1 DEF TypeOK
<1>10. ASSUME NEW j \in Stages PROVE RowsKept(j)' /\ Flow(j)'
  <2>1. CASE j # i
    BY <1>1, <2>1, StageFrame DEF TypeOK
  <2>2. CASE j = i
    <3>1. RowsKept(i)'
      BY <1>1 DEF RowsKept
    <3>2. Handled(i, r, q)'
      BY <1>1, <1>2, <1>5, <1>7, <1>8 DEF Handled
    <3>3. ASSUME NEW k \in 1 .. Len(hand'[i]) PROVE Size(hand'[i][k]) <= MaxChunkBytes
      <4>1. hand'[i] = Tail(hand[i]) /\ k \in 1 .. Len(Tail(hand[i]))
        BY <1>7
      <4>2. /\ Len(Tail(hand[i])) = Len(hand[i]) - 1
            /\ \A m \in 1 .. Len(Tail(hand[i])) : Tail(hand[i])[m] = hand[i][m + 1]
        BY <1>1, <1>4, HeadTailProperties
      <4>3. hand'[i][k] = hand[i][k + 1] /\ k + 1 \in 1 .. Len(hand[i])
        BY <1>4, <4>1, <4>2, LenProperties
      <4> QED
        BY <4>3 DEF Flow
    <3>4. Flow(i)'
      BY <1>1, <1>2, <1>5, <1>6, <3>2, <3>3 DEF Flow
    <3> QED
      BY <2>2, <3>1, <3>4
  <2> QED
    BY <2>1, <2>2
<1>11. \A j \in Stages : Order(j)'
  <2>1. ASSUME NEW j \in Stages PROVE Order(j)'
    <3>1. CASE j # i
      BY <1>1, <3>1, OrderFrame DEF TypeOK
    <3>2. CASE j = i
      BY <1>1, <3>2 DEF Order
    <3> QED
      BY <3>1, <3>2
  <2> QED
    BY <2>1
<1> QED
  BY <1>1, <1>9, <1>10, <1>11

\* The row that InsertChunk(i) appends.
NewRow(i) ==
  [sequence |-> sequence[i], from |-> Head(hand[i]).from,
   to |-> Head(hand[i]).from + Length(i) - 1]

LEMMA InsertStep ==
  ASSUME LogsInv, NEW i \in Stages, InsertChunk(i)
  PROVE  LogsInv'
<1> USE DEF LogsInv
<1>0. PICK x, c, n : x = NewRow(i) /\ c = Head(hand[i]) /\ n = Length(i)
  OBVIOUS
<1>1. /\ UNCHANGED <<stage, engine, sent, channel, writer, stored>>
      /\ writer[i] = "receiving" /\ hand[i] # <<>> /\ Remaining(i) > 0
      /\ truncated' = [truncated EXCEPT ![i] = @ \/ n < Size(c)]
      /\ rows' = [rows EXCEPT ![i] = Append(@, x)]
      /\ total' = [total EXCEPT ![i] = @ + n]
      /\ sequence' = [sequence EXCEPT ![i] = @ + 1]
      /\ hand' = [hand EXCEPT ![i] = Tail(@)]
  BY <1>0 DEF InsertChunk, NewRow, Cut
<1>2. PICK p, q \in 0 .. MaxOutput : p <= q /\ q <= sent[i] /\ Handled(i, p, q)
  BY <1>1 DEF Flow
<1>3. /\ total[i] \in Nat /\ MaxLogBytes \in Nat /\ total[i] < MaxLogBytes
      /\ Remaining(i) = MaxLogBytes - total[i]
  BY <1>1, RemainingOfLimit
<1>4. truncated[i] = FALSE /\ p = total[i]
  BY <1>2, <1>3 DEF Handled, TypeOK
<1>5. hand[i] \in Seq(Intervals) /\ Chain(hand[i], p, q)
  BY <1>2 DEF TypeOK, Handled
<1>6. /\ c \in Intervals /\ c = hand[i][1] /\ Tail(hand[i]) \in Seq(Intervals)
      /\ c.from = p + 1 /\ c.from <= c.to /\ c.to <= q
      /\ Chain(Tail(hand[i]), c.to, q)
  <2>1. c = hand[i][1]
    BY <1>0, <1>1, <1>5, HeadTailProperties
  <2> QED
    BY <1>1, <1>5, <2>1, ChainTail
<1>7. c.to \in Nat /\ c.from \in Nat /\ c.to \in 0 .. MaxOutput /\ c.to \in 1 .. MaxOutput
      /\ MaxOutput \in Nat /\ Size(c) = c.to - p
  BY <1>6, IntervalsAreNumbers, LogsAssumption DEF Size
<1>8. Size(c) <= MaxChunkBytes /\ MaxChunkBytes \in Nat
  <2>1. 1 \in 1 .. Len(hand[i])
    BY <1>1, <1>5, LenProperties, EmptySeq
  <2> QED
    BY <1>6, <2>1, LogsAssumption DEF Flow
<1>9. /\ n \in Nat /\ n >= 1 /\ n <= Size(c) /\ n <= MaxLogBytes - p
      /\ n < Size(c) => n = MaxLogBytes - p
      /\ n = c.to - p \/ n < Size(c)
  <2> DEFINE z == Size(c)
             r == MaxLogBytes - p
  <2>1. z = c.to - p /\ z \in Nat /\ z >= 1
    BY <1>6, <1>7
  <2>2. r \in Nat /\ r >= 1 /\ Remaining(i) = r
    BY <1>3, <1>4
  <2>3. n = IF z < r THEN z ELSE r
    BY <1>0, <2>2 DEF Length, Smaller
  <2> HIDE DEF z, r
  <2>4. /\ n \in Nat /\ n >= 1 /\ n <= z /\ n <= r
        /\ n < z => n = r
        /\ n = z \/ n < z
    BY <2>1, <2>2, <2>3
  <2> QED
    BY <2>1, <2>4 DEF z, r
<1>10. x = [sequence |-> sequence[i], from |-> p + 1, to |-> p + n]
  BY <1>0, <1>6, <1>7, <1>9 DEF NewRow
<1>11. /\ hand'[i] = Tail(hand[i]) /\ total'[i] = p + n /\ rows'[i] = Append(rows[i], x)
       /\ sequence'[i] = sequence[i] + 1 /\ (truncated'[i] <=> n < Size(c))
  BY <1>1, <1>4 DEF TypeOK
<1> DEFINE Row == [sequence : Nat, from : 1 .. MaxOutput, to : 1 .. MaxOutput]
<1>12. /\ x \in Row /\ x.from = p + 1 /\ x.to = p + n /\ x.sequence = sequence[i]
       /\ rows[i] \in Seq(Row) /\ sequence[i] \in Nat
  <2>1. p + 1 \in 1 .. MaxOutput /\ p + n \in 1 .. MaxOutput
    BY <1>6, <1>7, <1>9
  <2>2. sequence[i] \in Nat /\ rows[i] \in Seq(Row)
    BY DEF TypeOK
  <2> QED
    BY <1>10, <2>1, <2>2
<1>13. /\ Append(rows[i], x) \in Seq(Row) /\ Chain(Append(rows[i], x), 0, p + n)
  <2>1. \A k \in 1 .. Len(rows[i]) : rows[i][k] \in Row
    BY <1>12, ElementOfSeq
  <2>2. \A k \in 1 .. Len(rows[i]) : rows[i][k].to \in Int
    BY <2>1, <1>7
  <2>3. Chain(rows[i], 0, p)
    BY <1>4 DEF RowsKept
  <2>4. x.to \in Int /\ x.from <= x.to /\ p \in Int /\ 0 \in Int
    BY <1>9, <1>12
  <2> HIDE DEF Row
  <2>5. Append(rows[i], x) \in Seq(Row) /\ Chain(Append(rows[i], x), 0, x.to)
    BY <1>12, <2>2, <2>3, <2>4, ChainAppend
  <2> QED
    BY <1>12, <2>5
<1>14. TypeOK'
  <2>1. /\ hand' \in [Stages -> Seq(Intervals)] /\ truncated' \in [Stages -> BOOLEAN]
        /\ sequence' \in [Stages -> Nat]
    BY <1>1, <1>6 DEF TypeOK
  <2>2. total' \in [Stages -> 0 .. MaxLogBytes]
    <3>1. total[i] + n \in 0 .. MaxLogBytes
      BY <1>3, <1>4, <1>9
    <3> QED
      BY <1>1, <3>1 DEF TypeOK
  <2>3. rows' \in [Stages -> Seq(Row)]
    <3> HIDE DEF Row
    <3>1. rows \in [Stages -> Seq(Row)]
      BY DEF TypeOK, Row
    <3> QED
      BY <1>1, <1>13, <3>1
  <2> QED
    BY <1>1, <2>1, <2>2, <2>3 DEF TypeOK
<1>15. RowsKept(i)'
  <2>1. Len(rows'[i]) = Len(rows[i]) + 1 /\ Len(rows[i]) \in Nat /\ rows'[i][Len(rows[i]) + 1] = x
        /\ \A k \in 1 .. Len(rows[i]) : rows'[i][k] = rows[i][k]
    BY <1>11, <1>12, AppendProperties, LenProperties
  <2>2. sequence'[i] = Len(rows'[i]) /\ sequence[i] = Len(rows[i])
    BY <1>11, <2>1 DEF RowsKept
  <2>3. ASSUME NEW k \in 1 .. Len(rows'[i])
        PROVE  rows'[i][k].sequence = k - 1 /\ Size(rows'[i][k]) <= MaxChunkBytes
    <3>1. CASE k \in 1 .. Len(rows[i])
      BY <2>1, <3>1 DEF RowsKept
    <3>2. CASE k = Len(rows[i]) + 1
      <4>1. x.sequence = k - 1
        BY <1>12, <2>1, <2>2, <3>2
      <4>2. Size(x) = n /\ n <= MaxChunkBytes
        BY <1>7, <1>8, <1>9, <1>12 DEF Size
      <4> QED
        BY <2>1, <3>2, <4>1, <4>2
    <3> QED
      BY <2>1, <3>1, <3>2
  <2>4. total'[i] <= sent'[i]
    <3>1. p + n <= c.to
      BY <1>7, <1>9
    <3>2. sent[i] \in Nat
      BY LogsAssumption DEF TypeOK
    <3> QED
      BY <1>1, <1>2, <1>6, <1>7, <1>9, <1>11, <3>1, <3>2
  <2> QED
    BY <1>11, <1>13, <2>2, <2>3, <2>4 DEF RowsKept
<1>16. Flow(i)'
  <2>1. Handled(i, c.to, q)'
    <3>1. Chain(hand'[i], c.to, q) /\ Chain(channel'[i], q, sent'[i])
      BY <1>1, <1>2, <1>6, <1>11 DEF Handled
    <3>2. n < Size(c) => total'[i] = MaxLogBytes /\ c.to > MaxLogBytes
      <4>1. ASSUME n < Size(c) PROVE n = MaxLogBytes - p /\ n < c.to - p
        BY <1>7, <1>9, <4>1
      <4> QED
        BY <1>3, <1>7, <1>11, <4>1
    <3>3. ~(n < Size(c)) => total'[i] = c.to
      <4>1. ASSUME ~(n < Size(c)) PROVE n = c.to - p
        BY <1>9, <4>1
      <4>2. n = c.to - p => p + n = c.to
        BY <1>7
      <4> QED
        BY <1>11, <4>1, <4>2
    <3> QED
      BY <1>11, <3>1, <3>2, <3>3 DEF Handled
  <2>2. ASSUME NEW k \in 1 .. Len(hand'[i]) PROVE Size(hand'[i][k]) <= MaxChunkBytes
    <3>1. hand'[i] = Tail(hand[i]) /\ k \in 1 .. Len(Tail(hand[i]))
      BY <1>11
    <3>2. /\ Len(Tail(hand[i])) = Len(hand[i]) - 1
          /\ \A m \in 1 .. Len(Tail(hand[i])) : Tail(hand[i])[m] = hand[i][m + 1]
      BY <1>1, <1>5, HeadTailProperties
    <3>3. hand'[i][k] = hand[i][k + 1] /\ k + 1 \in 1 .. Len(hand[i])
      BY <1>5, <3>1, <3>2, LenProperties
    <3> QED
      BY <3>3 DEF Flow
  <2> QED
    BY <1>1, <1>2, <1>6, <1>7, <2>1, <2>2 DEF Flow
<1>17. ASSUME NEW j \in Stages PROVE RowsKept(j)' /\ Flow(j)' /\ Order(j)'
  <2>1. CASE j # i
    <3>1. /\ hand'[j] = hand[j] /\ total'[j] = total[j] /\ rows'[j] = rows[j]
          /\ sequence'[j] = sequence[j] /\ truncated'[j] = truncated[j]
      BY <1>1, <2>1 DEF TypeOK
    <3> QED
      BY <1>1, <3>1, StageFrame, OrderFrame
  <2>2. CASE j = i
    <3>1. Order(i)'
      BY <1>1 DEF Order
    <3> QED
      BY <1>15, <1>16, <2>2, <3>1
  <2> QED
    BY <2>1, <2>2
<1> QED
  BY <1>1, <1>14, <1>17

LEMMA StopSteps ==
  ASSUME LogsInv, NEW i \in Stages, InsertFails(i) \/ ReturnTruncated(i)
  PROVE  LogsInv'
<1> USE DEF LogsInv
<1>1. /\ UNCHANGED <<stage, engine, sent, total, sequence, truncated, rows, stored>>
      /\ writer[i] = "receiving"
      /\ \/ /\ writer' = [writer EXCEPT ![i] = "failed"]
            /\ channel' = [channel EXCEPT ![i] = <<>>]
            /\ hand' = [hand EXCEPT ![i] = <<>>]
         \/ /\ writer' = [writer EXCEPT ![i] = "returned"]
            /\ hand[i] = <<>> /\ channel[i] = <<>>
            /\ UNCHANGED <<channel, hand>>
  BY DEF InsertFails, ReturnTruncated
<1>2. <<>> \in Seq(Intervals) /\ Len(<<>>) = 0 /\ 0 <= ChannelCapacity
  BY EmptySeq, LogsAssumption
<1>3. TypeOK'
  <2>1. /\ writer' \in [Stages -> {"none", "receiving", "returned", "failed"}]
        /\ channel' \in [Stages -> Seq(Intervals)] /\ hand' \in [Stages -> Seq(Intervals)]
        /\ \A j \in Stages : Len(channel'[j]) <= ChannelCapacity
    <3>1. CASE writer' = [writer EXCEPT ![i] = "failed"]
      <4>1. /\ channel' = [channel EXCEPT ![i] = <<>>]
            /\ hand' = [hand EXCEPT ![i] = <<>>]
        BY <1>1, <3>1 DEF TypeOK
      <4>2. /\ channel' \in [Stages -> Seq(Intervals)] /\ hand' \in [Stages -> Seq(Intervals)]
            /\ \A j \in Stages : channel'[j] = (IF j = i THEN <<>> ELSE channel[j])
        BY <1>2, <4>1 DEF TypeOK
      <4>3. ASSUME NEW j \in Stages PROVE Len(channel'[j]) <= ChannelCapacity
        BY <1>2, <4>2 DEF TypeOK
      <4> QED
        BY <3>1, <4>2, <4>3 DEF TypeOK
    <3>2. CASE UNCHANGED <<channel, hand>>
      BY <1>1, <3>2 DEF TypeOK
    <3> QED
      BY <1>1, <3>1, <3>2
  <2> QED
    BY <1>1, <2>1 DEF TypeOK
<1>4. hand'[i] = <<>> /\ channel'[i] = <<>> /\ writer'[i] \in {"failed", "returned"}
  BY <1>1 DEF TypeOK
<1>5. ASSUME NEW j \in Stages PROVE RowsKept(j)' /\ Flow(j)' /\ Order(j)'
  <2>1. CASE j # i
    <3>1. hand'[j] = hand[j] /\ channel'[j] = channel[j] /\ writer'[j] = writer[j]
      BY <1>1, <2>1 DEF TypeOK
    <3> QED
      BY <1>1, <3>1, StageFrame, OrderFrame
  <2>2. CASE j = i
    <3>1. RowsKept(i)'
      BY <1>1 DEF RowsKept
    <3>2. CASE writer'[i] = "failed"
      <4>1. 1 .. Len(hand'[i]) = {}
        BY <1>2, <1>4
      <4>2. Flow(i)'
        BY <1>4, <3>2, <4>1 DEF Flow
      <4>3. Order(i)'
        BY <1>1, <3>2 DEF Order
      <4> QED
        BY <2>2, <3>1, <4>2, <4>3
    <3>3. CASE writer'[i] = "returned"
      <4>1. UNCHANGED <<channel, hand>>
        BY <1>1, <3>3 DEF TypeOK
      <4>2. \A p, q : Handled(i, p, q) => Handled(i, p, q)'
        BY <1>1, <4>1 DEF Handled
      <4>3. Flow(i)'
        BY <1>1, <1>4, <3>3, <4>1, <4>2 DEF Flow
      <4>4. Order(i)'
        BY <1>1, <3>3 DEF Order
      <4> QED
        BY <2>2, <3>1, <4>3, <4>4
    <3> QED
      BY <1>4, <3>2, <3>3
  <2> QED
    BY <2>1, <2>2
<1> QED
  BY <1>1, <1>3, <1>5

LEMMA LogsFrame ==
  ASSUME LogsInv, UNCHANGED <<stage, engine, logVars, stored>>
  PROVE  LogsInv'
<1> USE DEF LogsInv
<1>1. UNCHANGED <<stage, engine, sent, channel, writer, hand, total, sequence, truncated,
                      rows, stored>>
  BY DEF logVars
<1>2. TypeOK'
  BY <1>1 DEF TypeOK
<1>3. \A j \in Stages : RowsKept(j)' /\ Flow(j)' /\ Order(j)'
  BY <1>1, StageFrame, OrderFrame
<1> QED
  BY <1>1, <1>2, <1>3

-----------------------------------------------------------------------------
(* The invariant and what follows from it                                  *)

LEMMA LogsInitially ==
  Init => LogsInv
<1> SUFFICES ASSUME Init PROVE LogsInv
  OBVIOUS
<1> USE DEF Init
<1>1. <<>> \in Seq(Intervals) /\ Len(<<>>) = 0 /\ 1 .. 0 = {}
      /\ <<>> \in Seq([sequence : Nat, from : 1 .. MaxOutput, to : 1 .. MaxOutput])
  BY EmptySeq
<1>2. TypeOK
  BY <1>1, LogsAssumption DEF TypeOK
<1>3. ASSUME NEW i \in Stages PROVE RowsKept(i) /\ Flow(i) /\ Order(i)
  <2>1. RowsKept(i)
    BY <1>1, ChainNothing DEF RowsKept
  <2>2. Handled(i, 0, 0)
    BY <1>1, ChainNothing DEF Handled
  <2>3. Flow(i)
    BY <1>1, <2>2, LogsAssumption DEF Flow
  <2>4. Order(i)
    BY DEF Order, Stages
  <2> QED
    BY <2>1, <2>3, <2>4
<1> QED
  BY <1>2, <1>3 DEF LogsInv

LEMMA LogsStep ==
  LogsInv /\ [Next]_vars => LogsInv'
<1> SUFFICES ASSUME LogsInv, [Next]_vars PROVE LogsInv'
  OBVIOUS
<1>1. CASE Engine
  BY <1>1, StartStep, EngineSteps DEF Engine
<1>2. CASE \E n \in EventSizes : Send(n)
  BY <1>2, SendStep
<1>3. CASE \E i \in Stages : Write(i)
  BY <1>3, ReceiveStep, DropStep, InsertStep, StopSteps DEF Write
<1>4. CASE \E limit \in PageLimits : ReadPage(limit)
  BY <1>4, LogsFrame DEF ReadPage
<1>5. CASE UNCHANGED vars
  BY <1>5, LogsFrame DEF vars
<1> QED
  BY <1>1, <1>2, <1>3, <1>4, <1>5 DEF Next, Terminated

LEMMA LogsAlways == Spec => []LogsInv
  BY LogsInitially, LogsStep, PTL DEF Spec

\* Every state is well formed, and the rows of a stage hold a prefix of its
\* output without a hole, an overlap or a row beyond the chunk size, however
\* its events were split, cut, dropped or lost with a failing insert.
THEOREM RowsTellPrefix == Spec => []RowsInv
<1>1. LogsInv => RowsInv
  <2> SUFFICES ASSUME LogsInv, NEW i \in Stages, NEW k \in DOMAIN rows[i]
               PROVE  /\ rows[i][k].sequence = k - 1
                      /\ rows[i][k].from = IF k = 1 THEN 1 ELSE rows[i][k - 1].to + 1
                      /\ Size(rows[i][k]) \in 1 .. MaxChunkBytes
                      /\ rows[i][k].to <= Smaller(sent[i], MaxLogBytes)
    BY DEF RowsInv, RowsArePrefix, LogsInv
  <2> DEFINE Row == [sequence : Nat, from : 1 .. MaxOutput, to : 1 .. MaxOutput]
             x == rows[i][k]
  <2>1. rows[i] \in Seq(Row) /\ k \in 1 .. Len(rows[i])
    BY LenProperties DEF LogsInv, TypeOK
  <2>2. x \in Row
    BY <2>1, ElementOfSeq
  <2>3. RowsKept(i)
    BY DEF LogsInv
  <2>4. x.sequence = k - 1 /\ Size(x) <= MaxChunkBytes
    BY <2>1, <2>3 DEF RowsKept
  <2>5. /\ x.from = IF k = 1 THEN 0 + 1 ELSE rows[i][k - 1].to + 1
        /\ x.from <= x.to /\ x.to <= total[i]
    BY <2>1, <2>3 DEF RowsKept, Chain
  <2>6. total[i] <= sent[i] /\ total[i] <= MaxLogBytes /\ total[i] \in Nat /\ sent[i] \in Nat
    BY <2>3, LogsAssumption DEF RowsKept, LogsInv, TypeOK
  <2>7. x.to \in Nat /\ x.from \in Nat /\ MaxChunkBytes \in Nat /\ MaxLogBytes \in Nat
    BY <2>2, LogsAssumption
  <2> HIDE DEF x, Row
  <2>8. x.to <= Smaller(sent[i], MaxLogBytes)
    BY <2>5, <2>6, <2>7 DEF Smaller
  <2>9. Size(x) \in 1 .. MaxChunkBytes
    BY <2>4, <2>5, <2>7 DEF Size
  <2>10. x.from = IF k = 1 THEN 1 ELSE rows[i][k - 1].to + 1
    BY <2>5
  <2> QED
    BY <2>4, <2>8, <2>9, <2>10 DEF x
<1> QED
  BY <1>1, LogsAlways, PTL

\* The recorded flag tells exactly whether the rows are the whole output: the
\* engine reads it from the log writer after all output has been handled.
THEOREM FlagTellsTruncation == Spec => []TruncationTold
<1>1. LogsInv => TruncationTold
  <2> SUFFICES ASSUME LogsInv, NEW i \in Stages, stored[i] # "unset"
               PROVE  /\ stored[i] = "yes" <=> sent[i] > MaxLogBytes
                      /\ total[i] = Smaller(sent[i], MaxLogBytes)
    BY DEF TruncationTold
  <2>1. writer[i] = "returned" /\ (stored[i] = "yes" <=> truncated[i])
    BY DEF LogsInv, Order
  <2>2. hand[i] = <<>> /\ channel[i] = <<>>
    BY <2>1 DEF LogsInv, Flow
  <2>3. PICK p, q \in 0 .. MaxOutput : Handled(i, p, q)
    BY <2>1 DEF LogsInv, Flow
  <2>4. p = q /\ q = sent[i]
    BY <2>2, <2>3, ChainEmpty DEF Handled
  <2>5. IF truncated[i] THEN total[i] = MaxLogBytes /\ sent[i] > MaxLogBytes
                        ELSE total[i] = sent[i]
    BY <2>3, <2>4 DEF Handled
  <2>6. total[i] <= MaxLogBytes /\ total[i] \in Nat /\ sent[i] \in Nat /\ MaxLogBytes \in Nat
    BY LogsAssumption DEF LogsInv, TypeOK
  <2>7. CASE truncated[i]
    BY <2>1, <2>5, <2>6, <2>7 DEF Smaller
  <2>8. CASE ~truncated[i]
    BY <2>1, <2>5, <2>6, <2>8 DEF Smaller
  <2> QED
    BY <2>7, <2>8
<1> QED
  BY <1>1, LogsAlways, PTL

-----------------------------------------------------------------------------
(* Induction over the naturals, as a fact about sets of naturals, and the  *)
(* existence of a function that is defined by recursion.                   *)

LEMMA InductiveSet ==
  ASSUME NEW S \in SUBSET Nat, 0 \in S, \A n \in S : n + 1 \in S
  PROVE  S = Nat
<1> SUFFICES ASSUME NEW n \in Nat, n \notin S PROVE FALSE
  OBVIOUS
<1> DEFINE T == {k \in 0 .. n : k \in S}
           f == [k \in T |-> k + 1]
<1>1. IsFiniteSet(0 .. n)
  BY FS_Interval
<1>2. IsFiniteSet(T) /\ 0 \in T
  BY <1>1, FS_Subset
<1>3. IsFiniteSet(T \ {0}) /\ Cardinality(T \ {0}) = Cardinality(T) - 1 /\ Cardinality(T) \in Nat
  <2> HIDE DEF T
  <2> QED
    BY <1>2, FS_RemoveElement, FS_CardinalityType
<1>4. f \in [T -> T \ {0}]
  BY DEF T
<1>5. \A a, b \in T : f[a] = f[b] => a = b
  OBVIOUS
<1> HIDE DEF T, f
<1>6. f \in Injection(T, T \ {0})
  BY <1>4, <1>5, Fun_IsInj
<1>7. Cardinality(T) <= Cardinality(T \ {0})
  BY <1>3, <1>6, FS_Injection
<1> QED
  BY <1>3, <1>7

\* h is the recursive concatenation of the sequences X[1], X[2] ... as far as n.
UpTo(X, h, n) == h = [k \in 0 .. n |-> IF k = 0 THEN <<>> ELSE h[k - 1] \o X[k]]

LEMMA RecursionExists ==
  ASSUME NEW X
  PROVE  \E g : g = [n \in Nat |-> IF n = 0 THEN <<>> ELSE g[n - 1] \o X[n]]
<1>1. \A n \in Nat : \E h : UpTo(X, h, n)
  <2> DEFINE S == {n \in Nat : \E h : UpTo(X, h, n)}
  <2>1. 0 \in S
    <3>1. UpTo(X, [k \in 0 .. 0 |-> <<>>], 0)
      BY DEF UpTo
    <3> QED
      BY <3>1
  <2>2. ASSUME NEW n \in S PROVE n + 1 \in S
    <3>1. PICK h : UpTo(X, h, n)
      OBVIOUS
    <3> DEFINE e == [k \in 0 .. (n + 1) |-> IF k = n + 1 THEN h[n] \o X[n + 1] ELSE h[k]]
    <3>2. ASSUME NEW k \in 0 .. (n + 1) PROVE e[k] = IF k = 0 THEN <<>> ELSE e[k - 1] \o X[k]
      <4>1. CASE k = n + 1
        <5>1. n \in Nat /\ k # 0 /\ k - 1 = n /\ n \in 0 .. (n + 1) /\ n # n + 1
          BY <4>1
        <5>2. e[k] = h[n] \o X[n + 1] /\ e[n] = h[n]
          BY <4>1, <5>1
        <5> QED
          BY <4>1, <5>1, <5>2
      <4>2. CASE k # n + 1
        <5>1. k \in 0 .. n /\ e[k] = h[k] /\ (k # 0 => e[k - 1] = h[k - 1])
          BY <4>2
        <5> QED
          BY <3>1, <5>1 DEF UpTo
      <4> QED
        BY <4>1, <4>2
    <3>3. UpTo(X, e, n + 1)
      <4>1. e = [k \in 0 .. (n + 1) |-> e[k]]
        OBVIOUS
      <4> HIDE DEF e
      <4> QED
        BY <3>2, <4>1, Zenon DEF UpTo
    <3> QED
      BY <3>3
  <2>3. S \in SUBSET Nat
    OBVIOUS
  <2> HIDE DEF S
  <2>4. S = Nat
    BY <2>1, <2>2, <2>3, InductiveSet
  <2> QED
    BY <2>4 DEF S
<1>2. ASSUME NEW n \in Nat, NEW m \in Nat, NEW h, NEW e, UpTo(X, h, n), UpTo(X, e, m)
      PROVE  \A k \in Nat : k <= n /\ k <= m => h[k] = e[k]
  <2> DEFINE S == {k \in Nat : k <= n /\ k <= m => h[k] = e[k]}
  <2>1. 0 \in S
    BY <1>2 DEF UpTo
  <2>2. ASSUME NEW k \in S PROVE k + 1 \in S
    <3> SUFFICES ASSUME k + 1 <= n, k + 1 <= m PROVE h[k + 1] = e[k + 1]
      OBVIOUS
    <3>1. h[k] = e[k] /\ k + 1 \in 0 .. n /\ k + 1 \in 0 .. m /\ k + 1 # 0 /\ (k + 1) - 1 = k
      OBVIOUS
    <3>2. h[k + 1] = h[(k + 1) - 1] \o X[k + 1] /\ e[k + 1] = e[(k + 1) - 1] \o X[k + 1]
      BY <1>2, <3>1 DEF UpTo
    <3> QED
      BY <3>1, <3>2
  <2>3. S \in SUBSET Nat
    OBVIOUS
  <2> HIDE DEF S
  <2>4. S = Nat
    BY <2>1, <2>2, <2>3, InductiveSet
  <2> QED
    BY <2>4 DEF S
<1> DEFINE c(n) == CHOOSE h : UpTo(X, h, n)
           g == [n \in Nat |-> c(n)[n]]
<1>3. \A n \in Nat : UpTo(X, c(n), n)
  BY <1>1
<1> HIDE DEF c
<1>4. ASSUME NEW n \in Nat PROVE g[n] = IF n = 0 THEN <<>> ELSE g[n - 1] \o X[n]
  <2>1. UpTo(X, c(n), n) /\ n \in 0 .. n
    BY <1>3
  <2>2. c(n)[n] = IF n = 0 THEN <<>> ELSE c(n)[n - 1] \o X[n]
    BY <2>1 DEF UpTo
  <2>3. CASE n = 0
    BY <2>2, <2>3
  <2>4. CASE n # 0
    <3>1. n - 1 \in Nat /\ n - 1 <= n
      BY <2>4
    <3>2. c(n)[n - 1] = c(n - 1)[n - 1]
      BY <1>2, <1>3, <3>1
    <3> QED
      BY <2>2, <2>4, <3>1, <3>2
  <2> QED
    BY <2>3, <2>4
<1>5. g = [n \in Nat |-> g[n]]
  OBVIOUS
<1> HIDE DEF g
<1>6. g = [n \in Nat |-> IF n = 0 THEN <<>> ELSE g[n - 1] \o X[n]]
  BY <1>4, <1>5, Zenon
<1> QED
  BY <1>6

-----------------------------------------------------------------------------
(* Paging                                                                  *)

\* What the query returns of one stage, and RowsUpTo[n] of given rows.
Block(r, n) == [k \in DOMAIN r[n] |-> <<n, r[n][k].sequence>>]

LEMMA RowsUpToIs ==
  RowsUpTo = [n \in Nat |-> IF n = 0 THEN <<>> ELSE RowsUpTo[n - 1] \o Block(rows, n)]
<1> DEFINE X == [n \in Nat |-> Block(rows, n)]
           P(g) == g = [n \in Nat |-> IF n = 0 THEN <<>> ELSE g[n - 1] \o Block(rows, n)]
<1>1. PICK g : g = [n \in Nat |-> IF n = 0 THEN <<>> ELSE g[n - 1] \o X[n]]
  BY RecursionExists
<1>2. \A n \in Nat : X[n] = Block(rows, n)
  OBVIOUS
<1> HIDE DEF X
<1>3. P(g)
  BY <1>1, <1>2
<1>4. P(CHOOSE h : P(h))
  <2> HIDE DEF P
  <2> QED
    BY <1>3
<1>5. RowsUpTo = CHOOSE h : P(h)
  BY DEF RowsUpTo, Block
<1> QED
  BY <1>4, <1>5

LEMMA RowsUpToIsNext ==
  (RowsUpTo = [n \in Nat |-> IF n = 0 THEN <<>> ELSE RowsUpTo[n - 1] \o Block(rows, n)])'
BY RowsUpToIs, PTL

LEMMA RowsUpToStep ==
  /\ RowsUpTo[0] = <<>>
  /\ \A n \in Nat \ {0} : RowsUpTo[n] = RowsUpTo[n - 1] \o Block(rows, n)
<1> DEFINE R == RowsUpTo
<1>1. R = [n \in Nat |-> IF n = 0 THEN <<>> ELSE R[n - 1] \o Block(rows, n)]
  BY RowsUpToIs
<1> HIDE DEF R
<1>2. R[0] = <<>> /\ \A n \in Nat \ {0} : R[n] = R[n - 1] \o Block(rows, n)
  BY <1>1
<1> QED
  BY <1>2 DEF R

LEMMA RowsUpToStepNext ==
  (/\ RowsUpTo[0] = <<>>
   /\ \A n \in Nat \ {0} : RowsUpTo[n] = RowsUpTo[n - 1] \o Block(rows, n))'
BY RowsUpToStep, PTL

\* What a client sees of a row.
Shown == Stages \X Nat

LEMMA BlockIsSeq ==
  ASSUME LogsInv, NEW n \in Stages
  PROVE  Block(rows, n) \in Seq(Shown)
<1> DEFINE Row == [sequence : Nat, from : 1 .. MaxOutput, to : 1 .. MaxOutput]
<1>1. rows[n] \in Seq(Row)
  BY DEF LogsInv, TypeOK
<1>2. DOMAIN rows[n] = 1 .. Len(rows[n]) /\ Len(rows[n]) \in Nat
      /\ \A k \in 1 .. Len(rows[n]) : rows[n][k] \in Row
  BY <1>1, LenProperties, ElementOfSeq
<1>3. \A k \in 1 .. Len(rows[n]) : <<n, rows[n][k].sequence>> \in Shown
  BY <1>2 DEF Shown
<1>4. Block(rows, n) \in [1 .. Len(rows[n]) -> Shown]
  BY <1>2, <1>3 DEF Block
<1> QED
  BY <1>2, <1>4, IsASeq

LEMMA RowsUpToIsSeq ==
  ASSUME LogsInv
  PROVE  \A n \in 0 .. NumStages : RowsUpTo[n] \in Seq(Shown)
<1> DEFINE R == RowsUpTo
           S == {n \in Nat : n <= NumStages => R[n] \in Seq(Shown)}
<1>0. NumStages \in Nat
  BY LogsAssumption
<1>1. R[0] = <<>> /\ \A n \in Nat \ {0} : R[n] = R[n - 1] \o Block(rows, n)
  BY RowsUpToStep
<1> HIDE DEF R
<1>2. 0 \in S
  BY <1>1, EmptySeq
<1>3. ASSUME NEW n \in S PROVE n + 1 \in S
  <2> SUFFICES ASSUME n + 1 <= NumStages PROVE R[n + 1] \in Seq(Shown)
    OBVIOUS
  <2>1. n + 1 \in Stages /\ R[n] \in Seq(Shown) /\ n + 1 \in Nat \ {0} /\ (n + 1) - 1 = n
    BY <1>0 DEF Stages
  <2>2. R[n + 1] = R[n] \o Block(rows, n + 1)
    BY <1>1, <2>1
  <2>3. Block(rows, n + 1) \in Seq(Shown)
    BY <2>1, BlockIsSeq
  <2> QED
    BY <2>1, <2>2, <2>3, ConcatProperties
<1>4. S \in SUBSET Nat
  OBVIOUS
<1> HIDE DEF S
<1>5. S = Nat
  BY <1>2, <1>3, <1>4, InductiveSet
<1> QED
  BY <1>0, <1>5 DEF S, R

\* A row that is appended in the last stage with rows is the last of all.
LEMMA RowsGrow ==
  ASSUME LogsInv, LogsInv', NEW i \in Stages, NEW x,
         rows' = [rows EXCEPT ![i] = Append(@, x)],
         \A j \in Stages : j > i => rows[j] = <<>>
  PROVE  AllRows' = Append(AllRows, <<i, x.sequence>>)
<1> DEFINE R == RowsUpTo
           Q == RowsUpTo'
           y == <<i, x.sequence>>
<1>0. NumStages \in Nat /\ i \in 1 .. NumStages
  BY LogsAssumption DEF Stages
<1>1. R[0] = <<>> /\ \A n \in Nat \ {0} : R[n] = R[n - 1] \o Block(rows, n)
  BY RowsUpToStep
<1>2. Q[0] = <<>> /\ \A n \in Nat \ {0} : Q[n] = Q[n - 1] \o Block(rows', n)
  BY RowsUpToStepNext
<1>3. \A n \in 0 .. NumStages : R[n] \in Seq(Shown)
  BY RowsUpToIsSeq
<1> DEFINE Row == [sequence : Nat, from : 1 .. MaxOutput, to : 1 .. MaxOutput]
<1>4. /\ \A n \in Stages : rows[n] \in Seq(Row) /\ rows'[n] \in Seq(Row)
      /\ rows'[i] = Append(rows[i], x)
      /\ \A n \in Stages \ {i} : rows'[n] = rows[n]
  BY DEF LogsInv, TypeOK
<1>5. x \in Row /\ y \in Shown
  <2>1. rows'[i] \in Seq(Row) /\ rows[i] \in Seq(Row)
    BY <1>4
  <2> DEFINE z == Append(rows[i], x)
  <2>2. z \in Seq(Row)
    BY <1>4, <2>1
  <2>3. Len(rows[i]) \in Nat /\ Len(z) = Len(rows[i]) + 1 /\ z[Len(rows[i]) + 1] = x
    <3> HIDE DEF Row
    <3> QED
      BY <2>1
  <2>4. x \in Row
    <3> HIDE DEF z, Row
    <3>1. Len(rows[i]) + 1 \in 1 .. Len(z)
      BY <2>3
    <3>2. z[Len(rows[i]) + 1] \in Row
      BY <2>2, <3>1, ElementOfSeq
    <3> QED
      BY <2>3, <3>2
  <2>5. x.sequence \in Nat
    BY <2>4
  <2> QED
    BY <2>4, <2>5 DEF Shown
<1>6. Block(rows', i) = Append(Block(rows, i), y)
  <2> DEFINE n == Len(rows[i])
             b == Block(rows, i)
             c == Block(rows', i)
  <2>1. n \in Nat /\ DOMAIN rows[i] = 1 .. n
        /\ DOMAIN rows'[i] = 1 .. (n + 1) /\ rows'[i][n + 1] = x
        /\ \A k \in 1 .. n : rows'[i][k] = rows[i][k]
    <3>1. rows[i] \in Seq(Row) /\ rows'[i] \in Seq(Row) /\ rows'[i] = Append(rows[i], x)
      BY <1>4
    <3> HIDE DEF Row
    <3> QED
      BY <1>5, <3>1, AppendProperties, LenProperties
  <2>2. b = [k \in 1 .. n |-> <<i, rows[i][k].sequence>>]
    BY <2>1 DEF Block
  <2>3. c = [k \in 1 .. (n + 1) |-> <<i, rows'[i][k].sequence>>]
    BY <2>1 DEF Block
  <2>4. b \in Seq(Shown)
    BY BlockIsSeq
  <2> HIDE DEF b, c, n
  <2>5. Len(b) = n
    <3>1. DOMAIN b = 1 .. n
      BY <2>2
    <3> QED
      BY <2>1, <2>4, <3>1, LenProperties
  <2>6. Append(b, y) = [k \in 1 .. (n + 1) |-> IF k = n + 1 THEN y ELSE b[k]]
    BY <2>4, <2>5, AppendProperties
  <2>7. ASSUME NEW k \in 1 .. (n + 1)
        PROVE  <<i, rows'[i][k].sequence>> = IF k = n + 1 THEN y ELSE b[k]
    <3>1. CASE k = n + 1
      BY <2>1, <3>1
    <3>2. CASE k # n + 1
      <4>1. k \in 1 .. n
        BY <2>1, <3>2
      <4> QED
        BY <2>1, <2>2, <3>2, <4>1
    <3> QED
      BY <3>1, <3>2
  <2>8. c = Append(b, y)
    BY <2>3, <2>6, <2>7
  <2> QED
    BY <2>8 DEF b, c
<1> HIDE DEF R, Q, y, Row
<1>7. \A n \in Nat : n < i => Q[n] = R[n]
  <2> DEFINE S == {n \in Nat : n < i => Q[n] = R[n]}
  <2>1. 0 \in S
    BY <1>1, <1>2
  <2>2. ASSUME NEW n \in S PROVE n + 1 \in S
    <3> SUFFICES ASSUME n + 1 < i PROVE Q[n + 1] = R[n + 1]
      OBVIOUS
    <3>1. n + 1 \in Stages \ {i} /\ Q[n] = R[n] /\ n + 1 \in Nat \ {0} /\ (n + 1) - 1 = n
      BY <1>0 DEF Stages
    <3>2. Block(rows', n + 1) = Block(rows, n + 1)
      BY <1>4, <3>1 DEF Block
    <3> QED
      BY <1>1, <1>2, <3>1, <3>2
  <2>3. S \in SUBSET Nat
    OBVIOUS
  <2> HIDE DEF S
  <2>4. S = Nat
    BY <2>1, <2>2, <2>3, InductiveSet
  <2> QED
    BY <2>4 DEF S
<1>8. Q[i] = Append(R[i], y)
  <2>1. i \in Nat \ {0} /\ i - 1 \in Nat /\ i - 1 < i /\ i - 1 \in 0 .. NumStages
    BY <1>0
  <2>2. Q[i] = Q[i - 1] \o Block(rows', i) /\ R[i] = R[i - 1] \o Block(rows, i)
        /\ Q[i - 1] = R[i - 1]
    BY <1>1, <1>2, <1>7, <2>1
  <2> DEFINE a == R[i - 1]
             b == Block(rows, i)
  <2>3. a \in Seq(Shown) /\ b \in Seq(Shown)
    BY <1>3, <2>1, BlockIsSeq
  <2> HIDE DEF a, b
  <2>4. a \o Append(b, y) = Append(a \o b, y)
    BY <1>5, <2>3
  <2> QED
    BY <1>6, <2>2, <2>4 DEF a, b
<1>9. \A n \in Nat : n >= i /\ n <= NumStages => Q[n] = Append(R[n], y)
  <2> DEFINE S == {n \in Nat : n >= i /\ n <= NumStages => Q[n] = Append(R[n], y)}
  <2>1. 0 \in S
    BY <1>0
  <2>2. ASSUME NEW n \in S PROVE n + 1 \in S
    <3> SUFFICES ASSUME n + 1 >= i, n + 1 <= NumStages PROVE Q[n + 1] = Append(R[n + 1], y)
      OBVIOUS
    <3>1. CASE n + 1 = i
      BY <1>8, <3>1
    <3>2. CASE n + 1 # i
      <4>1. n + 1 \in Stages \ {i} /\ n + 1 > i /\ n >= i /\ n <= NumStages /\ n \in 0 .. NumStages
            /\ n + 1 \in Nat \ {0} /\ (n + 1) - 1 = n
        BY <1>0, <3>2 DEF Stages
      <4>2. Q[n] = Append(R[n], y)
        BY <4>1
      <4>3. rows[n + 1] = <<>> /\ rows'[n + 1] = <<>>
        BY <1>4, <4>1
      <4>4. Block(rows, n + 1) = <<>> /\ Block(rows', n + 1) = <<>>
        BY <4>3 DEF Block
      <4>5. Q[n + 1] = Q[n] \o <<>> /\ R[n + 1] = R[n] \o <<>>
        BY <1>1, <1>2, <4>1, <4>4
      <4>6. R[n] \in Seq(Shown) /\ Append(R[n], y) \in Seq(Shown)
        BY <1>3, <1>5, <4>1, AppendProperties
      <4> QED
        BY <4>2, <4>5, <4>6, ConcatEmptySeq
    <3> QED
      BY <3>1, <3>2
  <2>3. S \in SUBSET Nat
    OBVIOUS
  <2> HIDE DEF S
  <2>4. S = Nat
    BY <2>1, <2>2, <2>3, InductiveSet
  <2> QED
    BY <2>4 DEF S
<1>10. Q[NumStages] = Append(R[NumStages], y)
  BY <1>0, <1>9
<1> QED
  BY <1>10 DEF Q, R, y, AllRows

\* A step that leaves the rows alone leaves what the query returns alone.
LEMMA RowsStay ==
  ASSUME UNCHANGED rows
  PROVE  AllRows' = AllRows
<1> DEFINE R == RowsUpTo
           Q == RowsUpTo'
           S == {n \in Nat : Q[n] = R[n]}
<1>0. NumStages \in Nat
  BY LogsAssumption
<1>1. R[0] = <<>> /\ \A n \in Nat \ {0} : R[n] = R[n - 1] \o Block(rows, n)
  BY RowsUpToStep
<1>2. Q[0] = <<>> /\ \A n \in Nat \ {0} : Q[n] = Q[n - 1] \o Block(rows', n)
  BY RowsUpToStepNext
<1> HIDE DEF R, Q
<1>3. 0 \in S
  BY <1>1, <1>2
<1>4. ASSUME NEW n \in S PROVE n + 1 \in S
  <2>1. n + 1 \in Nat \ {0} /\ (n + 1) - 1 = n /\ Q[n] = R[n]
    OBVIOUS
  <2>2. Q[n + 1] = R[n + 1]
    BY <1>1, <1>2, <2>1
  <2> QED
    BY <2>1, <2>2
<1>5. S \in SUBSET Nat
  OBVIOUS
<1> HIDE DEF S
<1>6. S = Nat
  BY <1>3, <1>4, <1>5, InductiveSet
<1> QED
  BY <1>0, <1>6 DEF S, R, Q, AllRows

\* What the client has read is what the query returns now, as far as it read.
PageInv ==
  /\ page \in Seq(Shown) /\ Len(page) <= Len(AllRows)
  /\ \A k \in 1 .. Len(page) : page[k] = AllRows[k]

LEMMA AllRowsIsSeq ==
  ASSUME LogsInv
  PROVE  AllRows \in Seq(Shown)
BY RowsUpToIsSeq, LogsAssumption DEF AllRows

LEMMA AllRowsIsSeqNext ==
  (LogsInv => AllRows \in Seq(Shown))'
BY AllRowsIsSeq, PTL

LEMMA PageInitially ==
  Init => PageInv
<1> SUFFICES ASSUME Init PROVE PageInv
  OBVIOUS
<1>1. AllRows \in Seq(Shown)
  BY LogsInitially, AllRowsIsSeq
<1>2. page = <<>> /\ Len(<<>>) = 0 /\ <<>> \in Seq(Shown) /\ 1 .. 0 = {}
  BY EmptySeq DEF Init
<1>3. Len(AllRows) \in Nat
  BY <1>1, LenProperties
<1> QED
  BY <1>2, <1>3 DEF PageInv

LEMMA PageStays ==
  ASSUME PageInv, UNCHANGED <<rows, page>>
  PROVE  PageInv'
<1>1. AllRows' = AllRows
  BY RowsStay
<1> QED
  BY <1>1 DEF PageInv

LEMMA PageInsert ==
  ASSUME LogsInv, LogsInv', PageInv, NEW i \in Stages, InsertChunk(i)
  PROVE  PageInv'
<1>1. PICK x : x = NewRow(i)
  OBVIOUS
<1>2. writer[i] = "receiving" /\ page' = page /\ rows' = [rows EXCEPT ![i] = Append(@, x)]
  BY <1>1 DEF InsertChunk, ClientIdle, NewRow
<1>3. i = stage /\ \A j \in Stages : j > i => rows[j] = <<>>
  <2>1. stage \in Nat /\ i \in Nat
    BY LogsAssumption DEF LogsInv, TypeOK, Stages
  <2>2. ~(i < stage) /\ ~(i > stage)
    BY <1>2 DEF LogsInv, Order
  <2>3. i = stage
    BY <2>1, <2>2
  <2> QED
    BY <2>3 DEF LogsInv, Order
<1> DEFINE A == AllRows
           y == <<i, x.sequence>>
<1>4. AllRows' = Append(A, y)
  BY <1>2, <1>3, RowsGrow
<1>5. A \in Seq(Shown) /\ AllRows' \in Seq(Shown)
  BY AllRowsIsSeq, AllRowsIsSeqNext
<1> HIDE DEF A, y
<1>6. Len(A) \in Nat /\ Len(Append(A, y)) = Len(A) + 1
      /\ \A k \in 1 .. Len(A) : Append(A, y)[k] = A[k]
  BY <1>5
<1>7. page \in Seq(Shown) /\ Len(page) <= Len(A) /\ Len(page) \in Nat
      /\ \A k \in 1 .. Len(page) : page[k] = A[k]
  BY LenProperties DEF PageInv, A
<1> QED
  BY <1>2, <1>4, <1>6, <1>7 DEF PageInv

LEMMA PageRead ==
  ASSUME LogsInv, PageInv, NEW limit \in PageLimits, ReadPage(limit)
  PROVE  PageInv'
<1> DEFINE A == AllRows
           n == Len(page)
           m == Smaller(n + limit, Len(A))
           s == SubSeq(A, n + 1, m)
<1>1. UNCHANGED rows /\ page' = page \o s
  BY DEF ReadPage, logVars
<1>2. AllRows' = A
  BY <1>1, RowsStay
<1>3. A \in Seq(Shown) /\ Len(A) \in Nat /\ \A k \in 1 .. Len(A) : A[k] \in Shown
  BY AllRowsIsSeq, LenProperties, ElementOfSeq
<1>4. page \in Seq(Shown) /\ n = Len(page) /\ n \in Nat /\ n <= Len(A) /\ limit \in Nat \ {0}
      /\ \A k \in 1 .. n : page[k] = A[k]
  BY LenProperties, LogsAssumption DEF PageInv
<1> HIDE DEF A, n
<1>5. m \in Nat /\ n <= m /\ m <= Len(A)
  BY <1>3, <1>4 DEF Smaller
<1> HIDE DEF m
<1>6. s \in Seq(Shown) /\ Len(s) = m - n /\ \A k \in 1 .. (m - n) : s[k] = A[n + k]
  <2>1. \A k \in (n + 1) .. m : A[k] \in Shown
    BY <1>3, <1>4, <1>5
  <2>2. /\ SubSeq(A, n + 1, m) \in Seq(Shown)
        /\ Len(SubSeq(A, n + 1, m)) = IF n + 1 <= m THEN m - (n + 1) + 1 ELSE 0
        /\ \A k \in 1 .. (m - (n + 1) + 1) : SubSeq(A, n + 1, m)[k] = A[(n + 1) + k - 1]
    BY <1>4, <1>5, <2>1, SubSeqProperties
  <2> HIDE DEF s
  <2>3. m - (n + 1) + 1 = m - n /\ (n + 1 <= m \/ m - n = 0)
    BY <1>4, <1>5
  <2>4. ASSUME NEW k \in 1 .. (m - n) PROVE SubSeq(A, n + 1, m)[k] = A[n + k]
    <3>1. (n + 1) + k - 1 = n + k
      BY <1>4, <1>5
    <3> QED
      BY <2>2, <2>3, <3>1
  <2> QED
    BY <1>4, <1>5, <2>2, <2>3, <2>4 DEF s
<1> HIDE DEF s
<1>7. /\ page \o s \in Seq(Shown) /\ Len(page \o s) = n + (m - n)
      /\ \A k \in 1 .. n + (m - n) : (page \o s)[k] = IF k <= n THEN page[k] ELSE s[k - n]
  <2> DEFINE t == page
  <2>1. t \in Seq(Shown) /\ Len(t) = n
    BY <1>4
  <2> HIDE DEF t
  <2>2. /\ t \o s \in Seq(Shown) /\ Len(t \o s) = Len(t) + Len(s)
        /\ \A k \in 1 .. Len(t) + Len(s) : (t \o s)[k] = IF k <= Len(t) THEN t[k] ELSE s[k - Len(t)]
    BY <1>6, <2>1, ConcatProperties
  <2> QED
    BY <1>6, <2>1, <2>2 DEF t
<1>8. ASSUME NEW k \in 1 .. m PROVE (page \o s)[k] = A[k]
  <2>1. n + (m - n) = m
    BY <1>4, <1>5
  <2>2. CASE k <= n
    <3>1. k \in 1 .. n /\ k \in 1 .. n + (m - n)
      BY <1>4, <1>5, <2>1, <2>2
    <3> QED
      BY <1>4, <1>7, <2>2, <3>1
  <2>3. CASE k > n
    <3>1. k - n \in 1 .. (m - n) /\ n + (k - n) = k /\ ~(k <= n)
      BY <1>4, <1>5, <2>3
    <3> QED
      BY <1>6, <1>7, <2>1, <3>1
  <2>4. k <= n \/ k > n
    BY <1>4, <1>5
  <2> QED
    BY <2>2, <2>3, <2>4, Zenon
<1>9. Len(page \o s) = m
  BY <1>4, <1>5, <1>7
<1> QED
  BY <1>1, <1>2, <1>5, <1>7, <1>8, <1>9 DEF PageInv

LEMMA PageStep ==
  LogsInv /\ LogsInv' /\ PageInv /\ [Next]_vars => PageInv'
<1> SUFFICES ASSUME LogsInv, LogsInv', PageInv, [Next]_vars PROVE PageInv'
  OBVIOUS
<1>1. CASE \E i \in Stages : InsertChunk(i)
  BY <1>1, PageInsert
<1>2. CASE \E limit \in PageLimits : ReadPage(limit)
  BY <1>2, PageRead
<1>3. CASE UNCHANGED <<rows, page>>
  BY <1>3, PageStays
<1>4. CASE Engine
  BY <1>4, <1>3 DEF Engine, StartStage, EndCommand, EndCommandTo, AwaitWriter, RecordTruncated,
     RecordFails, ClientIdle, logVars
<1>5. CASE \E n \in EventSizes : Send(n)
  BY <1>5, <1>3 DEF Send, ClientIdle
<1>6. CASE \E i \in Stages : Receive(i) \/ DropChunk(i) \/ InsertFails(i) \/ ReturnTruncated(i)
  BY <1>6, <1>3 DEF Receive, DropChunk, InsertFails, ReturnTruncated, ClientIdle
<1>7. CASE UNCHANGED vars
  BY <1>7, <1>3 DEF vars, logVars
<1> QED
  BY <1>1, <1>2, <1>4, <1>5, <1>6, <1>7 DEF Next, Terminated, Write

\* A client that pages with OFFSET while the stages run has read every row
\* once and in order: a row is always appended after all that are there,
\* because the writers of the stages work one after the other.
THEOREM PagesAreExact == Spec => []PagesExact
<1>1. LogsInv /\ PageInv => PagesExact
  <2> SUFFICES ASSUME LogsInv, PageInv PROVE PagesExact
    OBVIOUS
  <2> DEFINE A == AllRows
             n == Len(page)
  <2>1. A \in Seq(Shown) /\ Len(A) \in Nat /\ \A k \in 1 .. Len(A) : A[k] \in Shown
    BY AllRowsIsSeq, LenProperties, ElementOfSeq
  <2>2. page \in Seq(Shown) /\ n \in Nat /\ n <= Len(A) /\ \A k \in 1 .. n : page[k] = A[k]
    BY LenProperties DEF PageInv
  <2> HIDE DEF A
  <2>3. /\ SubSeq(A, 1, n) \in Seq(Shown)
        /\ Len(SubSeq(A, 1, n)) = IF 1 <= n THEN n - 1 + 1 ELSE 0
        /\ \A k \in 1 .. (n - 1 + 1) : SubSeq(A, 1, n)[k] = A[1 + k - 1]
    <3>1. \A k \in 1 .. n : A[k] \in Shown
      BY <2>1, <2>2
    <3> HIDE DEF n
    <3> QED
      BY <2>2, <3>1, SubSeqProperties
  <2>4. Len(SubSeq(A, 1, n)) = n
    BY <2>2, <2>3
  <2>5. ASSUME NEW k \in 1 .. n PROVE page[k] = SubSeq(A, 1, n)[k]
    <3>1. 1 + k - 1 = k /\ n - 1 + 1 = n
      BY <2>2
    <3> QED
      BY <2>2, <2>3, <3>1
  <2>6. page = SubSeq(A, 1, n)
    BY <2>2, <2>3, <2>4, <2>5, SeqEqual
  <2> QED
    BY <2>2, <2>6 DEF PagesExact, A
<1> QED
  BY <1>1, LogsAlways, PageInitially, PageStep, PTL DEF Spec
=============================================================================

-------------------------- MODULE PipelineRunsProofs --------------------------
(***************************************************************************)
(* The type invariant and the safety properties of PipelineRuns, for every *)
(* set of projects, requests and calls.                                    *)
(*                                                                         *)
(* The published rows change in few ways: a commit inserts a run, cancels  *)
(* one or replaces a configuration; a project is deleted; the engine       *)
(* updates a run that has not ended.  The invariant therefore has two      *)
(* halves: DraftOK says what the open transaction has changed so far,      *)
(* against rows that nobody else can change before its COMMIT, and         *)
(* SourceOK that what retry read before its transaction is still true as   *)
(* long as its project exists.  From them every step is one of those       *)
(* changes (DbStep), and each property is preserved by each change.        *)
(***************************************************************************)
EXTENDS PipelineRuns, SequenceTheorems, FiniteSetTheorems, TLAPS

Labels == {"idle", "answer", "done"} \cup BeforeTransaction \cup InTransaction

RunTables == UNION {[D -> RunRows] : D \in SUBSET Requests}

Rows ==
  [live : SUBSET Projects, config : [Projects -> Seq(StageInputs)],
   counter : [Projects -> Nat], runs : RunTables]

Types ==
  /\ db \in Rows /\ draft \in Rows
  /\ writer \in Requests \cup {None}
  /\ pc \in [Requests -> Labels]
  /\ call \in [Requests -> Calls \cup {None}]
  /\ source \in [Requests -> RunRows \cup {None}]
  /\ pages \in [Requests -> [offset : Nat, given : SUBSET Requests, due : SUBSET Requests]]
  /\ answer \in [Requests -> Answers \cup {None}]

\* The calls that reach a label.
OpsAt(l) ==
  IF l \in {"check"} THEN {"create", "retry", "list", "put"}
  ELSE IF l \in {"allocate", "insert", "stages"} THEN {"create", "retry"}
  ELSE IF l \in {"replace", "insert_config"} THEN {"put"}
  ELSE IF l \in {"cancel", "refused", "cancel_stages"} THEN {"cancel"}
  ELSE IF l \in {"list", "delete"} THEN {l}
  ELSE IF l \in {"commit", "answer"} THEN {"create", "retry", "cancel", "put"}
  ELSE {"create", "retry", "list", "put", "cancel", "delete"}

ControlOK(q) ==
  /\ pc[q] # "idle" => call[q] \in CallsOf[q] /\ call[q].op \in OpsAt(pc[q])
  /\ pc[q] = "idle" => call[q] = None
  /\ pc[q] \in {"allocate", "insert", "stages", "commit"} /\ call[q].op = "retry"
     => source[q] \in RunRows
  /\ answer[q] = "ok" => pc[q] = "done"
  /\ writer = q <=> pc[q] \in InTransaction
  /\ q \in RunIds => pc[q] \in {"answer", "done"}

Control ==
  /\ writer = None => draft = db
  /\ \A q \in Requests : ControlOK(q)

\* The row a create or retry inserts.
InsertedRow(q, stages) ==
  [project |-> ProjectOf(q), number |-> db.counter[ProjectOf(q)] + 1, status |-> "pending",
   retryOf |-> IF call[q].op = "retry" THEN call[q].run ELSE None,
   commit  |-> IF call[q].op = "retry" THEN source[q].commit ELSE None,
   synced  |-> FALSE, stages |-> stages]

Inserted(q, stages) ==
  [x \in RunIds \cup {q} |-> IF x = q THEN InsertedRow(q, stages) ELSE db.runs[x]]

StagesFor(q) ==
  IF call[q].op = "create" THEN db.config[ProjectOf(q)] ELSE db.runs[call[q].run].stages

Numbered(q) ==
  /\ ProjectOf(q) \in db.live
  /\ draft.live = db.live /\ draft.config = db.config
  /\ draft.counter = [db.counter EXCEPT ![ProjectOf(q)] = @ + 1]

Reconfigured(q, stages) ==
  /\ call[q].project \in db.live
  /\ draft.live = db.live /\ draft.counter = db.counter /\ draft.runs = db.runs
  /\ draft.config = [db.config EXCEPT ![call[q].project] = stages]

Cancelled(q, stages) ==
  /\ call[q].run \in RunIds /\ db.runs[call[q].run].status = "pending"
  /\ draft.live = db.live /\ draft.counter = db.counter /\ draft.config = db.config
  /\ draft.runs = [db.runs EXCEPT ![call[q].run] =
                     [@ EXCEPT !.status = "cancelled", !.stages = stages]]

\* What the transaction of a request has changed when it reaches a label.
DraftOK(q) ==
  /\ pc[q] = "insert" => Numbered(q) /\ draft.runs = db.runs
  /\ pc[q] = "stages" => Numbered(q) /\ draft.runs = Inserted(q, <<>>)
  /\ pc[q] = "commit" /\ call[q].op \in {"create", "retry"} =>
       Numbered(q) /\ draft.runs = Inserted(q, Fresh(StagesFor(q)))
  /\ pc[q] = "cancel_stages" => Cancelled(q, db.runs[call[q].run].stages)
  /\ pc[q] = "commit" /\ call[q].op = "cancel" =>
       Cancelled(q, Mark(db.runs[call[q].run].stages, "pending", "cancelled"))
  /\ pc[q] = "insert_config" => Reconfigured(q, <<>>) /\ call[q].stages # <<>>
  /\ pc[q] = "replace" => call[q].stages # <<>>
  /\ pc[q] = "commit" /\ call[q].op = "put" =>
       Reconfigured(q, call[q].stages) /\ call[q].stages # <<>>

\* While the project of a retry exists, its source is as it was read.
SourceOK(q) ==
  /\ pc[q] \in {"allocate", "insert", "stages", "commit"}
  /\ call[q].op = "retry"
  /\ source[q].project \in db.live
  => /\ call[q].run \in RunIds
     /\ db.runs[call[q].run].project = source[q].project
     /\ db.runs[call[q].run].status \in Stopped
     /\ db.runs[call[q].run].commit = source[q].commit

CoreInv ==
  Types /\ Control /\ \A q \in Requests : DraftOK(q) /\ SourceOK(q)
-----------------------------------------------------------------------------
(* The operators the rows are changed with                                 *)

LEMMA CallForms ==
  ASSUME NEW q \in Requests, NEW c \in CallsOf[q]
  PROVE  /\ c \in Calls
         /\ c.op \in {"create", "delete", "list", "retry", "cancel", "put"}
         /\ c.op \in {"create", "delete", "list", "put"} => c.project \in Projects
         /\ c.op \in {"retry", "cancel"} => c.run \in Requests
         /\ c.op = "put" => c.stages \in Seq(StageInputs)
<1>1. c \in Calls
  BY RunsAssumption
<1> QED
  BY <1>1 DEF Calls

LEMMA TableForm ==
  ASSUME NEW t
  PROVE  t \in RunTables <=> DOMAIN t \subseteq Requests /\ t \in [DOMAIN t -> RunRows]
BY DEF RunTables

\* A sequence of the same length.
LEMMA SameLength ==
  ASSUME NEW S, NEW T, NEW s \in Seq(S), NEW t, DOMAIN t = DOMAIN s,
         t \in [DOMAIN t -> T]
  PROVE  t \in Seq(T) /\ Len(t) = Len(s)
<1>1. Len(s) \in Nat /\ DOMAIN s = 1 .. Len(s)
  OBVIOUS
<1>2. t \in [1 .. Len(s) -> T]
  BY <1>1
<1> QED
  BY <1>1, <1>2, IsASeq

\* Fresh, Mark and Worked change nothing but statuses.
LEMMA FreshStages ==
  ASSUME NEW stages, stages \in Seq(StageInputs) \/ stages \in Seq(StageRows)
  PROVE  /\ Fresh(stages) \in Seq(StageRows)
         /\ Content(Fresh(stages)) = Content(stages)
<1>1. \A i \in DOMAIN stages : stages[i].name \in STRING /\ stages[i].enabled \in BOOLEAN
  <2>1. \A i \in DOMAIN stages : stages[i] \in StageInputs \/ stages[i] \in StageRows
    OBVIOUS
  <2> QED
    BY <2>1 DEF StageInputs, StageRows
<1>2. /\ DOMAIN Fresh(stages) = DOMAIN stages
      /\ Fresh(stages) \in [DOMAIN Fresh(stages) -> StageRows]
  BY <1>1 DEF Fresh, StageRows
<1>3. Fresh(stages) \in Seq(StageRows)
  BY <1>2, SameLength
<1>4. Content(Fresh(stages)) = Content(stages)
  BY <1>2 DEF Content, Fresh
<1> QED
  BY <1>3, <1>4

LEMMA ContentOfInputs ==
  ASSUME NEW stages \in Seq(StageInputs)
  PROVE  Content(stages) = stages
<1>1. \A i \in DOMAIN stages :
        stages[i] = [name |-> stages[i].name, enabled |-> stages[i].enabled]
  <2>1. \A i \in DOMAIN stages : stages[i] \in StageInputs
    OBVIOUS
  <2> QED
    BY <2>1 DEF StageInputs
<1> QED
  BY <1>1 DEF Content

LEMMA MarkStages ==
  ASSUME NEW stages \in Seq(StageRows)
  PROVE  /\ Mark(stages, "pending", "cancelled") \in Seq(StageRows)
         /\ Content(Mark(stages, "pending", "cancelled")) = Content(stages)
         /\ \A i \in DOMAIN Mark(stages, "pending", "cancelled") :
              Mark(stages, "pending", "cancelled")[i].status # "pending"
<1> DEFINE m == Mark(stages, "pending", "cancelled")
<1>1. \A i \in DOMAIN stages : stages[i] \in StageRows
  OBVIOUS
<1>2. /\ DOMAIN m = DOMAIN stages
      /\ \A i \in DOMAIN stages :
           /\ m[i] \in StageRows
           /\ m[i].name = stages[i].name /\ m[i].enabled = stages[i].enabled
           /\ m[i].status # "pending"
  BY <1>1 DEF Mark, StageRows
<1>3. m \in [DOMAIN m -> StageRows]
  BY <1>2 DEF Mark
<1> QED
  BY <1>2, <1>3, SameLength DEF Content

LEMMA WorkedStages ==
  ASSUME NEW stages \in Seq(StageRows), NEW done, NEW stoppedAt, NEW status \in Final
  PROVE  /\ Worked(stages, done, stoppedAt, status) \in Seq(StageRows)
         /\ Content(Worked(stages, done, stoppedAt, status)) = Content(stages)
<1> DEFINE w == Worked(stages, done, stoppedAt, status)
<1>1. \A i \in DOMAIN stages : stages[i] \in StageRows
  OBVIOUS
<1>2. /\ DOMAIN w = DOMAIN stages
      /\ \A i \in DOMAIN stages :
           /\ w[i] \in StageRows
           /\ w[i].name = stages[i].name /\ w[i].enabled = stages[i].enabled
  BY <1>1 DEF Worked, StageRows, Final, Stopped
<1>3. w \in [DOMAIN w -> StageRows]
  BY <1>2 DEF Worked
<1> QED
  BY <1>2, <1>3, SameLength DEF Content

-----------------------------------------------------------------------------
(* Changes of the rows                                                     *)

LEMMA IncrementRows ==
  ASSUME NEW rows \in Rows, NEW p \in Projects
  PROVE  /\ Increment(rows, p) \in Rows
         /\ Increment(rows, p).live = rows.live
         /\ Increment(rows, p).config = rows.config
         /\ Increment(rows, p).runs = rows.runs
         /\ Increment(rows, p).counter = [rows.counter EXCEPT ![p] = @ + 1]
<1>1. [rows.counter EXCEPT ![p] = @ + 1] \in [Projects -> Nat]
  BY DEF Rows
<1> QED
  BY <1>1 DEF Increment, Rows

LEMMA WithRunRows ==
  ASSUME NEW rows \in Rows, NEW r \in Requests, NEW row \in RunRows
  PROVE  /\ WithRun(rows, r, row) \in Rows
         /\ WithRun(rows, r, row).live = rows.live
         /\ WithRun(rows, r, row).config = rows.config
         /\ WithRun(rows, r, row).counter = rows.counter
         /\ WithRun(rows, r, row).runs =
              [x \in DOMAIN rows.runs \cup {r} |-> IF x = r THEN row ELSE rows.runs[x]]
<1> DEFINE t == [x \in DOMAIN rows.runs \cup {r} |-> IF x = r THEN row ELSE rows.runs[x]]
<1>1. DOMAIN rows.runs \subseteq Requests /\ rows.runs \in [DOMAIN rows.runs -> RunRows]
  BY TableForm DEF Rows
<1>2. t \in RunTables
  <2>1. DOMAIN t \subseteq Requests /\ t \in [DOMAIN t -> RunRows]
    BY <1>1
  <2> QED
    BY <2>1, TableForm
<1> QED
  BY <1>2 DEF WithRun, Rows

\* One run is updated.
LEMMA UpdatedRows ==
  ASSUME NEW rows \in Rows, NEW r \in DOMAIN rows.runs, NEW row \in RunRows
  PROVE  /\ [rows EXCEPT !.runs[r] = row] \in Rows
         /\ [rows EXCEPT !.runs[r] = row].live = rows.live
         /\ [rows EXCEPT !.runs[r] = row].config = rows.config
         /\ [rows EXCEPT !.runs[r] = row].counter = rows.counter
         /\ [rows EXCEPT !.runs[r] = row].runs = [rows.runs EXCEPT ![r] = row]
<1>1. DOMAIN rows.runs \subseteq Requests /\ rows.runs \in [DOMAIN rows.runs -> RunRows]
  BY TableForm DEF Rows
<1>2. [rows.runs EXCEPT ![r] = row] \in RunTables
  <2> DEFINE t == [rows.runs EXCEPT ![r] = row]
  <2>1. DOMAIN t \subseteq Requests /\ t \in [DOMAIN t -> RunRows]
    BY <1>1
  <2> QED
    BY <2>1, TableForm
<1> QED
  BY <1>2 DEF Rows

LEMMA ConfiguredRows ==
  ASSUME NEW rows \in Rows, NEW p \in Projects, NEW stages \in Seq(StageInputs)
  PROVE  /\ [rows EXCEPT !.config[p] = stages] \in Rows
         /\ [rows EXCEPT !.config[p] = stages].live = rows.live
         /\ [rows EXCEPT !.config[p] = stages].counter = rows.counter
         /\ [rows EXCEPT !.config[p] = stages].runs = rows.runs
         /\ [rows EXCEPT !.config[p] = stages].config = [rows.config EXCEPT ![p] = stages]
BY DEF Rows

LEMMA DeletedRows ==
  ASSUME NEW rows \in Rows, NEW p \in Projects
  PROVE  /\ WithoutProject(rows, p) \in Rows
         /\ WithoutProject(rows, p).live = rows.live \ {p}
         /\ WithoutProject(rows, p).config = [rows.config EXCEPT ![p] = <<>>]
         /\ WithoutProject(rows, p).counter = [rows.counter EXCEPT ![p] = 0]
         /\ DOMAIN WithoutProject(rows, p).runs =
              {r \in DOMAIN rows.runs : rows.runs[r].project # p}
         /\ \A r \in DOMAIN WithoutProject(rows, p).runs :
              WithoutProject(rows, p).runs[r] = rows.runs[r]
<1> DEFINE t == WithoutProject(rows, p).runs
<1>1. DOMAIN rows.runs \subseteq Requests /\ rows.runs \in [DOMAIN rows.runs -> RunRows]
  BY TableForm DEF Rows
<1>2. /\ DOMAIN t = {r \in DOMAIN rows.runs : rows.runs[r].project # p}
      /\ t = [r \in {r \in DOMAIN rows.runs : rows.runs[r].project # p} |-> rows.runs[r]]
  BY DEF WithoutProject, Restrict
<1>3. t \in RunTables
  <2>1. DOMAIN t \subseteq Requests /\ t \in [DOMAIN t -> RunRows]
    BY <1>1, <1>2
  <2> QED
    BY <2>1, TableForm
<1>4. <<>> \in Seq(StageInputs)
  OBVIOUS
<1>5. /\ rows.live \ {p} \in SUBSET Projects
      /\ [rows.config EXCEPT ![p] = <<>>] \in [Projects -> Seq(StageInputs)]
      /\ [rows.counter EXCEPT ![p] = 0] \in [Projects -> Nat]
  BY <1>4 DEF Rows
<1> QED
  BY <1>2, <1>3, <1>5 DEF WithoutProject, Rows

-----------------------------------------------------------------------------
(* What a request at work knows                                            *)

LEMMA AtLabel ==
  ASSUME CoreInv, NEW q \in Requests, pc[q] # "idle"
  PROVE  /\ call[q] \in CallsOf[q] /\ call[q].op \in OpsAt(pc[q])
         /\ call[q].op \in {"create", "delete", "list", "retry", "cancel", "put"}
         /\ call[q].op \in {"create", "delete", "list", "put"} => call[q].project \in Projects
         /\ call[q].op \in {"retry", "cancel"} => call[q].run \in Requests
         /\ call[q].op = "put" => call[q].stages \in Seq(StageInputs)
<1>1. call[q] \in CallsOf[q] /\ call[q].op \in OpsAt(pc[q])
  BY DEF CoreInv, Control, ControlOK
<1> QED
  BY <1>1, CallForms

LEMMA RunRequest ==
  ASSUME CoreInv, NEW q \in Requests, pc[q] \in {"allocate", "insert", "stages", "commit"},
         call[q].op \in {"create", "retry"}
  PROVE  /\ ProjectOf(q) \in Projects
         /\ call[q].op = "retry" => source[q] \in RunRows /\ ProjectOf(q) = source[q].project
         /\ \A stages \in Seq(StageRows) : InsertedRow(q, stages) \in RunRows
<1>1. pc[q] # "idle"
  OBVIOUS
<1>2. call[q].op = "retry" => source[q] \in RunRows
  BY DEF CoreInv, Control, ControlOK
<1>3. /\ call[q].op = "create" => call[q].project \in Projects
      /\ call[q].op = "retry" => call[q].run \in Requests
  BY <1>1, AtLabel
<1>4. ProjectOf(q) \in Projects
  BY <1>2, <1>3 DEF ProjectOf, RunRows
<1>5. call[q].op = "retry" => ProjectOf(q) = source[q].project
  BY DEF ProjectOf
<1>6. ASSUME NEW stages \in Seq(StageRows)
      PROVE  InsertedRow(q, stages) \in RunRows
  <2>1. db.counter[ProjectOf(q)] \in Nat
    BY <1>4 DEF CoreInv, Types, Rows
  <2>2. db.counter[ProjectOf(q)] + 1 \in Nat \ {0}
    BY <2>1
  <2>3. /\ (IF call[q].op = "retry" THEN call[q].run ELSE None) \in Requests \cup {None}
        /\ (IF call[q].op = "retry" THEN source[q].commit ELSE None) \in Commits \cup {None}
    BY <1>2, <1>3 DEF RunRows
  <2> QED
    BY <1>4, <2>2, <2>3 DEF InsertedRow, RunRows
<1> QED
  BY <1>2, <1>4, <1>5, <1>6

LEMMA RunTypes ==
  ASSUME Types
  PROVE  /\ RunIds \subseteq Requests
         /\ db.runs \in [RunIds -> RunRows]
         /\ \A r \in RunIds : db.runs[r] \in RunRows
         /\ DOMAIN draft.runs \subseteq Requests
         /\ \A r \in DOMAIN draft.runs : draft.runs[r] \in RunRows
BY TableForm DEF Types, Rows, RunIds

\* The source of a retry that found its project alive is a run other than
\* the one being inserted.
LEMMA SourceRun ==
  ASSUME CoreInv, NEW q \in Requests, pc[q] \in {"allocate", "insert", "stages", "commit"},
         call[q].op = "retry", ProjectOf(q) \in db.live
  PROVE  /\ call[q].run \in RunIds /\ call[q].run # q
         /\ db.runs[call[q].run] \in RunRows
         /\ db.runs[call[q].run].project = ProjectOf(q)
         /\ db.runs[call[q].run].status \in Stopped
         /\ db.runs[call[q].run].commit = source[q].commit
<1>1. ProjectOf(q) = source[q].project
  BY DEF ProjectOf
<1>2. q \notin RunIds
  BY DEF CoreInv, Control, ControlOK
<1> QED
  BY <1>1, <1>2, RunTypes DEF CoreInv, SourceOK

LEMMA StagesForType ==
  ASSUME CoreInv, NEW q \in Requests, pc[q] \in {"stages", "commit"},
         call[q].op \in {"create", "retry"}, ProjectOf(q) \in db.live
  PROVE  /\ StagesFor(q) \in Seq(StageInputs) \/ StagesFor(q) \in Seq(StageRows)
         /\ Fresh(StagesFor(q)) \in Seq(StageRows)
         /\ Content(Fresh(StagesFor(q))) = Content(StagesFor(q))
         /\ call[q].op = "create" => Content(StagesFor(q)) = db.config[ProjectOf(q)]
<1>1. call[q].op = "create" => StagesFor(q) \in Seq(StageInputs)
  BY RunRequest DEF StagesFor, CoreInv, Types, Rows
<1>2. call[q].op = "retry" => StagesFor(q) \in Seq(StageRows)
  BY SourceRun DEF StagesFor, RunRows
<1> QED
  BY <1>1, <1>2, FreshStages, ContentOfInputs DEF StagesFor

-----------------------------------------------------------------------------
(* The statements of the transactions                                      *)

LEMMA AllocateStep ==
  ASSUME CoreInv, NEW q \in Requests, AllocateRunNumber(q)
  PROVE  db' = db /\ draft' \in Rows /\ DraftOK(q)'
<1>1. CASE NoWrite /\ Answer(q, "allocate", "failed")
  <2>1. pc'[q] = "done"
    BY <1>1 DEF Answer, CoreInv, Types
  <2> QED
    BY <1>1, <2>1 DEF NoWrite, DraftOK, CoreInv, Types
<1>2. CASE /\ Goto(q, "allocate", "insert") /\ ProjectOf(q) \in db.live
           /\ Begin(q, Increment(db, ProjectOf(q))) /\ UNCHANGED source
  <2>1. pc[q] = "allocate" /\ pc'[q] = "insert" /\ UNCHANGED <<call, source, db>>
    BY <1>2 DEF Goto, Begin, CoreInv, Types
  <2>2. call[q].op \in {"create", "retry"}
    BY <2>1, AtLabel DEF OpsAt
  <2>3. ProjectOf(q) \in Projects /\ ProjectOf(q)' = ProjectOf(q)
    BY <2>1, <2>2, RunRequest DEF ProjectOf
  <2>4. draft' = Increment(db, ProjectOf(q)) /\ db \in Rows
    BY <1>2 DEF Begin, CoreInv, Types
  <2>5. draft' \in Rows /\ Numbered(q)' /\ (draft.runs = db.runs)'
    BY <1>2, <2>1, <2>3, <2>4, IncrementRows DEF Numbered
  <2> QED
    BY <2>1, <2>5 DEF DraftOK
<1> QED
  BY <1>1, <1>2 DEF AllocateRunNumber

LEMMA InsertStep ==
  ASSUME CoreInv, NEW q \in Requests, InsertRun(q)
  PROVE  db' = db /\ draft' \in Rows /\ DraftOK(q)'
<1>1. pc[q] = "insert" /\ pc'[q] = "stages" /\ UNCHANGED <<call, source, db>>
  BY DEF InsertRun, Goto, Write, CoreInv, Types
<1>2. call[q].op \in {"create", "retry"}
  BY <1>1, AtLabel DEF OpsAt
<1>3. Numbered(q) /\ draft.runs = db.runs
  BY <1>1 DEF CoreInv, DraftOK
<1>4. <<>> \in Seq(StageRows)
  OBVIOUS
<1>5. ProjectOf(q) \in Projects /\ InsertedRow(q, <<>>) \in RunRows
  BY <1>1, <1>2, <1>4, RunRequest
<1>6. draft.counter[ProjectOf(q)] = db.counter[ProjectOf(q)] + 1
  BY <1>3, <1>5 DEF Numbered, CoreInv, Types, Rows
<1>7. Row(q) = InsertedRow(q, <<>>)
  BY <1>6 DEF Row, InsertedRow
<1>8. draft' = WithRun(draft, q, InsertedRow(q, <<>>)) /\ draft \in Rows
  BY <1>7 DEF InsertRun, Write, CoreInv, Types
<1>9. /\ draft' \in Rows
      /\ draft'.live = draft.live /\ draft'.config = draft.config
      /\ draft'.counter = draft.counter
      /\ draft'.runs = Inserted(q, <<>>)
  BY <1>3, <1>5, <1>8, WithRunRows DEF Inserted, RunIds
<1>10. /\ ProjectOf(q)' = ProjectOf(q)
       /\ Inserted(q, <<>>)' = Inserted(q, <<>>)
  BY <1>1 DEF ProjectOf, Inserted, InsertedRow, RunIds
<1>11. Numbered(q)' /\ (draft.runs = Inserted(q, <<>>))'
  BY <1>1, <1>3, <1>9, <1>10 DEF Numbered
<1> QED
  BY <1>1, <1>9, <1>11 DEF DraftOK

\* Only the stages of a row change.
LEMMA RowStages ==
  ASSUME NEW row \in RunRows, NEW other \in RunRows,
         other.project = row.project, other.number = row.number, other.status = row.status,
         other.retryOf = row.retryOf, other.commit = row.commit, other.synced = row.synced
  PROVE  other = [row EXCEPT !.stages = other.stages]
BY DEF RunRows

LEMMA SnapshotStep ==
  ASSUME CoreInv, NEW q \in Requests, SnapshotStages(q)
  PROVE  db' = db /\ draft' \in Rows /\ DraftOK(q)'
<1>1. pc[q] = "stages" /\ pc'[q] = "commit" /\ UNCHANGED <<call, source, db>>
  BY DEF SnapshotStages, Goto, Write, CoreInv, Types
<1>2. call[q].op \in {"create", "retry"}
  BY <1>1, AtLabel DEF OpsAt
<1>3. Numbered(q) /\ draft.runs = Inserted(q, <<>>)
  BY <1>1 DEF CoreInv, DraftOK
<1>4. /\ Fresh(StagesFor(q)) \in Seq(StageRows)
      /\ InsertedRow(q, Fresh(StagesFor(q))) \in RunRows
  BY <1>1, <1>2, <1>3, StagesForType, RunRequest DEF Numbered
<1>5. Origin(q) = StagesFor(q)
  <2>1. CASE call[q].op = "create"
    BY <1>3, <2>1 DEF Origin, StagesFor, Numbered
  <2>2. CASE call[q].op = "retry"
    <3>1. call[q].run \in RunIds /\ call[q].run # q
      BY <1>1, <1>3, <2>2, SourceRun DEF Numbered
    <3>2. draft.runs[call[q].run] = db.runs[call[q].run]
      BY <1>3, <3>1 DEF Inserted
    <3> QED
      BY <2>2, <3>2 DEF Origin, StagesFor
  <2> QED
    BY <1>2, <2>1, <2>2
<1>6. draft.runs[q] = InsertedRow(q, <<>>) /\ q \in DOMAIN draft.runs
  BY <1>3 DEF Inserted
<1>7. [draft.runs[q] EXCEPT !.stages = Fresh(StagesFor(q))] = InsertedRow(q, Fresh(StagesFor(q)))
  <2>1. <<>> \in Seq(StageRows)
    OBVIOUS
  <2>2. InsertedRow(q, <<>>) \in RunRows
    BY <1>1, <1>2, <2>1, RunRequest
  <2> DEFINE a == InsertedRow(q, <<>>)
             b == InsertedRow(q, Fresh(StagesFor(q)))
  <2>3. /\ b.project = a.project /\ b.number = a.number /\ b.status = a.status
        /\ b.retryOf = a.retryOf /\ b.commit = a.commit /\ b.synced = a.synced
        /\ b.stages = Fresh(StagesFor(q))
    BY DEF InsertedRow
  <2>4. a \in RunRows /\ b \in RunRows
    BY <1>4, <2>2
  <2> HIDE DEF a, b
  <2>5. b = [a EXCEPT !.stages = b.stages]
    BY <2>3, <2>4, RowStages
  <2> QED
    BY <1>6, <2>3, <2>5 DEF a, b
<1>8. draft' = [draft EXCEPT !.runs[q] = InsertedRow(q, Fresh(StagesFor(q)))] /\ draft \in Rows
  BY <1>5, <1>7 DEF SnapshotStages, Write, CoreInv, Types
<1>9. /\ draft' \in Rows
      /\ draft'.live = draft.live /\ draft'.config = draft.config
      /\ draft'.counter = draft.counter
      /\ draft'.runs = [draft.runs EXCEPT ![q] = InsertedRow(q, Fresh(StagesFor(q)))]
  BY <1>4, <1>6, <1>8, UpdatedRows
<1>10. draft'.runs = Inserted(q, Fresh(StagesFor(q)))
  BY <1>3, <1>9 DEF Inserted
<1>11. /\ ProjectOf(q)' = ProjectOf(q)
       /\ Inserted(q, Fresh(StagesFor(q)))' = Inserted(q, Fresh(StagesFor(q)))
  BY <1>1 DEF ProjectOf, Inserted, InsertedRow, RunIds, StagesFor, Fresh
<1>12. Numbered(q)' /\ (draft.runs = Inserted(q, Fresh(StagesFor(q))))'
  BY <1>1, <1>3, <1>9, <1>10, <1>11 DEF Numbered
<1> QED
  BY <1>1, <1>2, <1>9, <1>12 DEF DraftOK

\* Only the status and the stages of a run change in a cancellation.
LEMMA CancelledRow ==
  ASSUME NEW row \in RunRows, NEW stages \in Seq(StageRows)
  PROVE  /\ [row EXCEPT !.status = "cancelled", !.stages = stages] \in RunRows
         /\ [row EXCEPT !.status = "cancelled"] \in RunRows
         /\ [row EXCEPT !.status = "cancelled"]
              = [row EXCEPT !.status = "cancelled", !.stages = row.stages]
         /\ [[row EXCEPT !.status = "cancelled"] EXCEPT !.stages = stages]
              = [row EXCEPT !.status = "cancelled", !.stages = stages]
BY DEF RunRows, Final, Stopped

LEMMA CancelRunStep ==
  ASSUME CoreInv, NEW q \in Requests, CancelRun(q)
  PROVE  db' = db /\ draft' \in Rows /\ DraftOK(q)'
<1> DEFINE r == call[q].run
<1>1. CASE Goto(q, "cancel", "refused") /\ NoWrite
  <2>1. pc'[q] = "refused"
    BY <1>1 DEF Goto, CoreInv, Types
  <2> QED
    BY <1>1, <2>1 DEF NoWrite, DraftOK, CoreInv, Types
<1>2. CASE /\ Goto(q, "cancel", "cancel_stages") /\ UNCHANGED source
           /\ r \in RunIds /\ db.runs[r].status = "pending"
           /\ Begin(q, [db EXCEPT !.runs[r].status = "cancelled"])
  <2>1. pc[q] = "cancel" /\ pc'[q] = "cancel_stages" /\ UNCHANGED <<call, source, db>>
    BY <1>2 DEF Goto, Begin, CoreInv, Types
  <2> DEFINE row == [db.runs[r] EXCEPT !.status = "cancelled"]
  <2>2. db.runs[r] \in RunRows /\ db.runs[r].stages \in Seq(StageRows)
    BY <1>2, RunTypes DEF CoreInv, RunRows
  <2>3. /\ row \in RunRows
        /\ row = [db.runs[r] EXCEPT !.status = "cancelled", !.stages = db.runs[r].stages]
    BY <2>2, CancelledRow
  <2>4. draft' = [db EXCEPT !.runs[r] = row] /\ db \in Rows
    BY <1>2 DEF Begin, CoreInv, Types
  <2>5. /\ draft' \in Rows
        /\ draft'.live = db.live /\ draft'.config = db.config /\ draft'.counter = db.counter
        /\ draft'.runs = [db.runs EXCEPT ![r] = row]
    BY <1>2, <2>3, <2>4, UpdatedRows DEF RunIds
  <2>6. draft'.runs = [db.runs EXCEPT ![r] =
                         [@ EXCEPT !.status = "cancelled", !.stages = db.runs[r].stages]]
    BY <2>3, <2>5
  <2>7. Cancelled(q, db.runs[call[q].run].stages)'
    BY <1>2, <2>1, <2>5, <2>6 DEF Cancelled, RunIds
  <2> QED
    BY <2>1, <2>5, <2>7 DEF DraftOK
<1> QED
  BY <1>1, <1>2 DEF CancelRun

LEMMA CancelStagesStep ==
  ASSUME CoreInv, NEW q \in Requests, CancelStages(q)
  PROVE  db' = db /\ draft' \in Rows /\ DraftOK(q)'
<1> DEFINE r == call[q].run
           marked == Mark(db.runs[r].stages, "pending", "cancelled")
           row == [db.runs[r] EXCEPT !.status = "cancelled", !.stages = marked]
<1>1. pc[q] = "cancel_stages" /\ pc'[q] = "commit" /\ UNCHANGED <<call, source, db>>
  BY DEF CancelStages, Goto, Write, CoreInv, Types
<1>2. call[q].op = "cancel"
  BY <1>1, AtLabel DEF OpsAt
<1>3. Cancelled(q, db.runs[r].stages)
  BY <1>1 DEF CoreInv, DraftOK
<1>4. r \in RunIds /\ db.runs[r] \in RunRows /\ db.runs[r].stages \in Seq(StageRows)
  BY <1>3, RunTypes DEF Cancelled, CoreInv, RunRows
<1>5. marked \in Seq(StageRows) /\ row \in RunRows
  BY <1>4, MarkStages, CancelledRow
<1>6. /\ r \in DOMAIN draft.runs
      /\ draft.runs[r] = [db.runs[r] EXCEPT !.status = "cancelled", !.stages = db.runs[r].stages]
  BY <1>3, <1>4 DEF Cancelled, RunIds
<1>7. /\ draft.runs[r].stages = db.runs[r].stages
      /\ [draft.runs[r] EXCEPT !.stages = marked] = row
  BY <1>4, <1>5, <1>6, CancelledRow DEF RunRows
<1>8. draft' = [draft EXCEPT !.runs[r] = row] /\ draft \in Rows
  BY <1>7 DEF CancelStages, Write, CoreInv, Types
<1>9. /\ draft' \in Rows
      /\ draft'.live = draft.live /\ draft'.config = draft.config
      /\ draft'.counter = draft.counter
      /\ draft'.runs = [draft.runs EXCEPT ![r] = row]
  BY <1>5, <1>6, <1>8, UpdatedRows
<1>10. draft'.runs = [db.runs EXCEPT ![r] =
                        [@ EXCEPT !.status = "cancelled", !.stages = marked]]
  BY <1>3, <1>4, <1>9 DEF Cancelled, RunIds
<1>11. Cancelled(q, Mark(db.runs[call[q].run].stages, "pending", "cancelled"))'
  <2>1. marked' = marked
    BY <1>1 DEF Mark
  <2> QED
    BY <1>1, <1>3, <1>9, <1>10, <2>1 DEF Cancelled, RunIds
<1> QED
  BY <1>1, <1>2, <1>9, <1>11 DEF DraftOK

LEMMA ReplaceStep ==
  ASSUME CoreInv, NEW q \in Requests, ReplaceConfig(q)
  PROVE  db' = db /\ draft' \in Rows /\ DraftOK(q)'
<1> DEFINE p == call[q].project
<1>1. CASE NoWrite /\ Answer(q, "replace", "failed")
  <2>1. pc'[q] = "done"
    BY <1>1 DEF Answer, CoreInv, Types
  <2> QED
    BY <1>1, <2>1 DEF NoWrite, DraftOK, CoreInv, Types
<1>2. CASE /\ Goto(q, "replace", "insert_config") /\ p \in db.live
           /\ Begin(q, [db EXCEPT !.config[p] = <<>>]) /\ UNCHANGED source
  <2>1. pc[q] = "replace" /\ pc'[q] = "insert_config" /\ UNCHANGED <<call, source, db>>
    BY <1>2 DEF Goto, Begin, CoreInv, Types
  <2>2. call[q].op = "put" /\ call[q].stages # <<>>
    BY <2>1, AtLabel DEF OpsAt, CoreInv, DraftOK
  <2>3. p \in Projects /\ <<>> \in Seq(StageInputs)
    BY <2>1, <2>2, AtLabel
  <2>4. draft' = [db EXCEPT !.config[p] = <<>>] /\ db \in Rows
    BY <1>2 DEF Begin, CoreInv, Types
  <2>5. /\ draft' \in Rows
        /\ draft'.live = db.live /\ draft'.counter = db.counter /\ draft'.runs = db.runs
        /\ draft'.config = [db.config EXCEPT ![p] = <<>>]
    BY <2>3, <2>4, ConfiguredRows
  <2>6. Reconfigured(q, <<>>)'
    BY <1>2, <2>1, <2>5 DEF Reconfigured
  <2> QED
    BY <2>1, <2>2, <2>5, <2>6 DEF DraftOK
<1> QED
  BY <1>1, <1>2 DEF ReplaceConfig

LEMMA InsertConfigStep ==
  ASSUME CoreInv, NEW q \in Requests, InsertConfig(q)
  PROVE  db' = db /\ draft' \in Rows /\ DraftOK(q)'
<1> DEFINE p == call[q].project
<1>1. CASE Answer(q, "insert_config", "invalid") /\ Rollback(q)
  <2>1. pc'[q] = "done"
    BY <1>1 DEF Answer, CoreInv, Types
  <2> QED
    BY <1>1, <2>1 DEF Rollback, DraftOK, CoreInv, Types
<1>2. CASE /\ Goto(q, "insert_config", "commit")
           /\ Write(q, [draft EXCEPT !.config[p] = call[q].stages]) /\ UNCHANGED source
  <2>1. pc[q] = "insert_config" /\ pc'[q] = "commit" /\ UNCHANGED <<call, source, db>>
    BY <1>2 DEF Goto, Write, CoreInv, Types
  <2>2. call[q].op = "put"
    BY <2>1, AtLabel DEF OpsAt
  <2>3. p \in Projects /\ call[q].stages \in Seq(StageInputs)
    BY <2>1, <2>2, AtLabel
  <2>4. Reconfigured(q, <<>>) /\ call[q].stages # <<>>
    BY <2>1 DEF CoreInv, DraftOK
  <2>5. draft' = [draft EXCEPT !.config[p] = call[q].stages] /\ draft \in Rows
    BY <1>2 DEF Write, CoreInv, Types
  <2>6. /\ draft' \in Rows
        /\ draft'.live = db.live /\ draft'.counter = db.counter /\ draft'.runs = db.runs
        /\ draft'.config = [db.config EXCEPT ![p] = call[q].stages]
    BY <2>3, <2>4, <2>5, ConfiguredRows DEF Reconfigured
  <2>7. Reconfigured(q, call[q].stages)'
    BY <2>1, <2>4, <2>6 DEF Reconfigured
  <2> QED
    BY <2>1, <2>2, <2>4, <2>6, <2>7 DEF DraftOK
<1> QED
  BY <1>1, <1>2 DEF InsertConfig

-----------------------------------------------------------------------------
(* Every step changes the published rows in one of these ways              *)

SameRows == db' = db

\* COMMIT of create and retry.
Inserts(q) ==
  /\ pc[q] = "commit" /\ call[q].op \in {"create", "retry"}
  /\ pc'[q] = "answer"
  /\ ProjectOf(q) \in db.live
  /\ db'.live = db.live /\ db'.config = db.config
  /\ db'.counter = [db.counter EXCEPT ![ProjectOf(q)] = @ + 1]
  /\ db'.runs = Inserted(q, Fresh(StagesFor(q)))

\* COMMIT of put.
Configures(q) ==
  /\ pc[q] = "commit" /\ call[q].op = "put"
  /\ call[q].project \in db.live /\ call[q].stages # <<>>
  /\ db'.live = db.live /\ db'.counter = db.counter /\ db'.runs = db.runs
  /\ db'.config = [db.config EXCEPT ![call[q].project] = call[q].stages]

\* COMMIT of cancel, and the statements of the engine.
Updates(r) ==
  /\ r \in RunIds /\ db.runs[r].status \notin Final
  /\ db'.live = db.live /\ db'.counter = db.counter /\ db'.config = db.config
  /\ DOMAIN db'.runs = RunIds
  /\ \A s \in RunIds : s # r => db'.runs[s] = db.runs[s]
  /\ db'.runs[r] \in RunRows
  /\ db'.runs[r].project = db.runs[r].project
  /\ db'.runs[r].number = db.runs[r].number
  /\ db'.runs[r].retryOf = db.runs[r].retryOf
  /\ Content(db'.runs[r].stages) = Content(db.runs[r].stages)
  /\ ~db'.runs[r].synced => ~db.runs[r].synced /\ db'.runs[r].commit = db.runs[r].commit

Deletes(p) ==
  /\ p \in Projects
  /\ db'.live = db.live \ {p}
  /\ db'.config = [db.config EXCEPT ![p] = <<>>]
  /\ db'.counter = [db.counter EXCEPT ![p] = 0]
  /\ DOMAIN db'.runs = {r \in RunIds : db.runs[r].project # p}
  /\ \A r \in DOMAIN db'.runs : db'.runs[r] = db.runs[r]

RowsStep ==
  \/ SameRows
  \/ \E q \in Requests : Inserts(q) \/ Configures(q)
  \/ \E r \in Requests : Updates(r)
  \/ \E p \in Projects : Deletes(p)

\* A request that does not move.
Still(r) ==
  /\ pc'[r] = pc[r] /\ call'[r] = call[r] /\ source'[r] = source[r]
  /\ pages'[r] = pages[r] /\ answer'[r] = answer[r]

LEMMA CommitStep ==
  ASSUME CoreInv, NEW q \in Requests, Commit(q)
  PROVE  /\ db' \in Rows /\ draft' \in Rows
         /\ Inserts(q) \/ Configures(q) \/ \E r \in Requests : Updates(r)
<1>1. /\ pc[q] = "commit" /\ pc'[q] = "answer" /\ UNCHANGED <<call, source, draft>>
      /\ db' = draft /\ draft \in Rows
  BY DEF Commit, Goto, CoreInv, Types
<1>2. call[q].op \in {"create", "retry", "cancel", "put"}
  BY <1>1, AtLabel DEF OpsAt
<1>3. CASE call[q].op \in {"create", "retry"}
  <2>1. Numbered(q) /\ draft.runs = Inserted(q, Fresh(StagesFor(q)))
    BY <1>1, <1>3 DEF CoreInv, DraftOK
  <2> QED
    BY <1>1, <1>3, <2>1 DEF Inserts, Numbered
<1>4. CASE call[q].op = "put"
  <2>1. Reconfigured(q, call[q].stages) /\ call[q].stages # <<>>
    BY <1>1, <1>4 DEF CoreInv, DraftOK
  <2> QED
    BY <1>1, <1>4, <2>1 DEF Configures, Reconfigured
<1>5. CASE call[q].op = "cancel"
  <2> DEFINE r == call[q].run
             marked == Mark(db.runs[r].stages, "pending", "cancelled")
             row == [db.runs[r] EXCEPT !.status = "cancelled", !.stages = marked]
  <2>1. Cancelled(q, marked)
    BY <1>1, <1>5 DEF CoreInv, DraftOK
  <2>2. /\ r \in RunIds /\ r \in Requests /\ db.runs[r] \in RunRows
        /\ db.runs[r].stages \in Seq(StageRows)
    BY <2>1, RunTypes DEF Cancelled, CoreInv, RunRows
  <2>3. /\ marked \in Seq(StageRows) /\ row \in RunRows
        /\ Content(marked) = Content(db.runs[r].stages)
    BY <2>2, MarkStages, CancelledRow
  <2>4. /\ row.project = db.runs[r].project /\ row.number = db.runs[r].number
        /\ row.retryOf = db.runs[r].retryOf /\ row.stages = marked
        /\ row.synced = db.runs[r].synced /\ row.commit = db.runs[r].commit
    BY <2>2 DEF RunRows
  <2>5. /\ DOMAIN db'.runs = RunIds /\ db'.runs[r] = row
        /\ \A s \in RunIds : s # r => db'.runs[s] = db.runs[s]
    BY <1>1, <2>1, <2>2 DEF Cancelled, RunIds
  <2>6. /\ db'.live = db.live /\ db'.counter = db.counter /\ db'.config = db.config
        /\ db.runs[r].status \notin Final
    BY <1>1, <2>1 DEF Cancelled, Final, Stopped
  <2>7. Updates(r)
    BY <2>2, <2>3, <2>4, <2>5, <2>6 DEF Updates
  <2> QED
    BY <1>1, <2>2, <2>7
<1> QED
  BY <1>2, <1>3, <1>4, <1>5

\* The engine's statements.
LEMMA EngineStep ==
  ASSUME CoreInv, NEW r \in RunIds, NEW row \in RunRows, db.runs[r].status \notin Final,
         Publish([db EXCEPT !.runs[r] = row]),
         row.project = db.runs[r].project, row.number = db.runs[r].number,
         row.retryOf = db.runs[r].retryOf,
         Content(row.stages) = Content(db.runs[r].stages),
         ~row.synced => ~db.runs[r].synced /\ row.commit = db.runs[r].commit
  PROVE  db' \in Rows /\ draft' = db' /\ Updates(r)
<1>1. db' = [db EXCEPT !.runs[r] = row] /\ draft' = db' /\ db \in Rows
  BY DEF Publish, CoreInv, Types
<1>2. /\ db' \in Rows
      /\ db'.live = db.live /\ db'.config = db.config /\ db'.counter = db.counter
      /\ db'.runs = [db.runs EXCEPT ![r] = row]
  BY <1>1, UpdatedRows DEF RunIds
<1>3. /\ DOMAIN db'.runs = RunIds /\ db'.runs[r] = row
      /\ \A s \in RunIds : s # r => db'.runs[s] = db.runs[s]
  BY <1>2 DEF RunIds
<1> QED
  BY <1>1, <1>2, <1>3 DEF Updates

LEMMA ClaimStep ==
  ASSUME CoreInv, NEW r \in RunIds, EngineClaim(r)
  PROVE  db' \in Rows /\ draft' = db' /\ Updates(r)
<1> DEFINE row == [db.runs[r] EXCEPT !.status = "running"]
<1>1. db.runs[r] \in RunRows /\ db.runs[r].status = "pending"
  BY RunTypes DEF CoreInv, EngineClaim, Claimable
<1>2. /\ row \in RunRows
      /\ row.project = db.runs[r].project /\ row.number = db.runs[r].number
      /\ row.retryOf = db.runs[r].retryOf /\ row.stages = db.runs[r].stages
      /\ row.synced = db.runs[r].synced /\ row.commit = db.runs[r].commit
  BY <1>1 DEF RunRows
<1>3. Publish([db EXCEPT !.runs[r] = row])
  BY DEF EngineClaim
<1>4. db.runs[r].status \notin Final
  BY <1>1 DEF Final, Stopped
<1> QED
  BY <1>2, <1>3, <1>4, EngineStep

LEMMA RecordStep ==
  ASSUME CoreInv, NEW r \in RunIds, NEW commit \in Commits, EngineRecord(r, commit)
  PROVE  db' \in Rows /\ draft' = db' /\ Updates(r)
<1> DEFINE row == [db.runs[r] EXCEPT !.commit = commit, !.synced = TRUE]
<1>1. db.runs[r] \in RunRows /\ db.runs[r].status = "running"
  BY RunTypes DEF CoreInv, EngineRecord
<1>2. /\ row \in RunRows
      /\ row.project = db.runs[r].project /\ row.number = db.runs[r].number
      /\ row.retryOf = db.runs[r].retryOf /\ row.stages = db.runs[r].stages
      /\ row.synced = TRUE
  BY <1>1 DEF RunRows
<1>3. [db EXCEPT !.runs[r].commit = commit, !.runs[r].synced = TRUE]
        = [db EXCEPT !.runs[r] = row]
  BY RunTypes DEF CoreInv, Types, Rows, RunIds
<1>4. Publish([db EXCEPT !.runs[r] = row])
  BY <1>3 DEF EngineRecord
<1>5. db.runs[r].status \notin Final
  BY <1>1 DEF Final, Stopped
<1> QED
  BY <1>2, <1>4, <1>5, EngineStep

LEMMA SettleStep ==
  ASSUME CoreInv, NEW r \in RunIds, NEW status \in Final, EngineSettle(r, status)
  PROVE  db' \in Rows /\ draft' = db' /\ Updates(r)
<1>1. PICK done, stoppedAt :
        Publish([db EXCEPT !.runs[r].status = status,
                           !.runs[r].stages = Worked(@, done, stoppedAt, status)])
  BY DEF EngineSettle
<1> DEFINE worked == Worked(db.runs[r].stages, done, stoppedAt, status)
           row == [db.runs[r] EXCEPT !.status = status, !.stages = worked]
<1>2. /\ db.runs[r] \in RunRows /\ db.runs[r].status = "running"
      /\ db.runs[r].stages \in Seq(StageRows)
  BY RunTypes DEF CoreInv, EngineSettle, RunRows
<1>3. worked \in Seq(StageRows) /\ Content(worked) = Content(db.runs[r].stages)
  BY <1>2, WorkedStages
<1> HIDE DEF worked
<1>4. /\ row \in RunRows
      /\ row.project = db.runs[r].project /\ row.number = db.runs[r].number
      /\ row.retryOf = db.runs[r].retryOf /\ row.stages = worked
      /\ row.synced = db.runs[r].synced /\ row.commit = db.runs[r].commit
  BY <1>2, <1>3 DEF RunRows
<1>5. [db EXCEPT !.runs[r].status = status,
                 !.runs[r].stages = Worked(@, done, stoppedAt, status)]
        = [db EXCEPT !.runs[r] = row]
  BY <1>2, RunTypes DEF CoreInv, Types, Rows, RunIds, worked, RunRows
<1>6. Publish([db EXCEPT !.runs[r] = row])
  BY <1>1, <1>5
<1>7. db.runs[r].status \notin Final
  BY <1>2 DEF Final, Stopped
<1> QED
  BY <1>3, <1>4, <1>6, <1>7, EngineStep

LEMMA DeleteStep ==
  ASSUME CoreInv, NEW q \in Requests, DeleteProject(q)
  PROVE  db' \in Rows /\ draft' = db' /\ \E p \in Projects : Deletes(p)
<1> DEFINE p == call[q].project
<1>1. pc[q] = "delete"
  BY DEF DeleteProject, Answer
<1>2. call[q].op = "delete" /\ p \in Projects
  BY <1>1, AtLabel DEF OpsAt
<1>3. db' = WithoutProject(db, p) /\ draft' = db' /\ db \in Rows
  BY DEF DeleteProject, Publish, CoreInv, Types
<1>4. db' \in Rows /\ Deletes(p)
  BY <1>2, <1>3, DeletedRows DEF Deletes, RunIds
<1> QED
  BY <1>2, <1>3, <1>4

-----------------------------------------------------------------------------
(* The move of one request                                                 *)

\* Only the request q moves.
Moves(q) ==
  /\ pc' \in [Requests -> Labels]
  /\ call' \in [Requests -> Calls \cup {None}]
  /\ source' \in [Requests -> RunRows \cup {None}]
  /\ pages' \in [Requests -> [offset : Nat, given : SUBSET Requests, due : SUBSET Requests]]
  /\ answer' \in [Requests -> Answers \cup {None}]
  /\ \A r \in Requests : r # q => Still(r)

LEMMA GotoMoves ==
  ASSUME Types, NEW q \in Requests, NEW from, NEW to \in Labels, Goto(q, from, to),
         UNCHANGED source
  PROVE  /\ Moves(q)
         /\ pc[q] = from /\ pc'[q] = to /\ call'[q] = call[q] /\ source'[q] = source[q]
         /\ pages'[q] = pages[q] /\ answer'[q] = answer[q]
BY DEF Types, Goto, Moves, Still

LEMMA AnswerMoves ==
  ASSUME Types, NEW q \in Requests, NEW from, NEW a \in Answers, Answer(q, from, a)
  PROVE  /\ Moves(q)
         /\ pc[q] = from /\ pc'[q] = "done" /\ call'[q] = call[q] /\ source'[q] = source[q]
         /\ pages'[q] = pages[q] /\ answer'[q] = a
<1>1. "done" \in Labels
  BY DEF Labels
<1> QED
  BY <1>1 DEF Types, Answer, Moves, Still

LEMMA LabelKinds ==
  /\ {"idle", "check", "list", "allocate", "cancel", "refused", "replace", "delete", "answer",
      "done", "insert", "stages", "cancel_stages", "insert_config", "commit"} \subseteq Labels
  /\ {"idle", "check", "list", "allocate", "cancel", "refused", "replace", "delete", "answer",
      "done"} \cap InTransaction = {}
BY DEF Labels, BeforeTransaction, InTransaction

\* Steps outside transactions that write nothing.
Quiet(q) ==
  \/ \E c \in CallsOf[q] : Receive(q, c)
  \/ CreateCheck(q) \/ RetryCheck(q) \/ ListCheck(q) \/ ListPage(q) \/ CancelRefused(q)
  \/ PutCheck(q) \/ ReadBack(q)
  \/ pc[q] \in BeforeTransaction /\ Answer(q, pc[q], "failed") /\ NoWrite
  \/ Answer(q, "answer", "unanswered") /\ NoWrite

\* Where a quiet step leads.
LEMMA QuietStep ==
  ASSUME CoreInv, NEW q \in Requests, Quiet(q)
  PROVE  NoWrite /\ Moves(q) /\ ControlOK(q)' /\ DraftOK(q)'
<1> USE RunTypes DEF CoreInv
<1>0. /\ pc[q] # "idle" => call[q].op \in OpsAt(pc[q]) /\ call[q] \in CallsOf[q]
      /\ answer[q] = "ok" => pc[q] = "done"
      /\ writer = q <=> pc[q] \in InTransaction
      /\ q \in RunIds => pc[q] \in {"answer", "done"}
      /\ {"ok", "not_found", "conflict", "invalid", "failed", "unanswered"} \subseteq Answers
  BY DEF Control, ControlOK, Answers
<1>1. ASSUME NEW a \in Answers, NEW from, Answer(q, from, a), NoWrite,
             from \in BeforeTransaction \cup {"answer"}
      PROVE  NoWrite /\ Moves(q) /\ ControlOK(q)' /\ DraftOK(q)'
  <2>1. /\ Moves(q) /\ pc[q] = from /\ pc'[q] = "done" /\ call'[q] = call[q]
        /\ source'[q] = source[q] /\ answer'[q] = a
    BY <1>1, AnswerMoves
  <2>2. /\ pc[q] \notin InTransaction \cup {"idle", "done"} /\ pc'[q] \notin InTransaction
        /\ UNCHANGED <<db, draft, writer>> /\ RunIds' = RunIds
    BY <1>1, <2>1 DEF BeforeTransaction, InTransaction, NoWrite, RunIds
  <2>3. call[q].op \in OpsAt("done")
    BY <1>0, <2>2, AtLabel DEF OpsAt
  <2>4. ControlOK(q)'
    BY <1>0, <2>1, <2>2, <2>3 DEF ControlOK
  <2> QED
    BY <1>1, <2>1, <2>4 DEF DraftOK
<1>2. ASSUME NEW to \in {"allocate", "list", "replace"}, Goto(q, "check", to), NoWrite,
             UNCHANGED source, call[q].op \in OpsAt(to),
             call[q].op = "retry" => source[q] \in RunRows,
             to = "replace" => call[q].stages # <<>>
      PROVE  NoWrite /\ Moves(q) /\ ControlOK(q)' /\ DraftOK(q)'
  <2>1. /\ Moves(q) /\ pc[q] = "check" /\ pc'[q] = to /\ call'[q] = call[q]
        /\ source'[q] = source[q] /\ answer'[q] = answer[q]
    BY <1>2, GotoMoves, LabelKinds
  <2>2. /\ pc[q] \notin InTransaction \cup {"idle", "done"} /\ pc'[q] \notin InTransaction
        /\ UNCHANGED <<db, draft, writer>> /\ RunIds' = RunIds
    BY <1>2, <2>1 DEF InTransaction, NoWrite, RunIds
  <2>3. ControlOK(q)'
    BY <1>0, <1>2, <2>1, <2>2 DEF ControlOK
  <2> QED
    BY <1>2, <2>1, <2>3 DEF DraftOK
<1>3. ASSUME NEW c \in CallsOf[q], Receive(q, c)
      PROVE  NoWrite /\ Moves(q) /\ ControlOK(q)' /\ DraftOK(q)'
  <2>1. /\ c \in Calls
        /\ c.op \in {"create", "delete", "list", "retry", "cancel", "put"}
    BY CallForms
  <2>2. /\ FirstStep(c) \in {"check", "cancel", "delete"} /\ c.op \in OpsAt(FirstStep(c))
        /\ FirstStep(c) \in Labels
    BY <2>1, LabelKinds DEF FirstStep, OpsAt
  <2>3. /\ pc[q] = "idle" /\ pc'[q] = FirstStep(c) /\ call'[q] = c
        /\ UNCHANGED <<source, pages, answer, db, draft, writer>> /\ RunIds' = RunIds
        /\ Moves(q)
    BY <1>3, <2>1, <2>2 DEF Receive, NoWrite, Moves, Still, Types, RunIds
  <2>4. pc'[q] \notin InTransaction /\ pc[q] \notin InTransaction
    BY <2>2, <2>3 DEF InTransaction
  <2>5. ControlOK(q)'
    BY <1>0, <2>2, <2>3, <2>4 DEF ControlOK
  <2> QED
    BY <1>3, <2>2, <2>3, <2>5 DEF DraftOK, Receive
<1>4. CASE CreateCheck(q)
  <2>1. call[q].op = "create" /\ "create" \in OpsAt("allocate")
    BY <1>4 DEF CreateCheck, OpsAt
  <2> QED
    BY <1>0, <1>1, <1>2, <1>4, <2>1 DEF CreateCheck, BeforeTransaction
<1>5. CASE RetryCheck(q)
  <2>1. CASE Answer(q, "check", "conflict") \/ Answer(q, "check", "not_found")
    BY <1>0, <1>1, <1>5, <2>1 DEF RetryCheck, BeforeTransaction
  <2>2. CASE /\ call[q].run \in RunIds /\ source' = [source EXCEPT ![q] = db.runs[call[q].run]]
             /\ Goto(q, "check", "allocate") /\ NoWrite
    <3>1. db.runs[call[q].run] \in RunRows
      BY <2>2
    <3>2. /\ pc[q] = "check" /\ pc'[q] = "allocate" /\ call'[q] = call[q]
          /\ source'[q] \in RunRows /\ answer'[q] = answer[q] /\ Moves(q)
          /\ UNCHANGED <<db, draft, writer>> /\ RunIds' = RunIds
      BY <2>2, <3>1, LabelKinds DEF Goto, NoWrite, Moves, Still, Types, RunIds
    <3>3. pc'[q] \notin InTransaction /\ pc[q] \notin InTransaction
      BY <3>2 DEF InTransaction
    <3>4. call[q].op = "retry" /\ "retry" \in OpsAt("allocate")
      BY <1>5 DEF RetryCheck, OpsAt
    <3>5. ControlOK(q)'
      BY <1>0, <3>2, <3>3, <3>4 DEF ControlOK
    <3> QED
      BY <2>2, <3>2, <3>5 DEF DraftOK
  <2> QED
    BY <1>5, <2>1, <2>2 DEF RetryCheck
<1>6. CASE ListCheck(q)
  <2>1. call[q].op = "list" /\ "list" \in OpsAt("list")
    BY <1>6 DEF ListCheck, OpsAt
  <2> QED
    BY <1>0, <1>1, <1>2, <1>6, <2>1 DEF ListCheck, BeforeTransaction
<1>7. CASE ListPage(q)
  <2> DEFINE page == Page(call[q].project, pages[q].offset)
  <2>1. RunsOf(call[q].project) \subseteq Requests /\ page \subseteq Requests
    BY DEF RunsOf, Page
  <2>2. pages[q] \in [offset : Nat, given : SUBSET Requests, due : SUBSET Requests]
    BY DEF Types
  <2>3. [offset |-> pages[q].offset + PageSize, given |-> pages[q].given \cup page,
         due |-> IF pages[q].offset = 0 THEN RunsOf(call[q].project) ELSE pages[q].due]
          \in [offset : Nat, given : SUBSET Requests, due : SUBSET Requests]
    BY <2>1, <2>2, RunsAssumption
  <2>4. /\ pc[q] = "list" /\ pc'[q] \in {"check", "done"} /\ call'[q] = call[q]
        /\ source'[q] = source[q]
        /\ answer'[q] = "ok" \/ answer'[q] = answer[q]
        /\ answer'[q] = "ok" => pc'[q] = "done"
        /\ UNCHANGED <<db, draft, writer>> /\ RunIds' = RunIds
        /\ NoWrite
    BY <1>0, <1>7 DEF ListPage, NoWrite, Types, RunIds
  <2>5. /\ pages' \in [Requests -> [offset : Nat, given : SUBSET Requests, due : SUBSET Requests]]
        /\ \A r \in Requests : r # q => pages'[r] = pages[r]
    BY <1>7, <2>3 DEF ListPage, Types
  <2>6. Moves(q)
    <3>1. /\ call' = call /\ source' = source
          /\ call \in [Requests -> Calls \cup {None}]
          /\ source \in [Requests -> RunRows \cup {None}]
      BY <1>7 DEF ListPage, Types
    <3>2. /\ pc' \in [Requests -> Labels]
          /\ answer' \in [Requests -> Answers \cup {None}]
          /\ \A r \in Requests : r # q => pc'[r] = pc[r] /\ answer'[r] = answer[r]
      <4>1. \/ pc' = [pc EXCEPT ![q] = "check"] /\ answer' = answer
            \/ pc' = [pc EXCEPT ![q] = "done"] /\ answer' = [answer EXCEPT ![q] = "ok"]
        BY <1>7 DEF ListPage
      <4>2. /\ "check" \in Labels /\ "done" \in Labels /\ "ok" \in Answers
            /\ pc \in [Requests -> Labels] /\ answer \in [Requests -> Answers \cup {None}]
        BY <1>0, LabelKinds DEF Types
      <4> QED
        BY <4>1, <4>2
    <3> QED
      BY <2>5, <3>1, <3>2 DEF Moves, Still
  <2>7. pc'[q] \notin InTransaction /\ pc[q] \notin InTransaction /\ "list" \in OpsAt(pc'[q])
    BY <2>4 DEF InTransaction, OpsAt
  <2>8. call[q].op = "list"
    BY <1>0, <2>4 DEF OpsAt
  <2>9. ControlOK(q)'
    BY <1>0, <2>4, <2>7, <2>8 DEF ControlOK
  <2> QED
    BY <2>4, <2>6, <2>9 DEF DraftOK
<1>8. CASE CancelRefused(q)
  BY <1>0, <1>1, <1>8 DEF CancelRefused, BeforeTransaction
<1>9. CASE PutCheck(q)
  <2>1. call[q].op = "put" /\ "put" \in OpsAt("replace")
    BY <1>9 DEF PutCheck, OpsAt
  <2> QED
    BY <1>0, <1>1, <1>2, <1>9, <2>1 DEF PutCheck, BeforeTransaction
<1>10. CASE ReadBack(q)
  BY <1>0, <1>1, <1>10 DEF ReadBack
<1> QED
  BY <1>0, <1>1, <1>3, <1>4, <1>5, <1>6, <1>7, <1>8, <1>9, <1>10 DEF Quiet

\* A statement of a transaction, from the first to the one before COMMIT.
Statement(q) ==
  \/ AllocateRunNumber(q) \/ InsertRun(q) \/ SnapshotStages(q)
  \/ CancelRun(q) \/ CancelStages(q)
  \/ ReplaceConfig(q) \/ InsertConfig(q)

LEMMA StatementStep ==
  ASSUME CoreInv, NEW q \in Requests, Statement(q)
  PROVE  /\ db' = db /\ draft' \in Rows
         /\ Moves(q) /\ ControlOK(q)' /\ DraftOK(q)'
         /\ writer \in {None, q} /\ writer' \in {None, q}
         /\ writer' = None => draft' = db'
<1>0. /\ pc[q] # "idle" => call[q].op \in OpsAt(pc[q]) /\ call[q] \in CallsOf[q]
      /\ answer[q] = "ok" => pc[q] = "done"
      /\ writer = q <=> pc[q] \in InTransaction
      /\ q \in RunIds => pc[q] \in {"answer", "done"}
      /\ pc[q] \in {"allocate", "insert", "stages", "commit"} /\ call[q].op = "retry"
         => source[q] \in RunRows
      /\ {"ok", "not_found", "conflict", "invalid", "failed", "unanswered"} \subseteq Answers
      /\ writer = None => draft = db
      /\ q # None
      /\ Types
  BY RunsAssumption DEF Control, ControlOK, Answers, CoreInv
<1>1. /\ db' = db /\ draft' \in Rows /\ DraftOK(q)'
  BY AllocateStep, InsertStep, SnapshotStep, CancelRunStep, CancelStagesStep, ReplaceStep,
     InsertConfigStep DEF Statement
<1>2. ASSUME NEW from, NEW to \in Labels, Goto(q, from, to), UNCHANGED source,
             (from \in {"allocate", "cancel", "replace"} /\ writer = None)
               \/ from \in InTransaction,
             IF to \in InTransaction THEN writer' = q
             ELSE to = "refused" /\ NoWrite /\ writer = None,
             OpsAt(from) \subseteq OpsAt(to),
             to \in {"insert", "stages"} => from \in {"allocate", "insert"},
             to = "commit" => from \in {"stages", "cancel_stages", "insert_config"},
             to \in {"insert", "stages", "commit", "refused", "cancel_stages", "insert_config"}
      PROVE  /\ Moves(q) /\ ControlOK(q)'
             /\ writer \in {None, q} /\ writer' \in {None, q}
             /\ writer' = None => draft' = db'
  <2>1. /\ Moves(q) /\ pc[q] = from /\ pc'[q] = to /\ call'[q] = call[q]
        /\ source'[q] = source[q] /\ answer'[q] = answer[q]
    BY <1>0, <1>2, GotoMoves
  <2>2. /\ from \notin {"idle", "done", "answer"}
        /\ to \notin {"idle", "done", "answer", "allocate"}
        /\ RunIds' = RunIds
    BY <1>1, <1>2 DEF InTransaction, RunIds
  <2>3. /\ writer \in {None, q} /\ writer' \in {None, q}
        /\ writer' = None => draft' = db'
    BY <1>0, <1>2, <2>1 DEF NoWrite
  <2>4. writer' = q <=> to \in InTransaction
    BY <1>0, <1>2 DEF NoWrite
  <2>5. pc'[q] \in {"allocate", "insert", "stages", "commit"} /\ call'[q].op = "retry"
        => source'[q] \in RunRows
    <3>1. CASE from \in {"allocate", "insert", "stages", "commit"}
      BY <1>0, <2>1, <3>1
    <3>2. CASE from \in {"cancel_stages", "insert_config"}
      BY <1>0, <2>1, <2>2, <3>2 DEF OpsAt
    <3>3. CASE from \in {"cancel", "replace"}
      BY <1>2, <2>1, <2>2, <3>3
    <3> QED
      BY <1>2, <3>1, <3>2, <3>3 DEF InTransaction
  <2> QED
    BY <1>0, <1>2, <2>1, <2>2, <2>3, <2>4, <2>5 DEF ControlOK
<1>3. ASSUME NEW from, NEW a \in Answers, Answer(q, from, a), a # "ok",
             \/ from \in {"allocate", "replace"} /\ writer = None /\ NoWrite
             \/ from = "insert_config" /\ Rollback(q)
      PROVE  /\ Moves(q) /\ ControlOK(q)'
             /\ writer \in {None, q} /\ writer' \in {None, q}
             /\ writer' = None => draft' = db'
  <2>1. /\ Moves(q) /\ pc[q] = from /\ pc'[q] = "done" /\ call'[q] = call[q]
        /\ source'[q] = source[q] /\ answer'[q] = a
    BY <1>0, <1>3, AnswerMoves
  <2>2. from \notin {"idle", "done", "answer"} /\ RunIds' = RunIds /\ "done" \notin InTransaction
    BY <1>1, <1>3 DEF InTransaction, RunIds
  <2>3. /\ writer \in {None, q} /\ writer' = None
        /\ draft' = db'
    BY <1>0, <1>3 DEF NoWrite, Rollback
  <2>4. call[q].op \in OpsAt("done")
    BY <2>1, <2>2, AtLabel DEF OpsAt
  <2> QED
    BY <1>0, <1>3, <2>1, <2>2, <2>3, <2>4 DEF ControlOK
<1>4. /\ OpsAt("allocate") \subseteq OpsAt("insert") /\ OpsAt("insert") \subseteq OpsAt("stages")
      /\ OpsAt("stages") \subseteq OpsAt("commit") /\ OpsAt("cancel") \subseteq OpsAt("refused")
      /\ OpsAt("cancel") \subseteq OpsAt("cancel_stages")
      /\ OpsAt("cancel_stages") \subseteq OpsAt("commit")
      /\ OpsAt("replace") \subseteq OpsAt("insert_config")
      /\ OpsAt("insert_config") \subseteq OpsAt("commit")
  BY DEF OpsAt
<1>5. /\ {"insert", "stages", "cancel_stages", "insert_config", "commit"} = InTransaction
      /\ "refused" \notin InTransaction
  BY DEF InTransaction
<1>6. CASE AllocateRunNumber(q)
  <2>1. CASE Goto(q, "allocate", "insert") /\ writer = None /\ writer' = q /\ UNCHANGED source
    BY <1>1, <1>2, <1>4, <1>5, <2>1, LabelKinds
  <2>2. CASE Answer(q, "allocate", "failed") /\ writer = None /\ NoWrite
    BY <1>0, <1>1, <1>3, <2>2
  <2> QED
    BY <1>6, <2>1, <2>2 DEF AllocateRunNumber, Begin
<1>7. CASE InsertRun(q)
  <2>1. Goto(q, "insert", "stages") /\ writer' = q /\ UNCHANGED source
    BY <1>7 DEF InsertRun, Write
  <2> QED
    BY <1>1, <1>2, <1>4, <1>5, <2>1, LabelKinds
<1>8. CASE SnapshotStages(q)
  <2>1. Goto(q, "stages", "commit") /\ writer' = q /\ UNCHANGED source
    BY <1>8 DEF SnapshotStages, Write
  <2> QED
    BY <1>1, <1>2, <1>4, <1>5, <2>1, LabelKinds
<1>9. CASE CancelRun(q)
  <2>1. CASE Goto(q, "cancel", "cancel_stages") /\ writer = None /\ writer' = q /\ UNCHANGED source
    BY <1>1, <1>2, <1>4, <1>5, <2>1, LabelKinds
  <2>2. CASE Goto(q, "cancel", "refused") /\ writer = None /\ NoWrite /\ UNCHANGED source
    BY <1>1, <1>2, <1>4, <1>5, <2>2, LabelKinds
  <2> QED
    BY <1>9, <2>1, <2>2 DEF CancelRun, Begin
<1>10. CASE CancelStages(q)
  <2>1. Goto(q, "cancel_stages", "commit") /\ writer' = q /\ UNCHANGED source
    BY <1>10 DEF CancelStages, Write
  <2> QED
    BY <1>1, <1>2, <1>4, <1>5, <2>1, LabelKinds
<1>11. CASE ReplaceConfig(q)
  <2>1. CASE Goto(q, "replace", "insert_config") /\ writer = None /\ writer' = q /\ UNCHANGED source
    BY <1>1, <1>2, <1>4, <1>5, <2>1, LabelKinds
  <2>2. CASE Answer(q, "replace", "failed") /\ writer = None /\ NoWrite
    BY <1>0, <1>1, <1>3, <2>2
  <2> QED
    BY <1>11, <2>1, <2>2 DEF ReplaceConfig, Begin
<1>12. CASE InsertConfig(q)
  <2>1. CASE Goto(q, "insert_config", "commit") /\ writer' = q /\ UNCHANGED source
    BY <1>1, <1>2, <1>4, <1>5, <2>1, LabelKinds
  <2>2. CASE Answer(q, "insert_config", "invalid") /\ Rollback(q)
    BY <1>0, <1>1, <1>3, <2>2
  <2> QED
    BY <1>12, <2>1, <2>2 DEF InsertConfig, Write
<1> QED
  BY <1>6, <1>7, <1>8, <1>9, <1>10, <1>11, <1>12 DEF Statement

-----------------------------------------------------------------------------
(* The invariant                                                           *)

\* The ends of the transactions, and the deletion of a project.
LEMMA CommitMove ==
  ASSUME CoreInv, NEW q \in Requests, Commit(q)
  PROVE  /\ Moves(q) /\ ControlOK(q)' /\ DraftOK(q)' /\ SourceOK(q)'
         /\ writer = q /\ writer' = None /\ draft' = db'
<1>1. /\ Moves(q) /\ pc[q] = "commit" /\ pc'[q] = "answer" /\ call'[q] = call[q]
      /\ source'[q] = source[q] /\ answer'[q] = answer[q]
  BY GotoMoves, LabelKinds DEF Commit, CoreInv
<1>2. writer = q /\ writer' = None /\ draft' = db' /\ q # None
  BY RunsAssumption DEF Commit
<1>3. /\ call[q] \in CallsOf[q] /\ call[q].op \in OpsAt("commit") /\ answer[q] # "ok"
      /\ OpsAt("commit") = OpsAt("answer") /\ "answer" \notin InTransaction
  BY <1>1 DEF CoreInv, Control, ControlOK, OpsAt, InTransaction
<1>4. ControlOK(q)'
  BY <1>1, <1>2, <1>3 DEF ControlOK
<1> QED
  BY <1>1, <1>2, <1>4 DEF DraftOK, SourceOK

LEMMA DeleteMove ==
  ASSUME CoreInv, NEW q \in Requests, DeleteProject(q)
  PROVE  /\ Moves(q) /\ ControlOK(q)' /\ DraftOK(q)' /\ SourceOK(q)'
         /\ writer = None /\ writer' = None
<1>1. PICK a \in Answers : Answer(q, "delete", a)
  BY DEF DeleteProject, Answers
<1>2. /\ Moves(q) /\ pc[q] = "delete" /\ pc'[q] = "done" /\ call'[q] = call[q]
      /\ source'[q] = source[q] /\ answer'[q] = a
  BY <1>1, AnswerMoves DEF CoreInv
<1>3. writer = None /\ writer' = None /\ q # None
  BY RunsAssumption DEF DeleteProject, Publish
<1>4. /\ call[q] \in CallsOf[q] /\ call[q].op \in OpsAt("done")
      /\ "done" \notin InTransaction
  BY <1>2, AtLabel DEF CoreInv, Control, ControlOK, OpsAt, InTransaction
<1>5. ControlOK(q)'
  BY <1>2, <1>3, <1>4 DEF ControlOK
<1> QED
  BY <1>2, <1>3, <1>5 DEF DraftOK, SourceOK

LEMMA RollbackMove ==
  ASSUME CoreInv, NEW q \in Requests, pc[q] \in InTransaction, Rollback(q),
         Answer(q, pc[q], "failed")
  PROVE  /\ Moves(q) /\ ControlOK(q)' /\ DraftOK(q)' /\ SourceOK(q)'
         /\ writer = q /\ writer' = None /\ db' = db /\ draft' = db' /\ draft' \in Rows
<1>1. "failed" \in Answers
  BY DEF Answers
<1>2. /\ Moves(q) /\ pc'[q] = "done" /\ call'[q] = call[q]
      /\ source'[q] = source[q] /\ answer'[q] = "failed"
  BY <1>1, AnswerMoves DEF CoreInv
<1>3. writer = q /\ writer' = None /\ q # None /\ db' = db /\ draft' = db /\ db \in Rows
  BY RunsAssumption DEF Rollback, CoreInv, Types
<1>4. /\ call[q] \in CallsOf[q] /\ call[q].op \in OpsAt("done")
      /\ "done" \notin InTransaction
  BY AtLabel DEF OpsAt, InTransaction
<1>5. ControlOK(q)'
  BY <1>2, <1>3, <1>4 DEF ControlOK
<1> QED
  BY <1>2, <1>3, <1>5 DEF DraftOK, SourceOK

\* What the requests that do not move know stays true.
LEMMA StillControl ==
  ASSUME CoreInv, NEW r \in Requests, Still(r), r \in RunIds' => r \in RunIds,
         writer' = r <=> writer = r
  PROVE  ControlOK(r)'
<1>1. ControlOK(r)
  BY DEF CoreInv, Control
<1> QED
  BY <1>1 DEF ControlOK, Still

LEMMA StillDraft ==
  ASSUME CoreInv, NEW r \in Requests, Still(r), writer = r => UNCHANGED <<db, draft>>
  PROVE  DraftOK(r)'
<1>1. DraftOK(r)
  BY DEF CoreInv
<1>2. CASE writer = r
  <2>1. UNCHANGED <<db, draft>> /\ RunIds' = RunIds
    BY <1>2 DEF RunIds
  <2>2. ProjectOf(r)' = ProjectOf(r)
    BY DEF ProjectOf, Still
  <2>3. Numbered(r)' <=> Numbered(r)
    BY <2>1, <2>2 DEF Numbered
  <2>4. \A s : Inserted(r, s)' = Inserted(r, s)
    BY <2>1, <2>2 DEF Inserted, InsertedRow, Still
  <2>5. StagesFor(r)' = StagesFor(r)
    BY <2>1, <2>2 DEF StagesFor, Still
  <2>6. \A s : Reconfigured(r, s)' <=> Reconfigured(r, s)
    BY <2>1 DEF Reconfigured, Still
  <2>7. \A s : Cancelled(r, s)' <=> Cancelled(r, s)
    BY <2>1 DEF Cancelled, Still
  <2>8. (draft.runs = Inserted(r, Fresh(StagesFor(r))))' <=>
          draft.runs = Inserted(r, Fresh(StagesFor(r)))
    BY <2>1, <2>4, <2>5
  <2>9. (draft.runs = Inserted(r, <<>>))' <=> draft.runs = Inserted(r, <<>>)
    BY <2>1, <2>4
  <2>10. /\ Cancelled(r, db.runs[call[r].run].stages)'
              <=> Cancelled(r, db.runs[call[r].run].stages)
         /\ Cancelled(r, Mark(db.runs[call[r].run].stages, "pending", "cancelled"))'
              <=> Cancelled(r, Mark(db.runs[call[r].run].stages, "pending", "cancelled"))
    BY <2>1, <2>7 DEF Still
  <2>11. /\ Reconfigured(r, <<>>)' <=> Reconfigured(r, <<>>)
         /\ Reconfigured(r, call[r].stages)' <=> Reconfigured(r, call[r].stages)
    BY <2>6 DEF Still
  <2> QED
    BY <1>1, <2>1, <2>3, <2>8, <2>9, <2>10, <2>11 DEF DraftOK, Still
<1>3. CASE writer # r
  <2>1. pc[r] \notin InTransaction
    BY <1>3 DEF CoreInv, Control, ControlOK
  <2> QED
    BY <1>1, <2>1 DEF DraftOK, Still, InTransaction
<1> QED
  BY <1>2, <1>3

\* A run that failed or was cancelled stays as it is, until its project goes.
LEMMA StoppedStays ==
  ASSUME CoreInv, RowsStep, NEW p \in db'.live, NEW r \in RunIds, db.runs[r].project = p
  PROVE  /\ p \in db.live /\ r \in RunIds'
         /\ db'.runs[r].project = p /\ db'.runs[r].number = db.runs[r].number
         /\ db.runs[r].status \in Final => db'.runs[r] = db.runs[r]
<1>1. CASE SameRows
  BY <1>1 DEF SameRows, RunIds
<1>2. ASSUME NEW q \in Requests, Inserts(q)
      PROVE  /\ p \in db.live /\ r \in RunIds' /\ db'.runs[r] = db.runs[r]
  <2>1. r # q
    BY <1>2 DEF Inserts, CoreInv, Control, ControlOK
  <2> QED
    BY <1>2, <2>1 DEF Inserts, Inserted, RunIds
<1>3. ASSUME NEW q \in Requests, Configures(q)
      PROVE  /\ p \in db.live /\ r \in RunIds' /\ db'.runs[r] = db.runs[r]
  BY <1>3 DEF Configures, RunIds
<1>4. ASSUME NEW s \in Requests, Updates(s)
      PROVE  /\ p \in db.live /\ r \in RunIds' /\ db'.runs[r].project = p
             /\ db'.runs[r].number = db.runs[r].number
             /\ db.runs[r].status \in Final => db'.runs[r] = db.runs[r]
  BY <1>4 DEF Updates, RunIds
<1>5. ASSUME NEW d \in Projects, Deletes(d)
      PROVE  /\ p \in db.live /\ r \in RunIds' /\ db'.runs[r] = db.runs[r]
  BY <1>5 DEF Deletes, RunIds
<1> QED
  BY <1>1, <1>2, <1>3, <1>4, <1>5 DEF RowsStep

Preparing == {"allocate", "insert", "stages", "commit"}

LEMMA SourceStays ==
  ASSUME CoreInv, RowsStep, NEW r \in Requests,
         call'[r] = call[r], source'[r] = source[r],
         pc'[r] \in Preparing /\ call[r].op = "retry" => pc[r] \in Preparing
  PROVE  SourceOK(r)'
<1> SUFFICES ASSUME pc'[r] \in Preparing, call[r].op = "retry", source[r].project \in db'.live
             PROVE  /\ call[r].run \in RunIds'
                    /\ db'.runs[call[r].run].project = source[r].project
                    /\ db'.runs[call[r].run].status \in Stopped
                    /\ db'.runs[call[r].run].commit = source[r].commit
  BY DEF SourceOK, Preparing
<1> DEFINE p == source[r].project
           s == call[r].run
<1>1. p \in db.live
  BY DEF RowsStep, SameRows, Inserts, Configures, Updates, Deletes
<1>2. /\ s \in RunIds /\ db.runs[s].project = p /\ db.runs[s].status \in Stopped
      /\ db.runs[s].commit = source[r].commit
  BY <1>1 DEF CoreInv, SourceOK, Preparing
<1>3. s \in RunIds' /\ db'.runs[s] = db.runs[s]
  BY <1>2, StoppedStays DEF Final
<1> QED
  BY <1>2, <1>3

\* A retry that found its run stopped.
LEMMA QuietSource ==
  ASSUME CoreInv, NEW q \in Requests, Quiet(q)
  PROVE  SourceOK(q)'
<1>1. UNCHANGED <<db, draft, writer>> /\ RunIds' = RunIds
  BY QuietStep DEF NoWrite, RunIds
<1>2. CASE pc'[q] \in Preparing /\ call'[q].op = "retry"
  <2>1. pc'[q] = "allocate" /\ (RetryCheck(q) \/ CreateCheck(q))
    BY <1>2 DEF Quiet, Receive, FirstStep, CreateCheck, RetryCheck, ListCheck, ListPage,
                CancelRefused, PutCheck, ReadBack, Answer, Goto, Preparing, CoreInv, Types
  <2>2. call'[q] = call[q] /\ RetryCheck(q)
    BY <1>2, <2>1 DEF RetryCheck, CreateCheck, Goto, Answer
  <2>3. /\ call[q].run \in RunIds /\ Retryable(call[q].run)
        /\ source'[q] = db.runs[call[q].run]
    BY <2>1, <2>2 DEF RetryCheck, Answer, CoreInv, Types
  <2> QED
    BY <1>1, <2>2, <2>3 DEF SourceOK, Retryable
<1>3. CASE ~(pc'[q] \in Preparing /\ call'[q].op = "retry")
  BY <1>3 DEF SourceOK, Preparing
<1> QED
  BY <1>2, <1>3

\* What the step of a request does to its state and to the rows.
RequestStep(q) ==
  /\ Moves(q) /\ ControlOK(q)' /\ DraftOK(q)' /\ SourceOK(q)'
  /\ db' \in Rows /\ draft' \in Rows
  /\ RowsStep
  /\ RunIds' \subseteq RunIds \cup {q}
  /\ UNCHANGED <<db, draft, writer>> \/ {writer, writer'} \subseteq {None, q}
  /\ writer' = None => draft' = db'

LEMMA SameRowsStep ==
  ASSUME UNCHANGED db
  PROVE  RowsStep /\ RunIds' = RunIds
BY DEF RowsStep, SameRows, RunIds

LEMMA NextRequest ==
  ASSUME CoreInv, NEW q \in Requests,
         Handle(q) \/ Abort(q) \/ \E c \in CallsOf[q] : Receive(q, c)
  PROVE  RequestStep(q)
<1>0. db \in Rows /\ draft \in Rows /\ (writer = None => draft = db)
  BY DEF CoreInv, Types, Control
<1>1. CASE Quiet(q)
  <2>1. UNCHANGED <<db, draft, writer>>
    BY <1>1, QuietStep DEF NoWrite
  <2> QED
    BY <1>0, <1>1, <2>1, QuietStep, QuietSource, SameRowsStep DEF RequestStep
<1>2. CASE Statement(q)
  <2>1. /\ db' = db /\ draft' \in Rows
        /\ Moves(q) /\ ControlOK(q)' /\ DraftOK(q)'
        /\ {writer, writer'} \subseteq {None, q}
        /\ writer' = None => draft' = db'
    BY <1>2, StatementStep
  <2>2. RowsStep /\ RunIds' = RunIds
    BY <2>1, SameRowsStep
  <2>3. call'[q] = call[q] /\ source'[q] = source[q]
    BY <1>2 DEF Statement, AllocateRunNumber, InsertRun, SnapshotStages, CancelRun,
                CancelStages, ReplaceConfig, InsertConfig, Goto, Answer
  <2>4. pc'[q] \in Preparing /\ call[q].op = "retry" => pc[q] \in Preparing
    <3>1. pc[q] # "idle" => call[q].op \in OpsAt(pc[q])
      BY AtLabel
    <3>2. CASE pc[q] \in {"cancel_stages", "insert_config"}
      BY <3>1, <3>2 DEF OpsAt
    <3>3. CASE pc[q] \notin {"cancel_stages", "insert_config"}
      BY <1>2, <3>3 DEF Statement, AllocateRunNumber, InsertRun, SnapshotStages, CancelRun,
                CancelStages, ReplaceConfig, InsertConfig, Goto, Answer, Preparing,
                CoreInv, Types
    <3> QED
      BY <3>2, <3>3
  <2>5. SourceOK(q)'
    BY <2>2, <2>3, <2>4, SourceStays
  <2> QED
    BY <1>0, <2>1, <2>2, <2>5 DEF RequestStep
<1>3. CASE Commit(q)
  <2>1. /\ db' \in Rows /\ draft' \in Rows
        /\ Inserts(q) \/ Configures(q) \/ \E r \in Requests : Updates(r)
    BY <1>3, CommitStep
  <2>2. RowsStep
    BY <2>1 DEF RowsStep
  <2>3. RunIds' \subseteq RunIds \cup {q}
    BY <2>1 DEF Inserts, Inserted, Configures, Updates, RunIds
  <2> QED
    BY <1>3, <2>1, <2>2, <2>3, CommitMove DEF RequestStep
<1>4. CASE DeleteProject(q)
  <2>1. db' \in Rows /\ draft' = db' /\ \E p \in Projects : Deletes(p)
    BY <1>4, DeleteStep
  <2>2. RowsStep /\ RunIds' \subseteq RunIds
    BY <2>1 DEF RowsStep, Deletes, RunIds
  <2> QED
    BY <1>4, <2>1, <2>2, DeleteMove DEF RequestStep
<1>5. CASE pc[q] \in InTransaction /\ Rollback(q) /\ Answer(q, pc[q], "failed")
  BY <1>0, <1>5, RollbackMove, SameRowsStep DEF RequestStep
<1> QED
  BY <1>1, <1>2, <1>3, <1>4, <1>5 DEF Handle, Abort, Quiet, Statement

\* The step of the engine.
EngineMoves ==
  \/ \E r \in RunIds : EngineClaim(r)
  \/ \E r \in RunIds, commit \in Commits : EngineRecord(r, commit)
  \/ \E r \in RunIds, status \in Final : EngineSettle(r, status)

LEMMA NextEngine ==
  ASSUME CoreInv, EngineMoves
  PROVE  /\ db' \in Rows /\ draft' = db' /\ RowsStep /\ RunIds' = RunIds
         /\ UNCHANGED <<writer, pc, call, source, pages, answer>> /\ writer = None
<1>1. db' \in Rows /\ draft' = db' /\ \E r \in RunIds : Updates(r)
  BY ClaimStep, RecordStep, SettleStep DEF EngineMoves
<1>2. RunIds \subseteq Requests
  BY RunTypes DEF CoreInv
<1>3. RowsStep /\ RunIds' = RunIds
  BY <1>1, <1>2 DEF RowsStep, Updates, RunIds
<1>4. UNCHANGED <<writer, pc, call, source, pages, answer>> /\ writer = None
  BY DEF EngineMoves, EngineClaim, EngineRecord, EngineSettle, Publish, EngineIdle
<1> QED
  BY <1>1, <1>3, <1>4

LEMMA NextCases ==
  ASSUME CoreInv, [Next]_vars
  PROVE  (\E q \in Requests : RequestStep(q)) \/ EngineMoves \/ UNCHANGED vars
BY NextRequest DEF Next, EngineMoves, Terminated

LEMMA NextCore ==
  ASSUME CoreInv, [Next]_vars
  PROVE  CoreInv' /\ RowsStep
<1>1. ASSUME NEW q \in Requests, RequestStep(q)
      PROVE  CoreInv' /\ RowsStep
  <2>1. writer' \in Requests \cup {None}
    BY <1>1 DEF RequestStep, CoreInv, Types
  <2>2. Types'
    BY <1>1, <2>1 DEF RequestStep, Moves, Types
  <2>3. ASSUME NEW r \in Requests, r # q
        PROVE  ControlOK(r)' /\ DraftOK(r)' /\ SourceOK(r)'
    <3>1. Still(r) /\ (r \in RunIds' => r \in RunIds) /\ r # None
      BY <1>1, <2>3, RunsAssumption DEF RequestStep, Moves
    <3>2. /\ writer' = r <=> writer = r
          /\ writer = r => UNCHANGED <<db, draft>>
      BY <1>1, <2>3, <3>1 DEF RequestStep
    <3>3. SourceOK(r)'
      BY <1>1, <3>1, SourceStays DEF RequestStep, Still
    <3> QED
      BY <3>1, <3>2, <3>3, StillControl, StillDraft
  <2>4. /\ (writer = None => draft = db)'
        /\ \A r \in Requests : ControlOK(r)' /\ DraftOK(r)' /\ SourceOK(r)'
    <3>1. writer = None => draft = db
      BY DEF CoreInv, Control
    <3>2. (writer = None => draft = db)'
      BY <1>1, <3>1 DEF RequestStep
    <3> QED
      BY <1>1, <2>3, <3>2 DEF RequestStep
  <2> QED
    BY <1>1, <2>2, <2>4 DEF CoreInv, Control, RequestStep
<1>2. CASE EngineMoves
  <2>1. /\ db' \in Rows /\ draft' = db' /\ RowsStep /\ RunIds' = RunIds
        /\ UNCHANGED <<writer, pc, call, source, pages, answer>> /\ writer = None
    BY <1>2, NextEngine
  <2>2. Types'
    BY <2>1 DEF CoreInv, Types
  <2>3. ASSUME NEW r \in Requests
        PROVE  ControlOK(r)' /\ DraftOK(r)' /\ SourceOK(r)'
    <3>1. Still(r) /\ r # None
      BY <2>1, RunsAssumption DEF Still
    <3> QED
      BY <2>1, <3>1, StillControl, StillDraft, SourceStays DEF Still
  <2> QED
    BY <2>1, <2>2, <2>3 DEF CoreInv, Control
<1>3. CASE UNCHANGED vars
  <2>1. RowsStep /\ RunIds' = RunIds
    BY <1>3, SameRowsStep DEF vars
  <2>2. Types'
    BY <1>3 DEF CoreInv, Types, vars
  <2>3. ASSUME NEW r \in Requests
        PROVE  ControlOK(r)' /\ DraftOK(r)' /\ SourceOK(r)'
    <3>1. Still(r)
      BY <1>3 DEF Still, vars
    <3> QED
      BY <1>3, <2>1, <3>1, StillControl, StillDraft, SourceStays DEF Still, vars
  <2> QED
    BY <1>3, <2>1, <2>2, <2>3 DEF CoreInv, Control, vars
<1> QED
  BY <1>1, <1>2, <1>3, NextCases

LEMMA InitCore ==
  ASSUME Init
  PROVE  CoreInv
<1>1. InitialRows \in Rows
  <2>1. <<>> \in RunTables
    <3>1. <<>> \in Seq(RunRows) /\ Len(<<>>) = 0
      OBVIOUS
    <3>2. <<>> \in [1 .. Len(<<>>) -> RunRows] /\ 1 .. 0 = {}
      BY <3>1, LenProperties
    <3>3. <<>> \in [{} -> RunRows]
      BY <3>1, <3>2
    <3> QED
      BY <3>3 DEF RunTables
  <2> QED
    BY <2>1, RunsAssumption DEF InitialRows, Rows
<1>2. Types
  BY <1>1, LabelKinds, RunsAssumption DEF Init, Types
<1>3. RunIds = {}
  BY DEF Init, InitialRows, RunIds
<1>4. /\ None \notin Requests /\ None # "ok" /\ "idle" \notin InTransaction
  BY RunsAssumption DEF Answers, InTransaction
<1>5. Control
  BY <1>3, <1>4 DEF Control, ControlOK, Init
<1> QED
  BY <1>2, <1>5 DEF CoreInv, DraftOK, SourceOK, Init

LEMMA CoreInvariant == Spec => []CoreInv
<1>1. Init => CoreInv
  BY InitCore
<1>2. CoreInv /\ [Next]_vars => CoreInv'
  BY NextCore
<1> QED
  BY <1>1, <1>2, PTL DEF Spec

\* Every state is of the form TypeOK gives it: the rows as published and as
\* the one open transaction sees them, and a request at each of its labels.
LEMMA TypeInvariant == Spec => []TypeOK
<1>1. CoreInv => TypeOK
  <2> SUFFICES ASSUME CoreInv PROVE TypeOK
    OBVIOUS
  <2>1. RowsOK(db) /\ RowsOK(draft)
    BY RunTypes DEF CoreInv, Types, Rows, RowsOK, RunIds
  <2> QED
    BY <2>1 DEF CoreInv, Types, Control, ControlOK, TypeOK, Labels
<1> QED
  BY <1>1, CoreInvariant, PTL

-----------------------------------------------------------------------------
(* What the properties need beyond the core                                *)

\* A cancellation about to be confirmed, or confirmed.
CancelInv(q) ==
  /\ pc[q] = "answer" \/ answer[q] = "ok"
  /\ call[q].op = "cancel"
  => /\ pc[call[q].run] \in {"answer", "done"}
     /\ call[q].run \in RunIds =>
          /\ db.runs[call[q].run].status = "cancelled"
          /\ \A i \in DOMAIN db.runs[call[q].run].stages :
               db.runs[call[q].run].stages[i].status # "pending"

\* Runs of the project that are listed before r.
Rank(r) == db.counter[db.runs[r].project] - db.runs[r].number

\* What a client that lists has not been given yet lies ahead of it.
ListInv(q) ==
  /\ call[q] = None => pages[q].due = {}
  /\ call[q] # None /\ call[q].op = "list" /\ call[q].project \in db.live =>
       /\ pc[q] \in {"check", "list"} => \A r \in pages[q].due \ pages[q].given :
            r \in RunsOf(call[q].project) /\ Rank(r) >= pages[q].offset
       /\ answer[q] = "ok" => pages[q].due \subseteq pages[q].given

-----------------------------------------------------------------------------
(* Configurations                                                          *)

LEMMA WholeStep ==
  ASSUME CoreInv, RowsStep
  PROVE  \A r \in DOMAIN db'.runs \ RunIds :
           LET row == db'.runs[r]
           IN row.retryOf = None => Content(row.stages) = db.config[row.project]
<1> SUFFICES ASSUME NEW r \in DOMAIN db'.runs \ RunIds, db'.runs[r].retryOf = None
             PROVE  Content(db'.runs[r].stages) = db.config[db'.runs[r].project]
  OBVIOUS
<1>1. PICK q \in Requests : Inserts(q)
  BY DEF RowsStep, SameRows, Configures, Updates, Deletes, RunIds
<1>2. r = q /\ db'.runs[r] = InsertedRow(q, Fresh(StagesFor(q)))
  BY <1>1 DEF Inserts, Inserted
<1>3. call[q].op = "retry" => call[q].run # None
  <2>1. pc[q] # "idle"
    BY <1>1 DEF Inserts
  <2> QED
    BY <2>1, AtLabel, RunsAssumption
<1>4. call[q].op = "create"
  BY <1>1, <1>2, <1>3 DEF InsertedRow, Inserts
<1>5. Content(Fresh(StagesFor(q))) = db.config[ProjectOf(q)]
  BY <1>1, <1>4, StagesForType DEF Inserts
<1> QED
  BY <1>2, <1>5 DEF InsertedRow

\* A run appears together with all the stages of one configuration, the one
\* that is published when its transaction commits.
THEOREM RunsAppearWhole == Spec => SnapshotWhole
<1>1. CoreInv /\ [Next]_vars =>
        [\A r \in DOMAIN db'.runs \ RunIds :
           LET row == db'.runs[r]
           IN row.retryOf = None => Content(row.stages) = db.config[row.project]]_vars
  BY NextCore, WholeStep
<1> QED
  BY <1>1, CoreInvariant, PTL DEF Spec, SnapshotWhole

LEMMA ConfigStep ==
  ASSUME CoreInv, RowsStep
  PROVE  \A p \in db'.live : db.config[p] # <<>> => db'.config[p] # <<>>
<1> SUFFICES ASSUME NEW p \in db'.live, db.config[p] # <<>> PROVE db'.config[p] # <<>>
  OBVIOUS
<1>1. db.config \in [Projects -> Seq(StageInputs)] /\ db.live \subseteq Projects
  BY DEF CoreInv, Types, Rows
<1>2. ASSUME NEW q \in Requests, Configures(q) PROVE db'.config[p] # <<>>
  BY <1>1, <1>2 DEF Configures
<1>3. ASSUME NEW d \in Projects, Deletes(d) PROVE db'.config[p] # <<>>
  BY <1>1, <1>3 DEF Deletes
<1> QED
  BY <1>2, <1>3 DEF RowsStep, SameRows, Inserts, Updates

\* Only another accepted configuration, or the end of the project, takes a
\* configuration away.
THEOREM ConfigurationKept == Spec => ConfigNeverLost
<1>1. CoreInv /\ [Next]_vars =>
        [\A p \in db'.live : db.config[p] # <<>> => db'.config[p] # <<>>]_vars
  BY NextCore, ConfigStep
<1> QED
  BY <1>1, CoreInvariant, PTL DEF Spec, ConfigNeverLost

-----------------------------------------------------------------------------
(* Numbers                                                                 *)

NumbersOK(p) ==
  /\ {db.runs[r].number : r \in RunsOf(p)} = 1 .. db.counter[p]
  /\ \A r, s \in RunsOf(p) : db.runs[r].number = db.runs[s].number => r = s
  /\ p \notin db.live => db.counter[p] = 0 /\ db.config[p] = <<>>

LEMMA NumbersFrame ==
  ASSUME NEW p, NumbersOK(p), RunsOf(p)' = RunsOf(p),
         \A r \in RunsOf(p) : db'.runs[r].number = db.runs[r].number,
         db'.counter[p] = db.counter[p],
         p \in db'.live \/ (p \notin db.live /\ db'.config[p] = db.config[p])
  PROVE  NumbersOK(p)'
<1>1. {db'.runs[r].number : r \in RunsOf(p)'} = {db.runs[r].number : r \in RunsOf(p)}
  OBVIOUS
<1> QED
  BY <1>1 DEF NumbersOK

LEMMA NextNumbers ==
  ASSUME CoreInv, RowsStep, NEW p \in Projects, NumbersOK(p)
  PROVE  NumbersOK(p)'
<1>0. /\ db.counter \in [Projects -> Nat] /\ db.config \in [Projects -> Seq(StageInputs)]
      /\ db.live \subseteq Projects
      /\ \A r \in RunIds : db.runs[r].number \in Nat \ {0}
  BY RunTypes DEF CoreInv, Types, Rows, RunRows
<1>1. CASE SameRows
  BY <1>1, NumbersFrame DEF SameRows, RunsOf, RunIds
<1>2. ASSUME NEW q \in Requests, Inserts(q)
      PROVE  NumbersOK(p)'
  <2> DEFINE P == ProjectOf(q)
  <2>1. /\ q \notin RunIds /\ RunIds' = RunIds \cup {q}
        /\ \A r \in RunIds : db'.runs[r] = db.runs[r]
        /\ db'.runs[q].project = P /\ db'.runs[q].number = db.counter[P] + 1
        /\ P \in db.live /\ P \in Projects
    <3>1. q \notin RunIds /\ P \in db.live /\ P \in Projects
      BY <1>0, <1>2 DEF Inserts, CoreInv, Control, ControlOK
    <3>2. db'.runs = Inserted(q, Fresh(StagesFor(q)))
      BY <1>2 DEF Inserts
    <3>3. /\ DOMAIN db'.runs = RunIds \cup {q}
          /\ db'.runs[q] = InsertedRow(q, Fresh(StagesFor(q)))
          /\ \A r \in RunIds : r # q => db'.runs[r] = db.runs[r]
      BY <3>2 DEF Inserted
    <3>4. /\ InsertedRow(q, Fresh(StagesFor(q))).project = P
          /\ InsertedRow(q, Fresh(StagesFor(q))).number = db.counter[P] + 1
      BY DEF InsertedRow
    <3> QED
      BY <3>1, <3>3, <3>4 DEF RunIds
  <2>2. CASE p # P
    <3>1. RunsOf(p)' = RunsOf(p)
      BY <2>1, <2>2 DEF RunsOf
    <3> QED
      BY <1>0, <1>2, <2>1, <2>2, <3>1, NumbersFrame DEF Inserts, RunsOf
  <2>3. CASE p = P
    <3>1. RunsOf(p)' = RunsOf(p) \cup {q} /\ q \notin RunsOf(p)
      BY <2>1, <2>3 DEF RunsOf
    <3>2. db'.counter[p] = db.counter[p] + 1 /\ db.counter[p] \in Nat /\ db'.live = db.live
      BY <1>0, <1>2, <2>3 DEF Inserts
    <3>3. \A r \in RunsOf(p) : /\ db'.runs[r].number = db.runs[r].number
                               /\ db.runs[r].number \in 1 .. db.counter[p]
      BY <2>1 DEF NumbersOK, RunsOf
    <3>4. {db'.runs[r].number : r \in RunsOf(p)'}
            = {db.runs[r].number : r \in RunsOf(p)} \cup {db.counter[p] + 1}
      BY <2>1, <2>3, <3>1, <3>3
    <3>5. {db'.runs[r].number : r \in RunsOf(p)'} = 1 .. db'.counter[p]
      <4>1. {db.runs[r].number : r \in RunsOf(p)} = 1 .. db.counter[p]
        BY DEF NumbersOK
      <4>2. \A n \in Nat : (1 .. n) \cup {n + 1} = 1 .. (n + 1)
        OBVIOUS
      <4> QED
        BY <3>2, <3>4, <4>1, <4>2
    <3>6. \A r, s \in RunsOf(p)' : db'.runs[r].number = db'.runs[s].number => r = s
      BY <2>1, <2>3, <3>1, <3>2, <3>3 DEF NumbersOK
    <3> QED
      BY <2>1, <2>3, <3>2, <3>5, <3>6 DEF NumbersOK
  <2> QED
    BY <2>2, <2>3
<1>3. ASSUME NEW q \in Requests, Configures(q)
      PROVE  NumbersOK(p)'
  <2>1. RunsOf(p)' = RunsOf(p) /\ db'.runs = db.runs
    BY <1>3 DEF Configures, RunsOf, RunIds
  <2>2. p \notin db.live => db'.config[p] = db.config[p]
    BY <1>0, <1>3 DEF Configures
  <2>3. db'.live = db.live /\ db'.counter = db.counter
    BY <1>3 DEF Configures
  <2>4. /\ p \in db'.live \/ (p \notin db.live /\ db'.config[p] = db.config[p])
        /\ \A r \in RunsOf(p) : db'.runs[r].number = db.runs[r].number
        /\ db'.counter[p] = db.counter[p]
    BY <2>1, <2>2, <2>3
  <2> QED
    BY <2>1, <2>4, NumbersFrame
<1>4. ASSUME NEW s \in Requests, Updates(s)
      PROVE  NumbersOK(p)'
  <2>1. /\ RunIds' = RunIds
        /\ \A r \in RunIds : /\ db'.runs[r].project = db.runs[r].project
                             /\ db'.runs[r].number = db.runs[r].number
    BY <1>4 DEF Updates, RunIds
  <2>2. RunsOf(p)' = RunsOf(p)
    BY <2>1 DEF RunsOf
  <2> QED
    BY <1>4, <2>1, <2>2, NumbersFrame DEF Updates, RunsOf
<1>5. ASSUME NEW d \in Projects, Deletes(d)
      PROVE  NumbersOK(p)'
  <2>1. CASE p = d
    <3>1. RunsOf(p)' = {}
      BY <1>5, <2>1 DEF Deletes, RunsOf, RunIds
    <3>2. db'.counter[p] = 0 /\ db'.config[p] = <<>>
      BY <1>0, <1>5, <2>1 DEF Deletes
    <3> QED
      BY <3>1, <3>2 DEF NumbersOK
  <2>2. CASE p # d
    <3>1. RunsOf(p)' = RunsOf(p) /\ \A r \in RunsOf(p) : db'.runs[r] = db.runs[r]
      BY <1>5, <2>2 DEF Deletes, RunsOf, RunIds
    <3>2. /\ db'.counter[p] = db.counter[p] /\ db'.config[p] = db.config[p]
          /\ p \in db'.live <=> p \in db.live
      BY <1>0, <1>5, <2>2 DEF Deletes
    <3> QED
      BY <3>1, <3>2, NumbersFrame
  <2> QED
    BY <2>1, <2>2
<1> QED
  BY <1>1, <1>2, <1>3, <1>4, <1>5 DEF RowsStep

\* A run belongs to a project that exists.
LEMMA LiveRows ==
  ASSUME NEW rows \in Rows, NEW r \in DOMAIN rows.runs,
         \A p \in Projects :
           /\ {rows.runs[s].number : s \in {x \in DOMAIN rows.runs : rows.runs[x].project = p}}
                = 1 .. rows.counter[p]
           /\ p \notin rows.live => rows.counter[p] = 0
  PROVE  rows.runs[r].project \in rows.live
<1> DEFINE p == rows.runs[r].project
<1>1. p \in Projects
  BY TableForm DEF Rows, RunRows
<1>2. rows.runs[r].number \in 1 .. rows.counter[p]
  BY <1>1
<1>3. rows.counter[p] # 0
  BY <1>2
<1> QED
  BY <1>1, <1>3

LEMMA NumbersInvariant == Spec => []NumbersContiguous
<1>1. Init => NumbersContiguous
  <2> SUFFICES ASSUME Init PROVE NumbersContiguous
    OBVIOUS
  <2>1. \A p : RunsOf(p) = {}
    BY DEF Init, InitialRows, RunsOf, RunIds
  <2> QED
    BY <2>1 DEF NumbersContiguous, Init, InitialRows
<1>2. CoreInv /\ NumbersContiguous /\ [Next]_vars => NumbersContiguous'
  <2>1. NumbersContiguous <=> \A p \in Projects : NumbersOK(p)
    BY DEF NumbersContiguous, NumbersOK
  <2>2. NumbersContiguous' <=> \A p \in Projects : NumbersOK(p)'
    BY DEF NumbersContiguous, NumbersOK
  <2> QED
    BY <2>1, <2>2, NextCore, NextNumbers
<1> QED
  BY <1>1, <1>2, CoreInvariant, PTL DEF Spec

\* The runs of every project are numbered from 1 without a gap or a
\* repetition, and nothing of a project outlives it, nor a handler's hold on
\* the write lock the handler.
THEOREM NumbersHaveNoGap == Spec => []RunsInv
BY TypeInvariant, NumbersInvariant, PTL DEF RunsInv

-----------------------------------------------------------------------------
(* Retries                                                                 *)

RetryOK(r) ==
  db.runs[r].retryOf # None =>
    LET row == db.runs[r]
        origin == db.runs[row.retryOf]
    IN /\ row.retryOf \in RunIds /\ origin.project = row.project
       /\ origin.status \in Stopped
       /\ Content(row.stages) = Content(origin.stages)
       /\ ~row.synced => row.commit = origin.commit

\* A run that was there before the step.
LEMMA RetryStays ==
  ASSUME CoreInv, RowsStep, NEW r \in RunIds, RetryOK(r), r \in RunIds',
         db'.runs[r].project \in db'.live
  PROVE  RetryOK(r)'
<1>1. /\ db'.runs[r].project = db.runs[r].project
      /\ db'.runs[r].retryOf = db.runs[r].retryOf
      /\ Content(db'.runs[r].stages) = Content(db.runs[r].stages)
      /\ ~db'.runs[r].synced => ~db.runs[r].synced /\ db'.runs[r].commit = db.runs[r].commit
  <2>1. ASSUME NEW q \in Requests, Inserts(q) PROVE db'.runs[r] = db.runs[r]
    <3>1. r # q
      BY <2>1 DEF Inserts, CoreInv, Control, ControlOK
    <3> QED
      BY <2>1, <3>1 DEF Inserts, Inserted
  <2>2. ASSUME NEW q \in Requests, Configures(q) PROVE db'.runs[r] = db.runs[r]
    BY <2>2 DEF Configures
  <2>3. ASSUME NEW d \in Projects, Deletes(d) PROVE db'.runs[r] = db.runs[r]
    BY <2>3 DEF Deletes, RunIds
  <2>4. ASSUME NEW s \in Requests, Updates(s), s # r PROVE db'.runs[r] = db.runs[r]
    BY <2>4 DEF Updates
  <2>5. ASSUME Updates(r)
        PROVE  /\ db'.runs[r].project = db.runs[r].project
               /\ db'.runs[r].retryOf = db.runs[r].retryOf
               /\ Content(db'.runs[r].stages) = Content(db.runs[r].stages)
               /\ ~db'.runs[r].synced =>
                    ~db.runs[r].synced /\ db'.runs[r].commit = db.runs[r].commit
    BY <2>5 DEF Updates
  <2>6. CASE db'.runs[r] = db.runs[r]
    BY <2>6
  <2> QED
    BY <2>1, <2>2, <2>3, <2>4, <2>5, <2>6 DEF RowsStep, SameRows
<1>2. CASE db.runs[r].retryOf = None
  BY <1>1, <1>2 DEF RetryOK
<1>3. CASE db.runs[r].retryOf # None
  <2> DEFINE o == db.runs[r].retryOf
  <2>1. /\ o \in RunIds /\ db.runs[o].project = db.runs[r].project
        /\ db.runs[o].status \in Stopped
        /\ Content(db.runs[r].stages) = Content(db.runs[o].stages)
        /\ ~db.runs[r].synced => db.runs[r].commit = db.runs[o].commit
    BY <1>3 DEF RetryOK
  <2>2. o \in RunIds' /\ db'.runs[o] = db.runs[o]
    BY <1>1, <2>1, StoppedStays DEF Final
  <2> QED
    BY <1>1, <2>1, <2>2 DEF RetryOK
<1> QED
  BY <1>2, <1>3

LEMMA NextRetry ==
  ASSUME CoreInv, NumbersContiguous', RowsStep, CoreInv', \A r \in RunIds : RetryOK(r)
  PROVE  \A r \in RunIds' : RetryOK(r)'
<1> SUFFICES ASSUME NEW r \in RunIds' PROVE RetryOK(r)'
  OBVIOUS
<1>1. db'.runs[r].project \in db'.live
  <2>1. db' \in Rows /\ r \in DOMAIN db'.runs
    BY DEF CoreInv, Types, RunIds
  <2>2. \A p \in Projects :
          /\ {db'.runs[s].number : s \in {x \in DOMAIN db'.runs : db'.runs[x].project = p}}
               = 1 .. db'.counter[p]
          /\ p \notin db'.live => db'.counter[p] = 0
    BY DEF NumbersContiguous, RunsOf, RunIds
  <2> QED
    BY <2>1, <2>2, LiveRows
<1>2. CASE r \in RunIds
  BY <1>1, <1>2, RetryStays
<1>3. CASE r \notin RunIds
  <2>1. PICK q \in Requests : Inserts(q)
    BY <1>3 DEF RowsStep, SameRows, Configures, Updates, Deletes, RunIds
  <2>2. /\ r = q /\ db'.runs[r] = InsertedRow(q, Fresh(StagesFor(q)))
        /\ q \notin RunIds /\ RunIds' = RunIds \cup {q}
        /\ \A s \in RunIds : db'.runs[s] = db.runs[s]
    <3>1. db'.runs = Inserted(q, Fresh(StagesFor(q)))
      BY <2>1 DEF Inserts
    <3>2. /\ DOMAIN db'.runs = RunIds \cup {q}
          /\ db'.runs[q] = InsertedRow(q, Fresh(StagesFor(q)))
          /\ \A s \in RunIds : s # q => db'.runs[s] = db.runs[s]
      BY <3>1 DEF Inserted
    <3> QED
      BY <1>3, <3>2 DEF RunIds
  <2>3. CASE call[q].op = "create"
    BY <2>2, <2>3 DEF RetryOK, InsertedRow
  <2>4. CASE call[q].op = "retry"
    <3> DEFINE o == call[q].run
    <3>1. /\ o \in RunIds /\ db.runs[o].project = ProjectOf(q)
          /\ db.runs[o].status \in Stopped /\ db.runs[o].commit = source[q].commit
      BY <2>1, <2>4, SourceRun DEF Inserts
    <3>2. Content(Fresh(StagesFor(q))) = Content(db.runs[o].stages)
      <4>1. Content(Fresh(StagesFor(q))) = Content(StagesFor(q))
        BY <2>1, StagesForType DEF Inserts
      <4> QED
        BY <2>4, <4>1 DEF StagesFor
    <3>3. /\ db'.runs[r].retryOf = o /\ db'.runs[r].project = ProjectOf(q)
          /\ db'.runs[r].commit = source[q].commit
          /\ db'.runs[r].stages = Fresh(StagesFor(q))
      BY <2>2, <2>4 DEF InsertedRow
    <3>4. o \in RunIds' /\ db'.runs[o] = db.runs[o]
      BY <2>2, <3>1
    <3> QED
      BY <3>1, <3>2, <3>3, <3>4 DEF RetryOK
  <2> QED
    BY <2>1, <2>3, <2>4 DEF Inserts
<1> QED
  BY <1>2, <1>3

RetryInv == \A r \in RunIds : RetryOK(r)

LEMMA RetryInvariant == Spec => []RetryInv
<1>1. Init => RetryInv
  BY DEF Init, InitialRows, RunIds, RetryInv
<1>2. CoreInv /\ CoreInv' /\ NumbersContiguous' /\ RetryInv /\ [Next]_vars => RetryInv'
  BY NextCore, NextRetry DEF RetryInv
<1> QED
  BY <1>1, <1>2, CoreInvariant, NumbersInvariant, PTL DEF Spec

\* A retry is of a run of its project that failed or was cancelled, although
\* its status was read before the transaction, and has the stages of that run
\* and, until the engine records its own, the commit.
THEOREM RetriesRepeat == Spec => []RetrySameSnapshot
<1>1. RetryInv => RetrySameSnapshot
  BY DEF RetryInv, RetryOK, RetrySameSnapshot, RunsOf
<1> QED
  BY <1>1, RetryInvariant, PTL

-----------------------------------------------------------------------------
(* Cancellations                                                           *)

\* A request that answered, or is about to, stays there.
LEMMA EndedStays ==
  ASSUME CoreInv, [Next]_vars, NEW r \in Requests, pc[r] \in {"answer", "done"}
  PROVE  pc'[r] \in {"answer", "done"} /\ call'[r] = call[r]
<1>1. ASSUME NEW q \in Requests, q # r, RequestStep(q)
      PROVE  pc'[r] = pc[r] /\ call'[r] = call[r]
  BY <1>1 DEF RequestStep, Moves, Still
<1>2. ASSUME Handle(r) \/ Abort(r) \/ \E c \in CallsOf[r] : Receive(r, c)
      PROVE  pc'[r] \in {"answer", "done"} /\ call'[r] = call[r]
  BY <1>2 DEF Handle, Abort, Receive, CreateCheck, RetryCheck, ListCheck, ListPage,
     AllocateRunNumber, InsertRun, SnapshotStages, CancelRun, CancelStages, CancelRefused,
     PutCheck, ReplaceConfig, InsertConfig, DeleteProject, Commit, ReadBack, Goto, Answer,
     BeforeTransaction, InTransaction, CoreInv, Types
<1>3. EngineMoves \/ UNCHANGED vars => pc' = pc /\ call' = call
  BY NextEngine DEF vars
<1> QED
  BY <1>1, <1>2, <1>3, NextRequest DEF Next, EngineMoves, Terminated

\* How a cancellation comes to its answer.
LEMMA CancelMoves ==
  ASSUME CoreInv, [Next]_vars, NEW q \in Requests, call'[q].op = "cancel",
         pc'[q] = "answer" \/ answer'[q] = "ok", ~(pc[q] = "answer" \/ answer[q] = "ok")
  PROVE  Commit(q) /\ call'[q] = call[q]
<1>1. ASSUME NEW p \in Requests, p # q, RequestStep(p)
      PROVE  FALSE
  BY <1>1 DEF RequestStep, Moves, Still
<1>2. EngineMoves \/ UNCHANGED vars => FALSE
  BY NextEngine DEF vars
<1>3. Handle(q) \/ Abort(q) \/ \E c \in CallsOf[q] : Receive(q, c)
  BY <1>1, <1>2, NextRequest DEF Next, EngineMoves, Terminated
<1>4. CASE ListPage(q) \/ DeleteProject(q)
  <2>1. pc[q] \in {"list", "delete"} /\ call'[q] = call[q]
    BY <1>4 DEF ListPage, DeleteProject, Answer
  <2>2. call[q].op \in OpsAt(pc[q])
    BY <2>1, AtLabel
  <2> QED
    BY <2>1, <2>2 DEF OpsAt
<1>5. CASE ~(ListPage(q) \/ DeleteProject(q))
  BY <1>3, <1>5, RunsAssumption DEF Handle, Abort, Receive, FirstStep, CreateCheck, RetryCheck,
     ListCheck,
     AllocateRunNumber, InsertRun, SnapshotStages, CancelRun, CancelStages, CancelRefused,
     PutCheck, ReplaceConfig, InsertConfig, Commit, ReadBack, Goto, Answer,
     CoreInv, Types
<1> QED
  BY <1>4, <1>5

LEMMA CancelledStays ==
  ASSUME CoreInv, RowsStep, NEW r \in RunIds, r \in RunIds',
         db.runs[r].status \in Final
  PROVE  db'.runs[r] = db.runs[r]
<1>1. ASSUME NEW q \in Requests, Inserts(q) PROVE db'.runs[r] = db.runs[r]
  <2>1. r # q
    BY <1>1 DEF Inserts, CoreInv, Control, ControlOK
  <2> QED
    BY <1>1, <2>1 DEF Inserts, Inserted
<1>2. ASSUME NEW s \in Requests, Updates(s) PROVE db'.runs[r] = db.runs[r]
  BY <1>2 DEF Updates
<1> QED
  BY <1>1, <1>2 DEF RowsStep, SameRows, Configures, Deletes, RunIds

LEMMA NextCancel ==
  ASSUME CoreInv, [Next]_vars, NEW q \in Requests, CancelInv(q)
  PROVE  CancelInv(q)'
<1> SUFFICES ASSUME pc'[q] = "answer" \/ answer'[q] = "ok", call'[q].op = "cancel"
             PROVE  /\ pc'[call'[q].run] \in {"answer", "done"}
                    /\ call'[q].run \in RunIds' =>
                         /\ db'.runs[call'[q].run].status = "cancelled"
                         /\ \A i \in DOMAIN db'.runs[call'[q].run].stages :
                              db'.runs[call'[q].run].stages[i].status # "pending"
  BY DEF CancelInv
<1>0. RowsStep
  BY NextCore
<1>1. CASE pc[q] = "answer" \/ answer[q] = "ok"
  <2> DEFINE r == call[q].run
  <2>1. pc[q] \in {"answer", "done"}
    BY <1>1 DEF CoreInv, Control, ControlOK
  <2>2. call'[q] = call[q]
    BY <2>1, EndedStays
  <2>3. r \in Requests
    BY <2>1, <2>2, AtLabel
  <2>4. pc[r] \in {"answer", "done"}
    BY <1>1, <2>2 DEF CancelInv
  <2>5. pc'[r] \in {"answer", "done"}
    BY <2>3, <2>4, EndedStays
  <2>6. ASSUME r \in RunIds'
        PROVE  /\ db'.runs[r].status = "cancelled"
               /\ \A i \in DOMAIN db'.runs[r].stages : db'.runs[r].stages[i].status # "pending"
    <3>1. r \in RunIds
      <4>1. ASSUME NEW p \in Requests, Inserts(p) PROVE r # p
        BY <2>4, <4>1 DEF Inserts, CoreInv, Control, ControlOK
      <4> QED
        BY <1>0, <2>6, <4>1 DEF RowsStep, SameRows, Inserts, Inserted, Configures, Updates,
                                Deletes, RunIds
    <3>2. /\ db.runs[r].status = "cancelled"
          /\ \A i \in DOMAIN db.runs[r].stages : db.runs[r].stages[i].status # "pending"
      BY <1>1, <2>2, <3>1 DEF CancelInv
    <3>3. db'.runs[r] = db.runs[r]
      BY <1>0, <2>6, <3>1, <3>2, CancelledStays DEF Final, Stopped
    <3> QED
      BY <3>2, <3>3
  <2> QED
    BY <2>2, <2>5, <2>6
<1>2. CASE ~(pc[q] = "answer" \/ answer[q] = "ok")
  <2> DEFINE r == call[q].run
  <2>1. Commit(q) /\ call'[q] = call[q]
    BY <1>2, CancelMoves
  <2>2. pc[q] = "commit" /\ db' = draft
    BY <2>1 DEF Commit, Goto
  <2>3. Cancelled(q, Mark(db.runs[r].stages, "pending", "cancelled"))
    BY <2>1, <2>2 DEF CoreInv, DraftOK
  <2>4. r \in RunIds /\ db.runs[r] \in RunRows /\ db.runs[r].stages \in Seq(StageRows)
    BY <2>3, RunTypes DEF Cancelled, CoreInv, RunRows
  <2>5. r \in Requests /\ pc[r] \in {"answer", "done"}
    BY <2>4, RunTypes DEF CoreInv, Control, ControlOK
  <2>6. pc'[r] \in {"answer", "done"}
    BY <2>5, EndedStays
  <2> DEFINE marked == Mark(db.runs[r].stages, "pending", "cancelled")
  <2>7. db'.runs[r] = [db.runs[r] EXCEPT !.status = "cancelled", !.stages = marked]
    BY <2>2, <2>3, <2>4 DEF Cancelled, RunIds
  <2>8. db'.runs[r].status = "cancelled" /\ db'.runs[r].stages = marked
    BY <2>4, <2>7 DEF RunRows
  <2>9. \A i \in DOMAIN marked : marked[i].status # "pending"
    BY <2>4, MarkStages
  <2> QED
    BY <2>1, <2>6, <2>8, <2>9
<1> QED
  BY <1>1, <1>2

LEMMA CancelInvariant == Spec => [](\A q \in Requests : CancelInv(q))
<1>1. Init => \A q \in Requests : CancelInv(q)
  BY RunsAssumption DEF Init, CancelInv, Answers
<1>2. CoreInv /\ (\A q \in Requests : CancelInv(q)) /\ [Next]_vars
        => (\A q \in Requests : CancelInv(q))'
  BY NextCancel
<1> QED
  BY <1>1, <1>2, CoreInvariant, PTL DEF Spec

\* A cancellation that was confirmed, or will be, holds: the run is not
\* executed any more and none of its stages is left pending.
THEOREM CancellationsHold == Spec => []CancelConfirmed
<1>1. (\A q \in Requests : CancelInv(q)) => CancelConfirmed
  BY DEF CancelInv, CancelConfirmed
<1> QED
  BY <1>1, CancelInvariant, PTL

-----------------------------------------------------------------------------
(* Pages.  The numbers of a project are 1 to n, so a run has as many       *)
(* before it in the list as there are numbers above its own.               *)

LEMMA Counted ==
  ASSUME CoreInv, NumbersContiguous, NEW p \in Projects, NEW a \in Int, NEW b \in Int,
         1 <= a, b <= db.counter[p], a <= b + 1
  PROVE  LET T == {s \in RunsOf(p) : db.runs[s].number \in a .. b}
         IN IsFiniteSet(T) /\ Cardinality(T) = b - a + 1
<1> DEFINE T == {s \in RunsOf(p) : db.runs[s].number \in a .. b}
           f == [s \in T |-> db.runs[s].number]
<1>1. T \subseteq Requests
  BY RunTypes DEF CoreInv, RunsOf
<1>2. IsFiniteSet(T)
  BY <1>1, RunsAssumption, FS_Subset
<1>3. db.counter[p] \in Nat
  BY DEF CoreInv, Types, Rows
<1>4. f \in Bijection(T, a .. b)
  <2>1. f \in [T -> a .. b]
    OBVIOUS
  <2>2. \A r, s \in T : f[r] = f[s] => r = s
    BY DEF NumbersContiguous
  <2>3. \A n \in a .. b : \E s \in T : f[s] = n
    <3> SUFFICES ASSUME NEW n \in a .. b PROVE \E s \in T : f[s] = n
      OBVIOUS
    <3>1. n \in 1 .. db.counter[p]
      BY <1>3
    <3>2. PICK s \in RunsOf(p) : db.runs[s].number = n
      BY <3>1 DEF NumbersContiguous
    <3> QED
      BY <3>2
  <2> QED
    BY <2>1, <2>2, <2>3 DEF Bijection, Injection, Surjection, IsInjective
<1>5. Cardinality(a .. b) = Cardinality(T)
  BY <1>2, <1>4, FS_Bijection DEF ExistsBijection
<1>6. Cardinality(a .. b) = b - a + 1
  <2>1. Cardinality(a .. b) = IF a > b THEN 0 ELSE b - a + 1
    BY FS_Interval
  <2>2. a > b => b - a + 1 = 0
    OBVIOUS
  <2> QED
    BY <2>1, <2>2
<1> QED
  BY <1>2, <1>5, <1>6

LEMMA Ranks ==
  ASSUME CoreInv, NumbersContiguous, NEW p \in Projects, NEW r \in RunsOf(p)
  PROVE  /\ Cardinality({s \in RunsOf(p) : ListedBefore(s, r)}) = Rank(r)
         /\ Rank(r) \in Nat
         /\ Rank(r) = db.counter[p] - db.runs[r].number
         /\ db.runs[r].number \in 1 .. db.counter[p]
<1> DEFINE n == db.counter[p]
           m == db.runs[r].number
<1>1. n \in Nat /\ m \in 1 .. n
  BY DEF CoreInv, Types, Rows, NumbersContiguous
<1>2. \A s \in RunsOf(p) : db.runs[s].number \in 1 .. n
  BY DEF NumbersContiguous
<1>3. {s \in RunsOf(p) : ListedBefore(s, r)}
        = {s \in RunsOf(p) : db.runs[s].number \in (m + 1) .. n}
  BY <1>1, <1>2 DEF ListedBefore
<1>4. Cardinality({s \in RunsOf(p) : db.runs[s].number \in (m + 1) .. n}) = n - (m + 1) + 1
  <2>1. m + 1 \in Int /\ n \in Int /\ 1 <= m + 1 /\ n <= n /\ m + 1 <= n + 1
    BY <1>1
  <2> HIDE DEF m
  <2> QED
    BY <2>1, Counted
<1>5. Rank(r) = n - m
  BY DEF Rank, RunsOf
<1>6. n - (m + 1) + 1 = n - m /\ n - m \in Nat
  BY <1>1
<1> QED
  BY <1>1, <1>3, <1>4, <1>5, <1>6

\* A page holds the runs of its ranks, and is full while there are more.
LEMMA Pages ==
  ASSUME CoreInv, NumbersContiguous, NEW p \in Projects, NEW offset \in Nat
  PROVE  /\ Page(p, offset) = {s \in RunsOf(p) : Rank(s) \in offset .. offset + PageSize - 1}
         /\ (\E r \in RunsOf(p) : Rank(r) >= offset + PageSize)
            => Cardinality(Page(p, offset)) = PageSize
<1> DEFINE n == db.counter[p]
<1>1. Page(p, offset) = {s \in RunsOf(p) : Rank(s) \in offset .. offset + PageSize - 1}
  BY Ranks DEF Page
<1>2. ASSUME NEW r \in RunsOf(p), Rank(r) >= offset + PageSize
      PROVE  Cardinality(Page(p, offset)) = PageSize
  <2> DEFINE a == n - offset - PageSize + 1
             b == n - offset
  <2>1. n \in Nat /\ PageSize \in Nat \ {0}
    BY RunsAssumption DEF CoreInv, Types, Rows
  <2>2. 1 <= a /\ b <= n /\ a <= b + 1 /\ a \in Int /\ b \in Int
    <3>1. Rank(r) = n - db.runs[r].number /\ db.runs[r].number \in 1 .. n
      BY Ranks
    <3> QED
      BY <1>2, <2>1, <3>1
  <2>3. \A s \in RunsOf(p) : /\ Rank(s) = n - db.runs[s].number
                             /\ db.runs[s].number \in Nat
    <3>1. \A s \in RunsOf(p) : Rank(s) = n - db.runs[s].number /\ db.runs[s].number \in 1 .. n
      BY Ranks
    <3> QED
      BY <2>1, <3>1
  <2>4. Page(p, offset) = {s \in RunsOf(p) : db.runs[s].number \in a .. b}
    <3>1. \A s \in RunsOf(p) :
            Rank(s) \in offset .. offset + PageSize - 1 <=> db.runs[s].number \in a .. b
      BY <2>1, <2>3
    <3> QED
      BY <1>1, <3>1
  <2>5. Cardinality({s \in RunsOf(p) : db.runs[s].number \in a .. b}) = b - a + 1
    BY <2>2, Counted
  <2> QED
    BY <2>1, <2>4, <2>5
<1> QED
  BY <1>1, <1>2

\* How the state of a client that lists changes by its own steps.
LEMMA ListMoves ==
  ASSUME CoreInv, NEW q \in Requests, call'[q] # None, call'[q].op = "list",
         Handle(q) \/ Abort(q) \/ \E c \in CallsOf[q] : Receive(q, c)
  PROVE  \/ /\ call[q] = None /\ UNCHANGED <<pages, db>> /\ answer'[q] # "ok"
         \/ ListPage(q)
         \/ /\ call'[q] = call[q] /\ UNCHANGED <<pages, db>> /\ answer'[q] # "ok"
            /\ pc'[q] \in {"check", "list"} => pc[q] \in {"check", "list"}
<1>1. CASE \E c \in CallsOf[q] : Receive(q, c)
  BY <1>1 DEF Receive, NoWrite, CoreInv, Control, ControlOK
<1>2. CASE Handle(q) \/ Abort(q)
  <2>1. call'[q] = call[q] /\ pc[q] # "idle"
    BY <1>2 DEF Handle, Abort, CreateCheck, RetryCheck, ListCheck, ListPage,
     AllocateRunNumber, InsertRun, SnapshotStages, CancelRun, CancelStages, CancelRefused,
     PutCheck, ReplaceConfig, InsertConfig, DeleteProject, Commit, ReadBack, Goto, Answer,
     BeforeTransaction, InTransaction
  <2>2. "list" \in OpsAt(pc[q]) /\ pc[q] \in Labels
    BY <2>1, AtLabel DEF CoreInv, Types
  <2>3. pc[q] \in {"check", "list", "done"}
    BY <2>1, <2>2 DEF OpsAt, Labels, BeforeTransaction, InTransaction
  <2>4. CASE ListCheck(q)
    BY <2>1, <2>3, <2>4 DEF ListCheck, Goto, Answer, NoWrite, CoreInv, Types, Control, ControlOK
  <2>5. CASE ListPage(q)
    BY <2>5
  <2>6. CASE Abort(q)
    BY <2>1, <2>3, <2>6 DEF Abort, Answer, NoWrite, CoreInv, Types, InTransaction
  <2> QED
    BY <1>2, <2>1, <2>3, <2>4, <2>5, <2>6 DEF Handle, CreateCheck, RetryCheck, AllocateRunNumber,
     InsertRun, SnapshotStages, CancelRun, CancelStages, CancelRefused,
     PutCheck, ReplaceConfig, InsertConfig, DeleteProject, Commit, ReadBack, Goto, Answer
<1> QED
  BY <1>1, <1>2

\* While the project exists the runs that were due keep their place or move
\* back in the list.
LEMMA RanksGrow ==
  ASSUME CoreInv, RowsStep, NEW p \in db'.live, NEW r \in RunsOf(p)
  PROVE  r \in RunsOf(p)' /\ Rank(r)' >= Rank(r) /\ Rank(r) \in Int /\ Rank(r)' \in Int
<1>1. r \in RunIds /\ db.runs[r].project = p
  BY DEF RunsOf
<1>2. /\ p \in db.live /\ r \in RunIds' /\ db'.runs[r].project = p
      /\ db'.runs[r].number = db.runs[r].number
  BY <1>1, StoppedStays
<1>3. /\ db.counter \in [Projects -> Nat] /\ p \in Projects
      /\ db.runs[r].number \in Nat
  BY <1>1, <1>2, RunTypes DEF CoreInv, Types, Rows, RunRows
<1>4. db'.counter[p] \in Nat /\ db'.counter[p] >= db.counter[p]
  <2>1. ASSUME NEW q \in Requests, Inserts(q)
        PROVE  db'.counter[p] \in Nat /\ db'.counter[p] >= db.counter[p]
    <3>1. db'.counter[p] = IF p = ProjectOf(q) THEN db.counter[p] + 1 ELSE db.counter[p]
      BY <1>3, <2>1 DEF Inserts
    <3> QED
      BY <1>3, <3>1
  <2>2. ASSUME NEW d \in Projects, Deletes(d)
        PROVE  db'.counter[p] = db.counter[p]
    BY <1>3, <2>2 DEF Deletes
  <2>3. ASSUME ~(\E q \in Requests : Inserts(q)), ~(\E d \in Projects : Deletes(d))
        PROVE  db'.counter = db.counter
    BY <2>3 DEF RowsStep, SameRows, Configures, Updates
  <2> QED
    BY <1>3, <2>1, <2>2, <2>3
<1> QED
  BY <1>1, <1>2, <1>3, <1>4 DEF RunsOf, Rank

\* A step of somebody else, or one that gives the client nothing.
LEMMA ListStays ==
  ASSUME CoreInv, RowsStep, NEW q \in Requests, ListInv(q),
         call'[q] = call[q], pages'[q] = pages[q],
         pc'[q] \in {"check", "list"} => pc[q] \in {"check", "list"},
         answer'[q] = "ok" => answer[q] = "ok"
  PROVE  ListInv(q)'
<1> SUFFICES ASSUME NEW p, p = call[q].project, call[q] # None, call[q].op = "list",
                    p \in db'.live
             PROVE  /\ pc'[q] \in {"check", "list"} => \A r \in pages[q].due \ pages[q].given :
                         r \in RunsOf(p)' /\ Rank(r)' >= pages[q].offset
                    /\ answer'[q] = "ok" => pages[q].due \subseteq pages[q].given
  <2>1. call[q] = None => pages[q].due = {}
    BY DEF ListInv
  <2> QED
    BY <2>1 DEF ListInv
<1>1. p \in db.live
  BY DEF RowsStep, SameRows, Inserts, Configures, Updates, Deletes
<1>2. answer'[q] = "ok" => pages[q].due \subseteq pages[q].given
  BY <1>1 DEF ListInv
<1>3. ASSUME pc'[q] \in {"check", "list"}, NEW r \in pages[q].due \ pages[q].given
      PROVE  r \in RunsOf(p)' /\ Rank(r)' >= pages[q].offset
  <2>1. r \in RunsOf(p) /\ Rank(r) >= pages[q].offset
    BY <1>1, <1>3 DEF ListInv
  <2>2. r \in RunsOf(p)' /\ Rank(r)' >= Rank(r) /\ Rank(r) \in Int /\ Rank(r)' \in Int
    BY <2>1, RanksGrow
  <2>3. pages[q].offset \in Nat
    BY DEF CoreInv, Types
  <2> QED
    BY <2>1, <2>2, <2>3
<1> QED
  BY <1>2, <1>3

\* A page given to the client.
LEMMA ListPageStep ==
  ASSUME CoreInv, NumbersContiguous, NEW q \in Requests, ListPage(q), ListInv(q)
  PROVE  ListInv(q)'
<1> DEFINE p == call[q].project
           offset == pages[q].offset
           page == Page(p, offset)
           due == IF offset = 0 THEN RunsOf(p) ELSE pages[q].due
<1>1. /\ pc[q] = "list" /\ call' = call /\ db' = db
      /\ offset \in Nat /\ PageSize \in Nat \ {0}
      /\ call[q].op = "list" /\ p \in Projects /\ answer[q] # "ok" /\ call[q] # None
  <2>1. pc[q] = "list" /\ call' = call /\ db' = db
    BY DEF ListPage, NoWrite
  <2>2. call[q].op = "list" /\ p \in Projects
    BY <2>1, AtLabel DEF OpsAt
  <2>3. answer[q] # "ok" /\ offset \in Nat
    BY <2>1 DEF CoreInv, Control, ControlOK, Types
  <2>4. call[q] # None
    BY <2>1, AtLabel, RunsAssumption
  <2> QED
    BY <2>1, <2>2, <2>3, <2>4, RunsAssumption
<1>2. /\ pages'[q].offset = offset + PageSize
      /\ pages'[q].given = pages[q].given \cup page
      /\ pages'[q].due = due
  BY DEF ListPage, CoreInv, Types
<1>3. /\ RunsOf(p)' = RunsOf(p) /\ p \in Projects
      /\ \A r : Rank(r)' = Rank(r)
  BY <1>1 DEF RunsOf, RunIds, Rank
<1>4. \A r \in RunsOf(p) : Rank(r) \in Nat
  BY <1>1, Ranks
<1>5. ASSUME p \in db.live, NEW r \in due \ (pages[q].given \cup page)
      PROVE  r \in RunsOf(p) /\ Rank(r) >= offset + PageSize
  <2>1. r \in RunsOf(p) /\ Rank(r) >= offset
    <3>1. CASE offset = 0
      BY <1>1, <1>4, <1>5, <3>1
    <3>2. CASE offset # 0
      BY <1>1, <1>5, <3>2 DEF ListInv
    <3> QED
      BY <3>1, <3>2
  <2>2. Rank(r) \notin offset .. offset + PageSize - 1
    BY <1>1, <1>5, <2>1, Pages
  <2> QED
    BY <1>1, <1>4, <2>1, <2>2
<1>6. ASSUME p \in db.live, answer'[q] = "ok"
      PROVE  due \subseteq pages[q].given \cup page
  <2>1. Cardinality(page) # PageSize
    BY <1>1, <1>6 DEF ListPage
  <2>2. ~ \E r \in RunsOf(p) : Rank(r) >= offset + PageSize
    BY <1>1, <2>1, Pages
  <2> QED
    BY <1>5, <1>6, <2>2
<1> HIDE DEF due, page
<1>7. ListInv(q)' <=>
        (p \in db.live =>
           /\ pc'[q] \in {"check", "list"} =>
                \A r \in due \ (pages[q].given \cup page) :
                  r \in RunsOf(p) /\ Rank(r) >= offset + PageSize
           /\ answer'[q] = "ok" => due \subseteq pages[q].given \cup page)
  BY <1>1, <1>2, <1>3 DEF ListInv
<1> QED
  BY <1>5, <1>6, <1>7

LEMMA NextList ==
  ASSUME CoreInv, NumbersContiguous, [Next]_vars, NEW q \in Requests, ListInv(q)
  PROVE  ListInv(q)'
<1>0. RowsStep
  BY NextCore
<1>1. CASE Still(q)
  BY <1>0, <1>1, ListStays DEF Still
<1>2. CASE ~Still(q)
  <2>1. ASSUME NEW p \in Requests, p # q, RequestStep(p) PROVE FALSE
    BY <1>2, <2>1 DEF RequestStep, Moves
  <2>2. EngineMoves \/ UNCHANGED vars => Still(q)
    BY NextEngine DEF vars, Still
  <2>3. Handle(q) \/ Abort(q) \/ \E c \in CallsOf[q] : Receive(q, c)
    BY <1>2, <2>1, <2>2, NextRequest DEF Next, EngineMoves, Terminated
  <2>4. CASE call'[q] # None /\ call'[q].op = "list"
    <3>1. CASE call[q] = None /\ UNCHANGED <<pages, db>> /\ answer'[q] # "ok"
      BY <2>4, <3>1 DEF ListInv
    <3>2. CASE ListPage(q)
      BY <3>2, ListPageStep
    <3>3. CASE /\ call'[q] = call[q] /\ UNCHANGED <<pages, db>> /\ answer'[q] # "ok"
               /\ pc'[q] \in {"check", "list"} => pc[q] \in {"check", "list"}
      BY <1>0, <3>3, ListStays
    <3> QED
      BY <2>3, <2>4, <3>1, <3>2, <3>3, ListMoves
  <2>5. CASE call'[q] # None /\ call'[q].op # "list"
    BY <2>5 DEF ListInv
  <2>6. CASE call'[q] = None
    <3>1. pages'[q] = pages[q] /\ call[q] = None
      <4>1. pc'[q] = "idle"
        BY <2>6, NextCore, RunsAssumption DEF CoreInv, Control, ControlOK
      <4> QED
        BY <2>3, <4>1 DEF Handle, Abort, Receive, FirstStep, CreateCheck, RetryCheck,
     ListCheck, ListPage,
     AllocateRunNumber, InsertRun, SnapshotStages, CancelRun, CancelStages, CancelRefused,
     PutCheck, ReplaceConfig, InsertConfig, DeleteProject, Commit, ReadBack, Goto, Answer,
     CoreInv, Types
    <3> QED
      BY <2>6, <3>1 DEF ListInv
  <2> QED
    BY <2>4, <2>5, <2>6
<1> QED
  BY <1>1, <1>2

LEMMA ListInvariant == Spec => [](\A q \in Requests : ListInv(q))
<1>1. Init => \A q \in Requests : ListInv(q)
  BY DEF Init, ListInv
<1>2. CoreInv /\ NumbersContiguous /\ (\A q \in Requests : ListInv(q)) /\ [Next]_vars
        => (\A q \in Requests : ListInv(q))'
  BY NextList
<1> QED
  BY <1>1, <1>2, CoreInvariant, NumbersInvariant, PTL DEF Spec

\* A client that pages through the runs of a project misses none of those
\* there were at its first page, for every page size and whatever happens
\* between its pages.
THEOREM PagesMissNothing == Spec => []ListComplete
<1>1. (\A q \in Requests : ListInv(q)) => ListComplete
  BY DEF ListInv, ListComplete
<1> QED
  BY <1>1, ListInvariant, PTL
=============================================================================

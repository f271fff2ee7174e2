---------------------------- MODULE PipelineRuns ----------------------------
(***************************************************************************)
(* The handlers that write pipeline runs and pipeline configurations:      *)
(* create, list, cancel and retry of src/src/pipeline_runs.rs, put of      *)
(* src/src/pipelines.rs and delete of src/src/projects.rs, running         *)
(* concurrently with each other and with the engine.                       *)
(*                                                                         *)
(* SQLite has one writer.  A transaction takes the write lock with its     *)
(* first statement (each starts with a write), works on a draft nobody     *)
(* else sees, and publishes it with COMMIT; statements outside             *)
(* transactions read the published rows, which may be outdated when the    *)
(* transaction begins.                                                     *)
(***************************************************************************)
EXTENDS Integers, Sequences, FiniteSets, Functions

CONSTANTS
  Projects,
  Configured,  \* the stages each project is configured with initially
  Requests,    \* API calls; a call that inserts a run names it (a fresh uuid)
  CallsOf,     \* the calls each request may make
  PageSize,    \* the limit of a list
  Commits,     \* commits the engine may find at the head of a branch
  None

\* A configured stage as the put request carries it.
StageInputs == [name : STRING, enabled : BOOLEAN]

Calls ==
  [op : {"create", "delete", "list"}, project : Projects]
    \cup [op : {"retry", "cancel"}, run : Requests]
    \cup [op : {"put"}, project : Projects, stages : Seq(StageInputs)]

Answers == {"ok", "not_found", "conflict", "invalid", "failed", "unanswered"}

ASSUME RunsAssumption ==
  /\ Configured \in [Projects -> Seq(StageInputs)]
  /\ IsFiniteSet(Requests)
  /\ PageSize \in Nat \ {0}
  /\ None \notin Requests \cup Commits \cup Answers
  /\ \A q \in Requests : CallsOf[q] \subseteq Calls \ {None}

VARIABLES
  db,       \* the published rows
  draft,    \* the rows as the transaction holding the write lock sees them
  writer,   \* the request holding the write lock
  pc, call,
  source,   \* the row retry read before its transaction
  pages,    \* of the client that lists: the runs its pages gave, and those
            \* there were when it asked for the first
  answer

vars == <<db, draft, writer, pc, call, source, pages, answer>>

Stopped == {"failed", "cancelled"}
Final == Stopped \cup {"success"}

\* The part of a stage that is copied from the configuration or a run.
Content(stages) ==
  [i \in DOMAIN stages |-> [name |-> stages[i].name, enabled |-> stages[i].enabled]]

\* The rows inserted into stage_runs for a new run.
Fresh(stages) ==
  [i \in DOMAIN stages |->
     [name |-> stages[i].name, enabled |-> stages[i].enabled,
      status |-> IF stages[i].enabled THEN "pending" ELSE "skipped"]]

Mark(stages, from, to) ==
  [i \in DOMAIN stages |->
     IF stages[i].status = from THEN [stages[i] EXCEPT !.status = to] ELSE stages[i]]

DistinctNames(stages) ==
  \A i, j \in DOMAIN stages : stages[i].name = stages[j].name => i = j

InitialRows ==
  [live    |-> Projects,
   config  |-> Configured,
   counter |-> [p \in Projects |-> 0],
   runs    |-> <<>>]      \* run id -> row; no run yet

Init ==
  /\ db = InitialRows
  /\ draft = db
  /\ writer = None
  /\ pc = [q \in Requests |-> "idle"]
  /\ call = [q \in Requests |-> None]
  /\ source = [q \in Requests |-> None]
  /\ pages = [q \in Requests |-> [offset |-> 0, given |-> {}, due |-> {}]]
  /\ answer = [q \in Requests |-> None]

RunIds == DOMAIN db.runs

\* A statement outside a transaction is a transaction of its own.
Publish(rows) ==
  /\ writer = None
  /\ db' = rows
  /\ draft' = rows
  /\ UNCHANGED writer

\* Mutants: a statement is executed on the pool instead of the transaction.
BeginOnPool(q, rows) == writer = None /\ writer' = q /\ draft' = rows /\ db' = rows
WriteOnPool(q, rows) == writer = q /\ draft' = rows /\ db' = rows /\ UNCHANGED writer

\* The first statement of a transaction.
Begin(q, rows) ==
  /\ writer = None
  /\ writer' = q
  /\ draft' = rows
  /\ UNCHANGED db

Write(q, rows) ==
  /\ writer = q
  /\ draft' = rows
  /\ UNCHANGED <<db, writer>>

Rollback(q) ==
  /\ writer = q
  /\ draft' = db
  /\ writer' = None
  /\ UNCHANGED db

NoWrite == UNCHANGED <<db, draft, writer>>

Goto(q, from, to) ==
  /\ pc[q] = from
  /\ pc' = [pc EXCEPT ![q] = to]
  /\ UNCHANGED <<call, pages, answer>>

Answer(q, from, a) ==
  /\ pc[q] = from
  /\ pc' = [pc EXCEPT ![q] = "done"]
  /\ answer' = [answer EXCEPT ![q] = a]
  /\ UNCHANGED <<call, source, pages>>

FirstStep(c) == IF c.op \in {"cancel", "delete"} THEN c.op ELSE "check"

Receive(q, c) ==
  /\ pc[q] = "idle"
  /\ pc' = [pc EXCEPT ![q] = FirstStep(c)]
  /\ call' = [call EXCEPT ![q] = c]
  /\ UNCHANGED <<source, pages, answer>>
  /\ NoWrite

-----------------------------------------------------------------------------
(* create and retry.  Both check outside the transaction.                  *)

CreateCheck(q) ==
  /\ pc[q] = "check" /\ call[q].op = "create"
  /\ \/ /\ call[q].project \in db.live
        /\ Goto(q, "check", "allocate")
        /\ UNCHANGED source
     \/ /\ call[q].project \notin db.live
        /\ Answer(q, "check", "not_found")
  /\ NoWrite

\* Mutant: whatever the status is.
RetryableAny(r) == TRUE

Retryable(r) == db.runs[r].status \in Stopped

RetryCheck(q) ==
  /\ pc[q] = "check" /\ call[q].op = "retry"
  /\ \/ /\ call[q].run \in RunIds
        /\ Retryable(call[q].run)
        /\ source' = [source EXCEPT ![q] = db.runs[call[q].run]]
        /\ Goto(q, "check", "allocate")
     \/ /\ call[q].run \in RunIds
        /\ ~Retryable(call[q].run)
        /\ Answer(q, "check", "conflict")
     \/ /\ call[q].run \notin RunIds
        /\ Answer(q, "check", "not_found")
  /\ NoWrite

ProjectOf(q) == IF call[q].op = "create" THEN call[q].project ELSE source[q].project

Increment(rows, p) == [rows EXCEPT !.counter[p] = @ + 1]

\* The upsert that allocates the number; it fails on its foreign key when
\* the project was deleted after the check.
AllocateRunNumber(q) ==
  /\ writer = None
  /\ \/ /\ Goto(q, "allocate", "insert")
        /\ ProjectOf(q) \in db.live
        /\ Begin(q, Increment(db, ProjectOf(q)))
        /\ UNCHANGED source
     \/ /\ Answer(q, "allocate", "failed")
        /\ ProjectOf(q) \notin db.live
        /\ NoWrite

Row(q) ==
  [project |-> ProjectOf(q),
   number  |-> draft.counter[ProjectOf(q)],
   status  |-> "pending",
   retryOf |-> IF call[q].op = "retry" THEN call[q].run ELSE None,
   commit  |-> IF call[q].op = "retry" THEN source[q].commit ELSE None,
   synced  |-> FALSE,    \* the engine records a commit once
   stages  |-> <<>>]

WithRun(rows, r, row) ==
  [rows EXCEPT !.runs =
     [x \in DOMAIN rows.runs \cup {r} |-> IF x = r THEN row ELSE rows.runs[x]]]

InsertRun(q) ==
  /\ Goto(q, "insert", "stages")
  /\ Write(q, WithRun(draft, q, Row(q)))
  /\ UNCHANGED source

\* Mutant: retry takes the project's current stages.
CurrentOrigin(q) == draft.config[ProjectOf(q)]

Origin(q) ==
  IF call[q].op = "create" THEN draft.config[ProjectOf(q)] ELSE draft.runs[call[q].run].stages

\* snapshot_stages reads the configuration, copy_stage_snapshot the source
\* run, both inside the transaction.
SnapshotStages(q) ==
  /\ Goto(q, "stages", "commit")
  /\ Write(q, [draft EXCEPT !.runs[q].stages = Fresh(Origin(q))])
  /\ UNCHANGED source

Commit(q) ==
  /\ writer = q
  /\ db' = draft
  /\ writer' = None
  /\ UNCHANGED draft
  /\ Goto(q, "commit", "answer")
  /\ UNCHANGED source

\* The row is read again for the answer; put reads the configuration.
ReadBack(q) ==
  /\ LET found == IF call[q].op = "put" THEN call[q].project \in db.live
                  ELSE IF call[q].op = "cancel" THEN call[q].run \in RunIds
                  ELSE q \in RunIds
     IN Answer(q, "answer", IF found THEN "ok" ELSE "not_found")
  /\ NoWrite

-----------------------------------------------------------------------------
(* list.  A client asks for one page after the other until one is short.   *)

RunsOf(p) == {r \in RunIds : db.runs[r].project = p}

ListCheck(q) ==
  /\ pc[q] = "check" /\ call[q].op = "list"
  /\ \/ /\ call[q].project \in db.live
        /\ Goto(q, "check", "list")
        /\ UNCHANGED source
     \/ /\ call[q].project \notin db.live
        /\ Answer(q, "check", "not_found")
  /\ NoWrite

\* Mutant: runs at work are listed first.
ActiveFirst(r, s) ==
  LET Active(x) == db.runs[x].status \notin Final
  IN IF Active(r) = Active(s) THEN db.runs[r].number > db.runs[s].number ELSE Active(r)

\* ORDER BY run_number DESC.
ListedBefore(r, s) == db.runs[r].number > db.runs[s].number

\* LIMIT and OFFSET.
Page(p, offset) ==
  {s \in RunsOf(p) :
     Cardinality({r \in RunsOf(p) : ListedBefore(r, s)}) \in offset .. offset + PageSize - 1}

ListPage(q) ==
  LET p == call[q].project
      page == Page(p, pages[q].offset)
  IN /\ pc[q] = "list"
     /\ pages' = [pages EXCEPT ![q] =
                    [offset |-> @.offset + PageSize, given |-> @.given \cup page,
                     due |-> IF @.offset = 0 THEN RunsOf(p) ELSE @.due]]
     /\ IF Cardinality(page) = PageSize
        THEN pc' = [pc EXCEPT ![q] = "check"] /\ UNCHANGED answer
        ELSE pc' = [pc EXCEPT ![q] = "done"] /\ answer' = [answer EXCEPT ![q] = "ok"]
     /\ UNCHANGED <<call, source>>
     /\ NoWrite

-----------------------------------------------------------------------------
(* cancel                                                                  *)

CancelRun(q) ==
  LET r == call[q].run
      pending == r \in RunIds /\ db.runs[r].status = "pending"
  IN /\ \/ /\ Goto(q, "cancel", "cancel_stages")
           /\ pending
           /\ Begin(q, [db EXCEPT !.runs[r].status = "cancelled"])
        \/ /\ Goto(q, "cancel", "refused")
           /\ ~pending
           /\ writer = None
           /\ NoWrite
     /\ UNCHANGED source

CancelStages(q) ==
  /\ Goto(q, "cancel_stages", "commit")
  /\ Write(q, [draft EXCEPT !.runs[call[q].run].stages = Mark(@, "pending", "cancelled")])
  /\ UNCHANGED source

\* No pending run was updated: the row is read to tell 404 from 409.
CancelRefused(q) ==
  /\ Answer(q, "refused", IF call[q].run \in RunIds THEN "conflict" ELSE "not_found")
  /\ NoWrite

-----------------------------------------------------------------------------
(* put and delete                                                          *)

PutCheck(q) ==
  /\ pc[q] = "check" /\ call[q].op = "put"
  /\ \/ /\ call[q].stages # <<>>
        /\ call[q].project \in db.live
        /\ Goto(q, "check", "replace")
        /\ UNCHANGED source
     \/ /\ call[q].stages = <<>>
        /\ Answer(q, "check", "invalid")
     \/ /\ call[q].stages # <<>>
        /\ call[q].project \notin db.live
        /\ Answer(q, "check", "not_found")
  /\ NoWrite

\* The upsert of pipeline_configs (which references the project) and the
\* DELETE of the old stages.
ReplaceConfig(q) ==
  /\ writer = None
  /\ \/ /\ Goto(q, "replace", "insert_config")
        /\ call[q].project \in db.live
        /\ Begin(q, [db EXCEPT !.config[call[q].project] = <<>>])
        /\ UNCHANGED source
     \/ /\ Answer(q, "replace", "failed")
        /\ call[q].project \notin db.live
        /\ NoWrite

\* One INSERT per stage; a repeated name violates UNIQUE(project_id, name).
InsertConfig(q) ==
  \/ /\ Goto(q, "insert_config", "commit")
     /\ DistinctNames(call[q].stages)
     /\ Write(q, [draft EXCEPT !.config[call[q].project] = call[q].stages])
     /\ UNCHANGED source
  \/ /\ Answer(q, "insert_config", "invalid")
     /\ ~DistinctNames(call[q].stages)
     /\ Rollback(q)

\* The project's configuration, counter and runs go with it.
WithoutProject(rows, p) ==
  [live    |-> rows.live \ {p},
   config  |-> [rows.config EXCEPT ![p] = <<>>],
   counter |-> [rows.counter EXCEPT ![p] = 0],
   runs    |-> Restrict(rows.runs, {r \in DOMAIN rows.runs : rows.runs[r].project # p})]

DeleteProject(q) ==
  LET p == call[q].project
  IN /\ Answer(q, "delete", IF p \in db.live THEN "ok" ELSE "not_found")
     /\ Publish(WithoutProject(db, p))

-----------------------------------------------------------------------------
(* A statement fails, or the client is gone and the handler is dropped.    *)

BeforeTransaction == {"check", "list", "allocate", "cancel", "refused", "replace", "delete"}
InTransaction == {"insert", "stages", "cancel_stages", "insert_config", "commit"}

\* Dropping a Transaction rolls it back.
Abort(q) ==
  \/ /\ pc[q] \in BeforeTransaction
     /\ Answer(q, pc[q], "failed")
     /\ NoWrite
  \/ /\ pc[q] \in InTransaction
     /\ Rollback(q)
     /\ Answer(q, pc[q], "failed")
  \/ /\ Answer(q, "answer", "unanswered")
     /\ NoWrite

-----------------------------------------------------------------------------
(* The engine's statements on the same rows (PipelineEngine.tla has them   *)
(* in full): claim a run, record the commit, settle it after the first     *)
(* done stages.                                                            *)

EngineIdle == UNCHANGED <<pc, call, source, pages, answer>>

\* Mutant: whatever the status is.
ClaimableAny(r) == TRUE

Claimable(r) == db.runs[r].status = "pending"

EngineClaim(r) ==
  /\ Claimable(r)
  /\ Publish([db EXCEPT !.runs[r].status = "running"])
  /\ EngineIdle

EngineRecord(r, commit) ==
  /\ db.runs[r].status = "running" /\ ~db.runs[r].synced
  /\ Publish([db EXCEPT !.runs[r].commit = commit, !.runs[r].synced = TRUE])
  /\ EngineIdle

\* The stages after the engine worked on them in order: those up to done
\* succeeded, the one it stopped at, if it started one, has the run's status.
Worked(stages, done, stoppedAt, status) ==
  [i \in DOMAIN stages |->
     IF ~stages[i].enabled THEN stages[i]
     ELSE [stages[i] EXCEPT !.status =
             IF i <= done THEN "success" ELSE IF i = stoppedAt THEN status ELSE "skipped"]]

EngineSettle(r, status) ==
  /\ db.runs[r].status = "running"
  /\ \E done \in 0 .. Len(db.runs[r].stages) : \E stoppedAt \in {0, done + 1} :
       /\ status = "success" => done = Len(db.runs[r].stages)
       /\ Publish([db EXCEPT !.runs[r].status = status,
                             !.runs[r].stages = Worked(@, done, stoppedAt, status)])
  /\ EngineIdle

-----------------------------------------------------------------------------
Handle(q) ==
  \/ CreateCheck(q) \/ RetryCheck(q) \/ ListCheck(q) \/ ListPage(q)
  \/ AllocateRunNumber(q) \/ InsertRun(q) \/ SnapshotStages(q)
  \/ CancelRun(q) \/ CancelStages(q) \/ CancelRefused(q)
  \/ PutCheck(q) \/ ReplaceConfig(q) \/ InsertConfig(q)
  \/ DeleteProject(q)
  \/ Commit(q) \/ ReadBack(q)

Terminated ==
  /\ \A q \in Requests : pc[q] = "done"
  /\ UNCHANGED vars

Next ==
  \/ \E q \in Requests : \E c \in CallsOf[q] : Receive(q, c)
  \/ \E q \in Requests : Handle(q)
  \/ \E q \in Requests : Abort(q)
  \/ \E r \in RunIds : EngineClaim(r)
  \/ \E r \in RunIds, commit \in Commits : EngineRecord(r, commit)
  \/ \E r \in RunIds, status \in Final : EngineSettle(r, status)
  \/ Terminated

Spec == Init /\ [][Next]_vars

-----------------------------------------------------------------------------
StageRows == [name : STRING, enabled : BOOLEAN,
              status : {"pending", "cancelled", "skipped", "success", "failed"}]

RunRows ==
  [project : Projects, number : Nat \ {0}, status : {"pending", "running"} \cup Final,
   retryOf : Requests \cup {None}, commit : Commits \cup {None}, synced : BOOLEAN,
   stages : Seq(StageRows)]

RowsOK(rows) ==
  /\ rows.live \subseteq Projects
  /\ rows.config \in [Projects -> Seq(StageInputs)]
  /\ rows.counter \in [Projects -> Nat]
  /\ DOMAIN rows.runs \subseteq Requests
  /\ \A r \in DOMAIN rows.runs : rows.runs[r] \in RunRows

TypeOK ==
  /\ RowsOK(db)
  /\ RowsOK(draft)
  /\ writer \in Requests \cup {None}
  /\ writer = None => draft = db
  /\ \A q \in Requests : writer = q <=> pc[q] \in InTransaction
  /\ pc \in [Requests -> {"idle", "answer", "done"} \cup BeforeTransaction \cup InTransaction]
  /\ \A q \in Requests : pc[q] # "idle" => call[q] \in CallsOf[q]
  /\ \A q \in Requests : source[q] # None => source[q] \in RunRows
  /\ pages \in [Requests -> [offset : Nat, given : SUBSET Requests, due : SUBSET Requests]]
  /\ answer \in [Requests -> Answers \cup {None}]

\* The runs of a project are numbered 1, 2, 3 ... without a gap and without
\* a repetition, whatever transactions were rolled back in between and
\* however create, retry and delete interleave (allocate_run_number); none,
\* and no configuration, outlives its project, although create, retry and
\* put look the project up before their transaction begins.
NumbersContiguous ==
  \A p \in Projects :
    /\ {db.runs[r].number : r \in RunsOf(p)} = 1 .. db.counter[p]
    /\ \A r, s \in RunsOf(p) : db.runs[r].number = db.runs[s].number => r = s
    /\ p \notin db.live => db.counter[p] = 0 /\ db.config[p] = <<>>

\* Every state is well formed, no request ends with the write lock, and the
\* numbers have no gap.
RunsInv == TypeOK /\ NumbersContiguous

\* A client that pages through the runs of a project is given every run
\* there was at its first page, although runs are inserted, cancelled and
\* executed between its pages.
ListComplete ==
  \A q \in Requests :
    call[q] # None /\ call[q].op = "list" /\ answer[q] = "ok" /\ call[q].project \in db.live
    => pages[q].due \subseteq pages[q].given

\* A retry is of a run of its project that failed or was cancelled, although
\* that status was read before the transaction, and has the stages its source
\* had, in their order, whatever was put into the configuration since
\* (copy_stage_snapshot), and its commit, until the engine records the one its
\* own synchronisation finds.
RetrySameSnapshot ==
  \A r \in RunIds : db.runs[r].retryOf # None =>
    LET row == db.runs[r]
        origin == db.runs[row.retryOf]
    IN /\ row.retryOf \in RunsOf(row.project) /\ origin.status \in Stopped
       /\ Content(row.stages) = Content(origin.stages)
       /\ ~row.synced => row.commit = origin.commit

\* A run appears together with its stages: never a run without them, never
\* with a part of a configuration that is being replaced.
SnapshotWhole ==
  [][\A r \in DOMAIN db'.runs \ RunIds :
       LET row == db'.runs[r]
       IN row.retryOf = None => Content(row.stages) = db.config[row.project]]_vars

\* A configuration once accepted is replaced by another accepted one or goes
\* with its project; a refused or interrupted put does not lose it.
ConfigNeverLost ==
  [][\A p \in db'.live : db.config[p] # <<>> => db'.config[p] # <<>>]_vars

\* A confirmed cancellation is final: the run and its pending stages are
\* cancelled, and the engine, whose claim races with it, does not execute it.
CancelConfirmed ==
  \A q \in Requests :
    /\ pc[q] = "answer" \/ answer[q] = "ok"
    /\ call[q].op = "cancel"
    /\ call[q].run \in RunIds
    => LET row == db.runs[call[q].run]
       IN /\ row.status = "cancelled"
          /\ \A i \in DOMAIN row.stages : row.stages[i].status # "pending"
=============================================================================

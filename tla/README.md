# LiteCI in TLA+

LiteCI is a continuous integration server in one process: an HTTP API (axum) over
one SQLite database, a pipeline engine that runs the stages of a run as commands,
and a Git service that fetches the code.  This directory models the parts of it
where concurrent handlers, failures and ordering decide whether it is correct,
checks the models with TLC and proves their safety properties with TLAPS.
Paths below are relative to the repository's root (`src/` is the crate's source,
here `src/src/` in `PROJECT.json`).

## 1. The system

| Component | State it keeps | Operations | Who it interacts with |
|---|---|---|---|
| Pipeline engine, `src/pipeline_engine.rs` | rows of `pipeline_runs` and `stage_runs`; in memory: the map `running` of tokens, a semaphore of slots, the map `project_locks` | `execute`, `execute_with_git`, `cancel`; settling failed and cancelled runs | the rows, Git service, command executor, log writer |
| Project permits, same file, `project_permit` | map of weak pointers to one-permit semaphores | take, wait for, drop a permit | every execution |
| Pipeline run API, `src/pipeline_runs.rs` | runs, their numbers, stage snapshots | `create`, `list`, `cancel`, `retry` (and reads) | database, and the engine through it |
| Pipeline configuration API, `src/pipelines.rs` | `pipeline_configs`, `pipeline_stages` | `put` (and `get`) | `create` copies what it wrote |
| Command executor, `src/command_executor.rs` | a process group, two captures, a log channel | `execute`, `execute_with_logs` | engine, Git service, log writer |
| Stage log store, `src/pipeline_log_store.rs` | rows of `pipeline_stage_logs`, `logs_truncated` | `persist_stage_logs` | channel from the executor; awaited by the engine |
| Stage log API, `src/pipeline_logs.rs` | none | paging | rows under write |
| Authentication, `src/auth.rs` | users, `setup_state`, sessions; in memory: limiter table, hashing permits | `setup`, `login`, `current_user`, `logout` | every handler |
| Project API, `src/projects.rs` | rows of `projects` | `create`, `update`, `delete`, `sync` | credentials, Git service; deletion cascades to runs |
| Git service, `src/git.rs` | a workspace on disk | `sync`, `sync_with_credential` | command executor, git |
| Credentials, `src/credential_store.rs`, `credential_api.rs`, `credentials.rs` | rows of `credentials`, encrypted | `create`, `list`, `delete`, `kind`, `decrypt` | projects reference them |
| Artifacts, `src/pipeline_artifacts.rs`, `artifact_files.rs` | rows nobody writes yet | list | — |
| Configuration, database, router, start, `src/config.rs`, `db.rs`, `lib.rs`, `main.rs` | — | read once | — |

The components meet in three places.  *The database*: API handlers and the engine
write the same run rows, statement by statement, with SQLite's single writer as
the only exclusion between them.  *The maps of the engine*: duplicate calls for one
run, cancellations and executions of one project meet in `running`,
`project_locks` and the slots.  *A stage*: engine, executor and log writer are tied
by a bounded channel, a token and a deadline.  (No handler calls the engine in this
revision: the tests do.  `cancel` of the API knows only the rows, `cancel` of the
engine the tokens.)

What makes each part hard, and what makes it correct:

* **Engine.**  A row is read before two waits of unbounded length; permits are
  dropped before the final status is written; several statements are not one
  transaction; a duplicate call shares the map entry with the executing one; a
  restart may fall between any two steps.  Correct: one execution works on a run;
  projects are exclusive and slots bounded; a final status is final and leaves no
  stage open; nothing but a fault leaves a run running that nobody works on; stages run in order and only in running runs; success means all
  stages; permits come back; calls return.
* **Project permits.**  Entries of the map dangle and are swept while others wait.
  Correct: one live semaphore per project, so a mutex; waiters are served.
* **Run and configuration API.**  Checks precede transactions; transactions fail
  anywhere.  Correct: numbers are contiguous, nothing outlives its project,
  snapshots are whole, retries repeat their source, confirmed cancellations stand,
  lists read page by page are complete.
* **Executor.**  Descendants outlive the leader; pipes and channel are bounded;
  token, deadline and exit race; a failed kill or a dropped caller leaves captures
  that go on alone.  Correct: a result from an exit status comes with the whole
  output, and with a log that holds it or says that it does not; a kill reaches the
  group, every call returns, and so does the engine's wait for the log writer behind
  it.
* **Logs.**  Limit and chunk boundaries; readers page while rows are written.
  Correct: rows are a prefix, truncation is told exactly, pages are exact.
* **Authentication.**  Concurrent attempts, dropped handlers, passing windows, two
  setups at once; expiry compared as text.  Correct: attempts are counted exactly,
  guesses bounded, one administrator, sessions end when they should.
* **Synchronisation.**  Row, kind and payload are three reads; commands fail or are
  killed in a workspace the next call uses, with git's lock files or half a clone left
  behind; the project moves under it; synchronisations overlap.  Correct:
  the assigned credential or none of it, exact snapshots, recovery.

The hazards are listed one by one, at their lines, in `PROJECT.json`.

## 2. Modules

```
ProjectMutex  <--implements-- ProjectLocks (proofs: ProjectLocksProofs)
     ^--implements-- PipelineEngine (proofs: PipelineEngineProofs)
RunLifecycle  <--implements-- PipelineEngine (proofs: EngineLifecycleProofs)
CommandExecutor  --extended by--> StageExecution (proofs: StageExecutionProofs)
PipelineRuns    StageLogs    Auth    ProjectSync (proofs: the module with Proofs added)
```

`ProjectMutex` and `RunLifecycle` are the abstract specifications: what a permit
and what a run's rows promise.  `StageExecution` composes components; each other module
is one.  `MC*` modules
only give constants their values.  Operators marked *Mutant* are bugs that the
properties must notice; they are not part of any specification.

**RunLifecycle.tla** — the rows of a run as everyone else sees them: claimed once,
stages started in order while the run is running, stopped together with every
stage, deleted with the project.

**ProjectMutex.tla** — `holder[p]`: at most one task per project.

**ProjectLocks.tla** — `project_permit` with the map of weak pointers: the sweep
and the upgrade are separate steps inside the map's mutex, owners leave without
it.  `strong_count` is the number of tasks whose `arc` is the semaphore; a dangling
entry keeps its semaphore's identity from being reused.

**PipelineEngine.tla** — the executions of `execute_mode`.  `pc[e]` is the point of
an execution between two awaits: `Select` (118–125), `AcquireProject` (126),
`AcquireSlot` (127–131), `Register` (132–142), `Claim` (143–150), `Prepare`
(151–158), `Sync` (159–213), `Record` (215–228), `BeginStage` (229–241),
`EndCommand` (247–272), `ReportStage` (268–283), `SkipRest` (284), `FailRun` (286),
`Finish` (291–300), `Settle` (302–334), `Leave` (359–366).
`running` is the map of tokens by their owner, `cancelled` the tokens that were
cancelled, `claimant` (history) who claimed a run.  `StatementFails`,
`SettleFails`, `CancelFails` are SQL errors, `WorkFails` the errors of workspace,
git and executor, `DeleteProject` the cascade, `Restart` the end of the process.

**PipelineRuns.tla** — the handlers, `list` included, statement by statement, over published rows
(`db`), the rows in the open transaction (`draft`) and the holder of the write lock
(`writer`).  Every transaction of these handlers begins with a write, so it sees
the latest rows; a statement outside reads the published ones.  A listing client asks
for page after page (`pages` keeps what it was given).  `Abort` is a failing
statement or a dropped handler.  The engine's claim, record and settlement are
included as the environment of the handlers.

**CommandExecutor.tla** — the actions of one call: the waiting task, two captures,
the leader and its descendants with their pipes, the log channel, the token and the
deadline.  The selects are biased as in the code: cancellation, deadline, rest.
`WaitFails` is an error of `try_wait` or of the kill, after which the captures are
detached; `DropCall` the drop of the caller's future, which kills the leader alone
(`kill_on_drop`).

**StageExecution.tla** — a stage of the engine: a call of the executor,
`persist_stage_logs` as the receiver of its channel (`writer`, the event in its
`hand`, the events `stored`), and the engine, which first awaits the call, then the
writer, then makes its `report` (247–272).  The writer ends when every sender is
gone, the detached captures' included: this is where the parts can wait on each other.
It stores an event while the two streams together are below `LogLimit`, cutting the one
that crosses it (`Insert`), and from then on takes events and drops them (`Skip`); both
leave `logsTruncated` set.

**StageLogs.tla** — the stages of one run: captures, channel, `persist_stage_logs`
with the limit, the engine that joins the writer and records the flag, and a client
that pages with OFFSET.  How captures end is `StageExecution`'s.  Output is numbered, so that a row is an interval of it.

**Auth.tla** — setup and login, with `LoginLimiter`, the hashing permits and
blocking tasks that outlive their dropped handlers; and `current_user` and `logout`,
a SELECT and a DELETE, with the session of one login (`Followed`).  `guesses`
(history) counts, per key and window, passwords that were tried and not found right.
The clock has five instants: before the second of the expiry, the fractions .0, .5 and
.52 of it, and after it.  sqlx writes a time as RFC 3339 text without trailing zeros,
and SQLite compares texts, so within a second .52 comes before .5 and both before .0
(`TextAfter`); `SessionsEnd` says that nothing but that second is affected.

**ProjectSync.tla** — the rows of a project and its credentials with their foreign
key, `update` as a read and a write, and `sync` with its three reads and then
`sync_internal`, one action per git command.  git is external: what its commands do
to the workspace was taken from git 2.39 and from how the code uses them.  A clone is
four actions: it makes `.git` with the URL (`begun`), asks for the branch and writes the
refspec (`configured`), fetches the objects and writes the references, and fills the
tree.  The handler takes any `.git` for a workspace, so calls meet each of these states,
while the clone goes on or after it was killed: a fetch in a configured workspace makes
the remote-tracking branch that the clone did not, and a checkout the local one
(`LocalHead`).  The workspace keeps the cloned branch (`tracked`), its remote-tracking commit
(`fetched`), the local branch (`head`), the tree on disk, and the lock files that a
killed command left (`lock`), which refuse every later command that needs them.
`since` and `company` are history: the head at the start, and whether another
synchronisation, perhaps a clone, was in the workspace.  A call that fails at a git command of its own ends as `failed`, one that is refused
before or stopped from outside as `idle`; the handler then serves another call.

### Simplifications

* A check and the statement that follows it without an await between them are one
  action; so are dropping the permits and the statement before it, and cloning a
  token and cancelling it.
* Rows of deleted projects keep a status `"deleted"` in the engine; which run a call
  names and whether it uses git are constants.  Commits and log flags are in
  `PipelineRuns` and `StageLogs`, not in the engine.
* Branch, creator, names, messages, times (but for a session's expiry) and encrypted
  bytes are left out.  Validation is a request that is refused.  Endpoints that only
  read are left out, except paging and the session check.  In `Auth` every error
  answer of a login or setup is `refused`.
* The executor counts output in chunks, and the log in half chunks, so that the limit
  may cut an event.  Processes that leave the group (`setsid`) are not modelled.  `StageLogs` merges the two streams into the order in which the
  channel takes them.
* In `ProjectSync` each git command that is not killed changes the workspace at once
  (git's own lock files exclude each other), apart from clone, and every branch exists
  in every repository.  Where git would refuse because another git moved a reference
  under it, the command is one that fails.

## 3. Runs

Every property of a passing run has a mutant in `PROJECT.json`: a plausible bug in
one mapped definition that TLC finds with that run.  The type invariants of the
engine and of the permits are theorems (section 5) and not checked again here; in the
other modules they are conjuncts of the invariants `LimiterInv`, `OutputInv` (with
the type invariants of both `CommandExecutor` and `StageExecution`), `RowsInv`,
`RowInv` and `RunsInv`, where it also says that no handler ends with the write lock.

| Run | Instance | Shows |
|---|---|---|
| engine_calls | a run with 2 calls, a run of another project with git, one slot, cancels, deletion; fairness, no faults | exclusion and slot bound together; duplicates and cancellations do not interrupt an execution; calls return, claimed runs settle |
| engine_faults | 3 calls for one run (one with git), 1 cancel, API cancels, deletion, up to 2 failing statements, 1 restart | what still holds of runs, stages and permits; only faults leave a run running that nobody works on; refines `RunLifecycle`; 448,387 states |
| project_locks | 4 tasks, 2 projects, 4 semaphores; fairness | one live semaphore; the map refines `ProjectMutex`; waiters that stay are served |
| runs_requests | 2 projects, 3 requests out of create, retry, cancel, put, delete and list (pages of one), and the engine; 903,401 states | numbers, snapshots, retries, cancellations, lists; no handler keeps the write lock |
| executor | leader and descendant, with and without logs, pipes, channel and retained output of one chunk, two chunks per stream, a log limit of two and a half; failing kill, failing INSERT, dropped caller; fairness; 384,424 states | what a result says of output, log and processes; the stage is reported by the deadline alone, and without it if processes and writer go on |
| stage_logs | 2 stages, limit 3, chunks of 2, events of 1–3, output to 5; 19,689 states | rows, truncation, pages |
| auth | 4 logins (3 of one key), 2 setups, limit 2, table of 1, one permit; 2 calls with the session of the fourth login; 830,526 states | the limiter; one administrator; the end of a session |
| sync | 2 handlers that synchronise repeatedly, 1 update, 2 repositories, 2 branches, 1 credential, 1 push, every command and every step of a clone may fail or be killed; 2,353,280 states | references and credentials, exact snapshots, clean trees, recovery |

The bounds are the smallest with which the cases meet.  Three calls for one run are
a claimer, a duplicate behind it and one behind that; two failing statements let
both a step and its settlement fail; a restart is the same at every point, and what
it loses is memory, so a second adds nothing that a further call does not.  In
`engine_calls` one slot and two projects make project and slot waits cross.  Requests
are used once, and every request is a choice of calls, so that three cover a create
with every pair of later calls; two runs are enough to number, and a retry may be
retried.  The limits of the logs are chosen so that a chunk is split, cut and dropped;
those of the executor so that every buffer is full after one chunk, and its log limit
so that of two streams' four chunks two are stored, one is cut and one is dropped.  Three logins of
one key against a limit of two are the first that can exceed it; two calls let a logout
meet a request, or another logout, of the same session.  Two synchronising
handlers overlap in every way, and as each serves call after call, what a pair of
them leaves on disk meets a later one on its own; one push gives a fetch something to
be behind of, and the second branch something to be confused with.

`runs_requests` checks no temporal property, and needs none: the handlers take no
step twice, so the absence of a deadlock before every request is answered, which
TLC checks, means that every call that goes on is answered.

Deadlock is checked everywhere except in `sync`, whose processes may all be idle for
ever; the others have an explicit final step (`Quiesce`, `Terminated`), except the
tasks of `project_locks`, which never finish.
Symmetry is used among the handlers of `auth` and `sync`, which check no liveness.

### Fairness

* `PipelineEngine`: weak fairness of every task.  tokio polls every task
  that can go on; a command ends at the latest at its time limit, so the step that
  ends it is fair too.  The number of calls is finite, which is why weak fairness is
  enough for the permits.
* `ProjectLocks`: strong fairness of `Acquire`, because tokio's semaphore serves its
  waiters in order and a permit may be taken and returned many times before a
  task's turn.  `Abandon` is not fair: nobody has to give up.
* `StageExecution`: weak fairness of the waiting task, the captures, the writer and the
  engine only.  Errors are not owed: `WaitFails` and `DropCall` are outside the fair
  steps, or the wait would always end by failing.  `DeadlineReturns` states as its
  premise that time passes (`Expire`) and assumes nothing of the processes; its
  conclusion is the report, unless the captures were detached, whose pipes only the
  processes can close.  `DrainReturns` assumes the opposite: the deadline need not come,
  but processes finish their writes and exit.

## 4. What the code does not do

Runs that expect a violation, with the sentence they refute in `PROJECT.json`:

* `engine_accepted_cancel`: a cancellation that was accepted ends as failed.  Either
  the command has already failed and nothing looks at the token again, or a duplicate
  queued behind the cancelled execution gets the permits before the cancellation is
  written, finds the token still in the map, returns `AlreadyRunning` and fails the
  run (which `duplicate_execution_does_not_fail_the_active_run` does not provoke).
* `engine_lost_token`: a duplicate that is `NotPending` removes the map entry of the
  execution that is running, which can then no longer be cancelled.
* `executor_orphan`: when the leader has exited and the token is cancelled while the
  output is collected, the result is `Cancelled` and descendants live on.
* `sync_branch`: the first synchronisation clones one branch only; after a change of
  `default_branch` every further one fails at the checkout.

Two further differences between text and code are in the models without a run of
their own: a retry copies the commit of its source (the design, `src/LiteCI_需求与设计文档_v0.1.md:2727`,
names the same commit as the default; `RetrySameSnapshot` holds of it until then), and `execute_with_git` then overwrites it with
the head of the branch (`EngineRecord`); and `setup` ignores the peer's address
(`BeginSetup`), which `src/README.md:17` restricts to the loopback interface while
`tests/auth.rs:74` expects a remote one to be accepted.

## 5. Proofs

TLAPS checks eight modules, and with them every safety property of the passing runs,
invariants, action properties and refinements, for every value of the constants:
any number of projects, runs, stages, calls, tasks, handlers and processes, any
limits and capacities, any number of failing statements, restarts and pushes.
Nothing is assumed but the assumptions on the constants (`LocksAssumption`,
`EngineAssumption`, `RunsAssumption`, `ExecutorAssumption`, `StageAssumption`,
`LogsAssumption`, `AuthAssumption`, `SyncAssumption`): what a constant's type is, that `None` is none of
the values it stands beside, that what is counted is finite.  Two theorems have
`MaxDbErrors = 0` as a hypothesis, because they are about the engine without failing
statements, as the run `engine_calls` is; with failing statements they are false.

**ProjectLocksProofs** — `IInv == TypeOK /\ OwnersInv /\ PermitInv`.  `OwnersInv`
says that all owners of semaphores of a project own the one its map entry points to;
this is what makes the sweep harmless, since it removes entries without owners
only.  `PermitInv` says that a live semaphore has its permit exactly when no owner
holds it.  From it: `OneLiveSemaphoreHolds`, `MutualExclusionHolds`, and
`LocksImplementMutex` with the refinement mapping `holders`.

**PipelineEngineProofs** — `IInv` is the conjunction of

* `TypeOK`, `LockInv` (the project permit is out exactly to those whose `pc` says
  so) and `SlotInv` (free slots plus holders are all slots), which are inductive on
  their own and give `TypeCorrect`, `ProjectsExclusive`, `ConcurrencyBounded`;
* `ClaimInv`: a pending run has no claimant; whoever is past its claim is the
  claimant and its run is running, failed or deleted — never cancelled or
  successful, since only the claimant writes these.  The unconditional
  `UPDATE .. 'failed'` (286) is harmless for this reason alone;
* `StageInv`: which stages of a run can still be pending or running, by where its
  execution stands (`MayBePending`, `MayBeRunning`).  Without it `TerminalRunSettled`
  is not inductive: `FailRun` and `Finish` write the run's row without looking at
  the stages;
* `TerminalRunSettled` itself.

`RunningAttended` proves `OnlyFaultsAbandon` from `IInv` and `AttendedInv`: a run that is
running has its claimant at one of the points behind the claim or before its
settlement, unless it died in a restart or a statement failed.

From `IInv` follow `ClaimantExecutes` and `TerminalSettled`, and with one lemma per
step the action properties `TerminalFinal`, `StagesStartInRunningRuns`, `ClaimsFinal`
and the refinement `EngineImplementsMutex`, in which a permit is given back by every
return from `execute_inner`.  The engine knows the permits as that mutex only, and
`LocksImplementMutex` says that the map of weak semaphores is one.

**EngineLifecycleProofs** — `IInv` says which stages may be open but not what became
of the others, so that an abstract stage could start after one that had failed.
`ProgressInv` adds it: what an execution has done succeeded, what it has to do was
never started, and its stage in flight is running or was failed together with its
run by a call that settled it (`Foreign` says what other calls can do to the rows).
From it:

* `EngineImplementsLifecycle`: every step of the engine is a step of `RunLifecycle`
  or none; hence, in `RunLifecycle`'s terms, `StagesOrdered` and `SuccessSumsUp`;
* `NothingHeld`, with `EntryInv`: a map entry belongs to an execution that still has
  `remove` before it, and a permit to one of the permit's own project;
* `DuplicatesDoNotInterrupt` and `StageResultsFinal`, with `NoErrorInv`: without
  failing statements a call fails before its claim only because it met the entry of
  an execution that was leaving already, so what it settles is no longer worked on.

**PipelineRunsProofs** — a property of published rows is not inductive, because a
COMMIT publishes what a handler did in steps before it.  `CoreInv` says of every
open transaction what it has changed so far, against rows that nobody else can change
while it has the write lock (`DraftOK`), and of what `retry` read before its
transaction that it is still true while the project exists (`SourceOK`).  Under it
every step of the system is one of five changes of the rows (`RowsStep`): insert a
run, configure a project, update a run that has not ended, delete a project, or
nothing.  Each property is then preserved by each change: `NumbersHaveNoGap`,
`RetriesRepeat`, `RunsAppearWhole`, `ConfigurationKept`;
`CancellationsHold` with `CancelInv` (from the moment the cancelling transaction has
been committed); `PagesMissNothing` with `ListInv`: what a client has not been given
is at a rank not below its next offset, and ranks only grow.

**StageExecutionProofs** — `ExecutionInv` accounts for every chunk: what a stream
produced, less the writes under way, the pipe and the chunk in the capture's hand, has
passed its capture; that is what is retained up to the limit, and, with logs, what is
delivered to the channel (`OutputKept`).  The equations hold of a stream that no kill,
error or abort has hurt, inequalities always.  What was delivered is queued, in the
writer's hand or `Handled`, and `LogKept` says what became of that, as long as no INSERT
failed: the flag is set exactly when the two streams have more of it than the limit,
the log is then full, and otherwise it holds all of it.  With `GroupInv` (an ended
capture has read everything, and no process that lives can write) and `WriterInv` they
give `OutputComplete`, `LogComplete` and, with `CallInv`, `KillComplete`.

**StageLogsProofs** — `LogsInv`: the rows of a stage, the chunks in hand and the
channel are one chain of intervals without a gap (`Chain`), and the truncated flag is
set exactly when the chain was cut at the limit (`Flow`).  It gives `RowsTellPrefix`
and `FlagTellsTruncation`.  `PagesAreExact` is about the concatenation of all stages'
rows, a recursive function of the stage.  The library's theorems on recursion and
induction take operators as parameters and cannot be instantiated by the provers;
`RecursionExists` and `InductiveSet` prove the two facts needed about sets of numbers
instead.  `RowsGrow` says that every step only appends to the concatenation, since
stages write one after the other, and `PageInv` that what a client has read is a
prefix of it.

**AuthProofs** — `BaseInv` has the types, the permits as a count (`WorkerInv`), the
claim of the one row of `setup_state` (`SetupInv`: the setup that holds the write lock
is the only one between claim and insertion, and it found no claim) and the
session (`SessionInv`); from it `OneAdmin` and `SessionsEndInTime`.  `LimiterOK` adds
the counts: an entry's `in_flight` is the number of attempts under way, failures and
attempts together stay within the limit, and the wrong guesses of the window are
failures already or verifications still running.  It gives `LimiterHolds` and
`GuessesStayBounded`.

**ProjectSyncProofs** — `SyncInv` says of each handler what it may rely on in the
workspace whoever else is at work there (`Place`), what it has read for its snapshot
(`Told`), and what holds if it is alone (`Lone`).  A step of a handler that is not at a
clone changes the workspace only `Onward`: it keeps its origin and branch, a reference
once there stays, and the head is the one it had or one fetched before.  A clone may
take all of it away again, or write an older head over a newer one; but a call that
started beside no clone meets none later, because a clone starts where there is no
`.git`, so `Place` claims nothing of the others.  With `Call` (the
credential is that of the row the call read) and the foreign key it gives all five
theorems.  `MaxPushes` bounds the runs only.

Only model-checked: the five liveness properties (`ExecutionsReturn`,
`RunningRunSettles`, `WaitersServed`, `DeadlineReturns`, `DrainReturns`), since
fairness and `ENABLED` are beyond the prover.

## 6. Not modelled

* Cipher (`credentials.rs`): one call of a library, no state.
* Validators of references, URLs, names and paths: predicates on the characters of a
  string; the models take their results.  `valid_ref` of `pipeline_runs.rs` and
  `validate_ref` of `git.rs` state the same conditions, so a run whose branch was
  accepted is not refused by the synchronisation.
* `prepare_workspace` beyond its failing: it creates and checks directories of one
  project, under that project's permit.
* Artifacts: nothing in this revision writes them.
* Configuration, router, start: read or wired once.
* The connection pool and SQLite's busy time limit appear only as statements that fail.
  No transaction of this code asks the pool for a second connection, so the pool cannot
  make a handler wait for itself.
* The expiry of sessions other than the followed one, and rows of sessions that
  expired, which nothing deletes.

Overlapping synchronisations of one project are not serialised by the code
(`docs/phase-3-git.md` lists the lock as not implemented).  The model has them, and
`SnapshotExact` says what still holds: the commit is one of the row's repository and
branch, and not an older one than at the start, unless a clone was under way; its
message and author are the commit's own only for a synchronisation that was alone.
A clone that was killed before it configured its branch leaves a `.git` that no later
call repairs, and any command that was killed may leave one of git's lock files;
`LoneSyncsRecover` excepts these two.  A clone killed later is repaired by the fetch,
checkout and reset of the next call, which it does not except.

Nothing settles a run whose row a restart, or a failing settlement, left `running`: the
process starts without looking at such rows, `execute` refuses them, the API's `cancel`
takes pending runs only, and the engine's `cancel` needs a token that is gone (a later
`execute` settles the row only by accident, when its own first SELECT fails).  The code
promises no recovery, so the models state none (`RunLifecycle` allows the row to stay,
and `RunningRunSettles` is checked without faults); `OnlyFaultsAbandon` states the
limit of the damage: nothing else leaves such a row.

## 7. Plan

Done, in this order: permits, engine, lifecycle and their first proofs; run API;
executor; logs; authentication; synchronisation; then the composition
`StageExecution` with failing kills and dropped callers, sessions, lists, and lock
files and overlapping synchronisations; then the proofs of every safety property.

Left of the models: a composition of `PipelineRuns` with the engine instead of its
abstract environment, which would multiply the two largest state spaces.

Left of the proofs: an abstract specification of a stage (output, then one report)
that `StageExecution` implements, so that the engine's `WorkFails` and `EndCommand`
rest on it as its permits rest on `ProjectMutex`; and that what the engine does to the
rows in `PipelineRuns` is what `RunLifecycle` allows, which would tie the two models of
the rows together without multiplying them.

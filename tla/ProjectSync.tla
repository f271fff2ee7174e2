----------------------------- MODULE ProjectSync -----------------------------
(***************************************************************************)
(* One project, the credentials it may name, and its Git workspace: the    *)
(* handlers of src/src/projects.rs that create, update, delete and         *)
(* synchronise the project, the handlers of src/src/credential_api.rs, and *)
(* GitService::sync (src/src/git.rs), which runs one git command after the *)
(* other in the one workspace of the project.  Any number of handlers may  *)
(* be under way; nothing serialises the synchronisations of a project.     *)
(*                                                                         *)
(* git itself is external.  Each of its commands works, fails or is killed *)
(* (time limit, or the handler is dropped with its client); git's own lock *)
(* files make a command's change of the workspace atomic, except for       *)
(* clone, which has four steps.  A commit is the n-th head of a branch of  *)
(* a repository.                                                           *)
(***************************************************************************)
EXTENDS Naturals, FiniteSets, Functions

CONSTANTS
  Syncs,               \* synchronising handlers under way at once, each serving
                       \* one call after the other
  Updates,             \* handlers that update the project
  Urls, Branches,
  Credentials,
  KindOf,              \* the kind of a credential: "https_token" or "ssh_key"
  SchemeOf,            \* the kind of credential a URL wants
  NewRows,             \* what create is asked for
  Requests,            \* what updates ask for; Keep for an absent field
  Faults,              \* subset of {"fails", "killed"}: what befalls commands
  MaxPushes,           \* bound: pushes to all remote repositories together
  None, Keep,
  Mixed                \* a tree that is of no commit

Rows == [url : Urls, branch : Branches, auth : Credentials \union {None}]
Commits == [url : Urls, branch : Branches, n : Nat]

ASSUME SyncAssumption ==
  /\ KindOf \in [Credentials -> {"https_token", "ssh_key"}]
  /\ SchemeOf \in [Urls -> {"https_token", "ssh_key"}]
  /\ NewRows \subseteq Rows
  /\ Requests \subseteq [url : Urls \union {Keep}, branch : Branches \union {Keep},
                         auth : Credentials \union {None, Keep}]
  /\ Faults \subseteq {"fails", "killed"} /\ MaxPushes \in Nat
  /\ None # Keep /\ {None, Keep, Mixed} \cap (Urls \union Branches \union Credentials) = {}
  /\ None \notin Rows \union Commits \union {"refs", "index"}

VARIABLES
  row,         \* the row of projects: None before create and after delete
  created,     \* create has given out the project's id
  creds,       \* per credential: "new", "stored" or "deleted"
  remote,      \* per repository and branch: the number of its head
  workspace,   \* the project's workspace on disk
  sync,        \* per synchronising handler: its progress and what it read
  update       \* per updating handler: its progress and the row it writes

vars == <<row, created, creds, remote, workspace, sync, update>>

Stored == {k \in Credentials : creds[k] = "stored"}
Head(url, branch) == [url |-> url, branch |-> branch, n |-> remote[<<url, branch>>]]

\* A workspace without .git, and one in which a clone has begun; with the
\* refspec that --branch --single-branch writes it is "configured".
Bare == [git |-> "none", origin |-> None, tracked |-> None, fetched |-> None,
         head |-> None, tree |-> None, extra |-> FALSE, lock |-> None]
Begun(url) == [Bare EXCEPT !.git = "begun", !.origin = url]

NewSync == [pc |-> "idle", row |-> None, secret |-> None, sha |-> None, message |-> None,
            author |-> None, since |-> 0, company |-> "alone"]

Init ==
  /\ row = None /\ created = FALSE
  /\ creds = [k \in Credentials |-> "new"]
  /\ remote = [x \in Urls \X Branches |-> 0]
  /\ workspace = Bare
  /\ sync = [s \in Syncs |-> NewSync]
  /\ update = [u \in Updates |-> [pc |-> "idle", row |-> None]]

-----------------------------------------------------------------------------
(* The rows                                                                *)

\* projects.git_auth_id REFERENCES credentials(id)
References(r) == r.auth \in Stored \union {None}

Create(r) ==
  /\ ~created
  /\ References(r)
  /\ created' = TRUE /\ row' = r
  /\ UNCHANGED <<creds, remote, workspace, sync, update>>

\* The handler reads the row and takes from it what the request leaves out.
Merge(request) ==
  [url    |-> IF request.url = Keep THEN row.url ELSE request.url,
   branch |-> IF request.branch = Keep THEN row.branch ELSE request.branch,
   auth   |-> IF request.auth = Keep THEN row.auth ELSE request.auth]

\* Whatever the handler answers.
Answered == [pc |-> "done", row |-> None]

UpdateRead(u, request) ==
  /\ update[u].pc = "idle" /\ created
  /\ update' = [update EXCEPT ![u] =
       IF row = None THEN Answered ELSE [pc |-> "write", row |-> Merge(request)]]
  /\ UNCHANGED <<row, created, creds, remote, workspace, sync>>

\* It writes every column.  A row deleted meanwhile is not found any more, a
\* credential deleted meanwhile is a foreign key that fails.
UpdateWrite(u) ==
  /\ update[u].pc = "write"
  /\ row' = IF row # None /\ References(update[u].row) THEN update[u].row ELSE row
  /\ update' = [update EXCEPT ![u] = Answered]
  /\ UNCHANGED <<created, creds, remote, workspace, sync>>

Delete ==
  /\ row # None
  /\ row' = None
  /\ UNCHANGED <<created, creds, remote, workspace, sync, update>>

CreateCredential(k) ==
  /\ creds[k] = "new"
  /\ creds' = [creds EXCEPT ![k] = "stored"]
  /\ UNCHANGED <<row, created, remote, workspace, sync, update>>

\* Mutant: the column has no ON DELETE SET NULL.
KeepReference(k) == row

\* git_auth_id ... ON DELETE SET NULL
SetNull(k) == IF row # None /\ row.auth = k THEN [row EXCEPT !.auth = None] ELSE row

DeleteCredential(k) ==
  /\ creds[k] = "stored"
  /\ creds' = [creds EXCEPT ![k] = "deleted"]
  /\ row' = SetNull(k)
  /\ UNCHANGED <<created, remote, workspace, sync, update>>

-----------------------------------------------------------------------------
(* The first half of a synchronisation: the row and its credential         *)

\* No call under way: none yet, refused or stopped from outside; failed at a
\* git command; answered with a snapshot.  The handler may serve another call.
Ended == {"idle", "failed", "done"}
Quiet == UNCHANGED <<row, created, creds, remote, update>>
Step(s, pc) == sync' = [sync EXCEPT ![s].pc = pc]
Stop(s, pc) == sync' = [sync EXCEPT ![s] = [NewSync EXCEPT !.pc = pc]]
Row(s) == sync[s].row

\* A refused call is one that ends before its first git command.
Find(s) ==
  /\ sync[s].pc \in Ended /\ created
  /\ sync' = [sync EXCEPT ![s] =
       IF row = None THEN NewSync
       ELSE [NewSync EXCEPT !.pc = IF row.auth = None THEN "prepare" ELSE "kind",
                      !.row = row]]
  /\ UNCHANGED workspace /\ Quiet

ReadKind(s) ==
  /\ sync[s].pc = "kind"
  /\ IF Row(s).auth \in Stored THEN Step(s, "decrypt") ELSE Stop(s, "idle")
  /\ UNCHANGED workspace /\ Quiet

\* The credential is of the kind that the URL wants.
Fits(k, url) == KindOf[k] = SchemeOf[url]

\* Mutant: a credential that cannot be read is left out.
NoCredential(s) == sync' = [sync EXCEPT ![s].pc = "prepare"]

Refuse(s) == Stop(s, "idle")

\* Without a fitting credential, or with a payload that cannot be decrypted or
\* parsed, the synchronisation is refused.
Decrypt(s) ==
  /\ sync[s].pc = "decrypt"
  /\ LET k == Row(s).auth
     IN \/ /\ k \in Stored /\ Fits(k, Row(s).url)
           /\ sync' = [sync EXCEPT ![s].pc = "prepare", ![s].secret = k]
        \/ Refuse(s)
  /\ UNCHANGED workspace /\ Quiet

-----------------------------------------------------------------------------
(* GitService::sync_internal                                               *)

Commands == {"clone", "cloning", "fetching", "filling", "origin", "fetch", "checkout",
             "reset", "clean", "sha", "message", "author"}
Running == {s \in Syncs : sync[s].pc \in Commands}

\* The handlers whose clone has yet to write its references.
Cloning == {s \in Syncs : sync[s].pc \in {"cloning", "fetching"}}

\* The workspace exists and the credential is on disk; .git says what to do.
\* since and company record, for the properties, the head at this point and
\* which other synchronisations are at work in the workspace: none, one that
\* is cloning it just now, or some other.
Company ==
  IF Running = {} THEN "alone" ELSE IF Cloning # {} THEN "clone" ELSE "shared"

Joined(t) == IF sync[t].company = "alone" THEN "shared" ELSE sync[t].company

Prepare(s) ==
  /\ sync[s].pc = "prepare"
  /\ sync' = [t \in Syncs |->
       IF t = s THEN [sync[s] EXCEPT
            !.pc = IF workspace.git = "none" THEN "clone" ELSE "origin",
            !.since = remote[<<Row(s).url, Row(s).branch>>],
            !.company = Company]
       ELSE IF t \in Running THEN [sync[t] EXCEPT !.company = Joined(t)] ELSE sync[t]]
  /\ UNCHANGED workspace /\ Quiet

\* git clone: refuses a directory that is not empty any more, ...
CloneStart(s) ==
  /\ sync[s].pc = "clone"
  /\ IF workspace.git = "none"
     THEN workspace' = Begun(Row(s).url) /\ Step(s, "cloning")
     ELSE UNCHANGED workspace /\ Stop(s, "failed")
  /\ Quiet

\* ... asks for the branch and configures it, ...
CloneConfigure(s) ==
  /\ sync[s].pc = "cloning"
  /\ workspace' = [workspace EXCEPT !.git = "configured", !.tracked = Row(s).branch]
  /\ Step(s, "fetching")
  /\ Quiet

\* ... fetches the head that it was told then and writes it over whatever
\* references another call has made meanwhile, ...
CloneFetch(s) ==
  /\ sync[s].pc = "fetching"
  /\ \E n \in sync[s].since .. remote[<<Row(s).url, Row(s).branch>>] :
       LET told == [Head(Row(s).url, Row(s).branch) EXCEPT !.n = n]
       IN workspace' = [workspace EXCEPT !.fetched = told, !.head = told]
  /\ Step(s, "filling")
  /\ Quiet

\* Nothing is in the way of filling the tree.
Unfilled == workspace.tree = None /\ ~workspace.extra

\* ... and fills the tree, if it is empty still.
CloneFill(s) ==
  /\ sync[s].pc = "filling"
  /\ IF Unfilled /\ workspace.lock # "index"
     THEN workspace' = [workspace EXCEPT !.tree = workspace.head] /\ Step(s, "sha")
     ELSE UNCHANGED workspace /\ Stop(s, "failed")
  /\ Quiet

\* verify_origin: git remote get-url.  A clone that has only begun may not
\* have written the URL yet.
VerifyOrigin(s) ==
  /\ sync[s].pc = "origin"
  /\ \/ workspace.origin = Row(s).url /\ Step(s, "fetch")
     \/ workspace.origin # Row(s).url /\ Stop(s, "failed")
     \/ workspace.git = "begun" /\ Stop(s, "failed")
  /\ UNCHANGED workspace /\ Quiet

\* The branch of the row is the one that the workspace was cloned with.
OnTrackedBranch(s) == workspace.tracked = Row(s).branch

\* git fetch --prune origin <branch>: the refspec that clone --single-branch
\* has configured maps the cloned branch only; any other is just downloaded.
Fetch(s) ==
  /\ sync[s].pc = "fetch"
  /\ IF workspace.git = "none" \/ (OnTrackedBranch(s) /\ workspace.lock = "refs")
     THEN UNCHANGED workspace /\ Stop(s, "failed")
     ELSE /\ workspace' = IF OnTrackedBranch(s)
               THEN [workspace EXCEPT !.fetched = Head(workspace.origin, Row(s).branch)]
               ELSE workspace
          /\ Step(s, "checkout")
  /\ Quiet

\* The local branch, which checkout makes of the remote-tracking one where a
\* clone did not get so far.
LocalHead == IF workspace.head = None THEN workspace.fetched ELSE workspace.head

\* Mutant: the checkout is not forced.
CanCheckoutPlain(s) ==
  /\ OnTrackedBranch(s) /\ LocalHead # None /\ workspace.lock # "index"
  /\ workspace.tree # Mixed

\* There is no branch but the cloned one.
CanCheckout(s) == OnTrackedBranch(s) /\ LocalHead # None /\ workspace.lock # "index"

\* git checkout --force <branch>
Checkout(s) ==
  /\ sync[s].pc = "checkout"
  /\ IF CanCheckout(s)
     THEN /\ workspace' = [workspace EXCEPT !.head = LocalHead, !.tree = LocalHead]
          /\ Step(s, "reset")
     ELSE UNCHANGED workspace /\ Stop(s, "failed")
  /\ Quiet

\* Mutants: reset to HEAD; untracked files are left.
CurrentHead == workspace.head
AllFiles == workspace.extra

\* git reset --hard origin/<branch>
Target == workspace.fetched

Reset(s) ==
  /\ sync[s].pc = "reset"
  /\ IF OnTrackedBranch(s) /\ Target # None /\ workspace.lock # "index"
     THEN workspace' = [workspace EXCEPT !.head = Target, !.tree = Target] /\ Step(s, "clean")
     ELSE UNCHANGED workspace /\ Stop(s, "failed")
  /\ Quiet

\* git clean -ffdx
FilesLeft == FALSE

Clean(s) ==
  /\ sync[s].pc = "clean"
  /\ IF workspace.git # "none"
     THEN workspace' = [workspace EXCEPT !.extra = FilesLeft] /\ Step(s, "sha")
     ELSE UNCHANGED workspace /\ Stop(s, "failed")
  /\ Quiet

\* git rev-parse HEAD, git log -1 --format=%B, git log -1 --format=%an: three
\* commands, each reading the HEAD of its moment.
ReadSha(s) ==
  /\ sync[s].pc = "sha"
  /\ IF workspace.head # None
     THEN sync' = [sync EXCEPT ![s].pc = "message", ![s].sha = workspace.head]
     ELSE Stop(s, "failed")
  /\ UNCHANGED workspace /\ Quiet

ReadMessage(s) ==
  /\ sync[s].pc = "message"
  /\ IF workspace.head # None
     THEN sync' = [sync EXCEPT ![s].pc = "author", ![s].message = workspace.head]
     ELSE Stop(s, "failed")
  /\ UNCHANGED workspace /\ Quiet

ReadAuthor(s) ==
  /\ sync[s].pc = "author"
  /\ IF workspace.head # None
     THEN sync' = [sync EXCEPT ![s].pc = "done", ![s].author = workspace.head]
     ELSE Stop(s, "failed")
  /\ UNCHANGED workspace /\ Quiet

\* What a command that does not finish leaves behind: a failing clone removes
\* what it made, a killed one cannot; a checkout or reset leaves a mixed tree,
\* and a command that is killed may leave the lock file it holds.
LeftBy(command, fault) ==
  CASE command \in {"cloning", "fetching"} /\ fault = "fails" -> {Bare}
    [] command = "fetch" /\ fault = "killed" /\ workspace.git = "configured" ->
         {workspace, [workspace EXCEPT !.lock = "refs"]}
    [] command \in {"filling", "checkout", "reset"} /\ workspace.git = "configured" ->
         {[workspace EXCEPT !.tree = Mixed, !.extra = TRUE, !.lock = l] :
            l \in {workspace.lock} \union (IF fault = "killed" THEN {"index"} ELSE {})}
    [] OTHER -> {workspace}

Fault(s, fault) ==
  /\ s \in Running
  /\ workspace' \in LeftBy(sync[s].pc, fault)
  /\ Stop(s, "idle")
  /\ Quiet

SyncProject(s) ==
  \/ Find(s) \/ ReadKind(s) \/ Decrypt(s) \/ Prepare(s)
  \/ CloneStart(s) \/ CloneConfigure(s) \/ CloneFetch(s) \/ CloneFill(s)
  \/ VerifyOrigin(s) \/ Fetch(s) \/ Checkout(s) \/ Reset(s) \/ Clean(s)
  \/ ReadSha(s) \/ ReadMessage(s) \/ ReadAuthor(s)

-----------------------------------------------------------------------------

Pushes == FoldFunction(LAMBDA m, n : m + n, 0, remote)

\* Somebody pushes to a repository, forced or not.
Push(url, branch) ==
  /\ created /\ Pushes < MaxPushes
  /\ remote' = [remote EXCEPT ![<<url, branch>>] = @ + 1]
  /\ UNCHANGED <<row, created, creds, workspace, sync, update>>

Next ==
  \/ \E r \in NewRows : Create(r)
  \/ \E u \in Updates, request \in Requests : UpdateRead(u, request)
  \/ \E u \in Updates : UpdateWrite(u)
  \/ Delete
  \/ \E k \in Credentials : CreateCredential(k) \/ DeleteCredential(k)
  \/ \E s \in Syncs : SyncProject(s) \/ \E f \in Faults : Fault(s, f)
  \/ \E x \in Urls \X Branches : Push(x[1], x[2])

Spec == Init /\ [][Next]_vars

-----------------------------------------------------------------------------
(* Properties                                                              *)

Workspaces ==
  [git : {"none", "begun", "configured"}, origin : Urls \union {None},
   tracked : Branches \union {None}, fetched : Commits \union {None},
   head : Commits \union {None}, tree : Commits \union {None, Mixed},
   extra : BOOLEAN, lock : {None, "refs", "index"}]

SyncStates ==
  [pc : Commands \union {"idle", "kind", "decrypt", "prepare", "failed", "done"},
   row : Rows \union {None}, secret : Credentials \union {None},
   sha : Commits \union {None}, message : Commits \union {None},
   author : Commits \union {None}, since : Nat,
   company : {"alone", "shared", "clone"}]

\* Types; without .git there is nothing in the workspace, and a repository has
\* branches only when one is configured.
TypeOK ==
  /\ row \in Rows \union {None} /\ created \in BOOLEAN
  /\ creds \in [Credentials -> {"new", "stored", "deleted"}]
  /\ remote \in [Urls \X Branches -> Nat]
  /\ workspace \in Workspaces
  /\ sync \in [Syncs -> SyncStates]
  /\ update \in [Updates -> [pc : {"idle", "write", "done"},
                             row : Rows \union {None}]]
  /\ (workspace.git = "none") <=> (workspace.origin = None)
  /\ (workspace.git = "configured") <=> (workspace.tracked # None)
  /\ workspace.head # None \/ workspace.fetched # None => workspace.git = "configured"
  /\ workspace.git = "none" => workspace = Bare

\* The project never names a credential that is not stored, although an update
\* writes back a reference that it read before the credential was deleted.
NoDanglingCredential == row # None => row.auth \in Stored \union {None}

\* Every state is well formed and the reference of the row is sound, whatever
\* updates, deletions and synchronisations do in between.
RowInv == TypeOK /\ NoDanglingCredential

\* git runs with the very credential that the row named, of the kind that the
\* URL of the same row wants: never anonymously because the credential was
\* deleted between the three reads of projects::sync.
GitUsesAssignedCredential ==
  \A s \in Running :
    /\ sync[s].secret = Row(s).auth
    /\ Row(s).auth # None => Fits(Row(s).auth, Row(s).url)

\* A commit of the row's branch in the row's repository, not older than the
\* head at the start.
OfRow(s, commit) ==
  /\ commit # None /\ commit.url = Row(s).url /\ commit.branch = Row(s).branch
  /\ commit.n \in sync[s].since .. remote[<<Row(s).url, Row(s).branch>>]

\* Whatever earlier calls left on disk and whichever overlap, what a snapshot
\* tells are commits of the row that are not stale, unless another call was
\* cloning at its start: that clone may fail, and the next be of another
\* repository, or write an older head over a newer one.  Without another call in the workspace sha, message and author
\* are of one commit.
SnapshotExact ==
  \A s \in Syncs : sync[s].pc = "done" =>
    LET told == {sync[s].sha, sync[s].message, sync[s].author}
    IN /\ sync[s].company # "clone" => \A commit \in told : OfRow(s, commit)
       /\ sync[s].company = "alone" => told = {sync[s].sha}

\* Once a synchronisation without another in the workspace has read the commit,
\* the tree on disk is that of the commit, with no file of an interrupted
\* checkout left in it.
LoneTreeClean ==
  \A s \in Syncs :
    sync[s].pc \in {"message", "author"} /\ sync[s].company = "alone" =>
      workspace.tree = sync[s].sha /\ ~workspace.extra

\* Whatever failed before, short of a clone killed before it has configured its
\* branch and of a lock file left by a killed command, the next synchronisation
\* works: on its own, with no command failing, it fails only for a workspace of
\* another repository or of another branch.  A clone killed later is mended.
LoneSyncsRecover ==
  [][\A s \in Syncs :
       s \in Running /\ sync'[s].pc = "failed" /\ sync[s].company = "alone" =>
         \/ workspace.git = "begun" \/ workspace.lock # None
         \/ workspace.origin # Row(s).url
         \/ workspace.tracked # Row(s).branch]_vars

\* An existing workspace of the repository is brought to the branch by fetch,
\* forced checkout and reset (src/docs/phase-3-git.md:10).  After a change of
\* default_branch it is not: the checkout fails, every time.
BranchIsCheckedOut ==
  [][\A s \in Syncs :
       s \in Running /\ sync'[s].pc = "failed" /\ sync[s].company = "alone" =>
         \/ workspace.git = "begun" \/ workspace.lock # None
         \/ workspace.origin # Row(s).url]_vars
=============================================================================

--------------------------- MODULE ProjectSyncProofs ---------------------------
(***************************************************************************)
(* What is proved of ProjectSync, for any number of handlers, repositories,*)
(* branches, credentials and pushes, and whatever befalls the commands:    *)
(* references and credentials are sound, snapshots tell commits of the     *)
(* row, and a call that has the workspace for itself mends what earlier    *)
(* ones left behind.                                                       *)
(***************************************************************************)
EXTENDS ProjectSync, TLAPS

-----------------------------------------------------------------------------
(* The inductive invariant, as facts about the record r of a handler, the  *)
(* workspace w, the heads m of the remote repositories and the set c of    *)
(* the handlers whose clone has yet to write its references.               *)

\* The row of a call, and the credential that git will use.
Call(r) ==
  /\ r.pc \notin {"idle", "failed"} => r.row \in Rows
  /\ r.pc \in {"kind", "decrypt"} => r.row.auth # None
  /\ r.pc \in Commands \union {"prepare"} =>
       r.secret = r.row.auth /\ (r.row.auth # None => Fits(r.row.auth, r.row.url))

\* The commits of a repository are of its origin and its one branch.
Repository(w, m) ==
  \A x \in {w.head, w.fetched} : x # None =>
    /\ x \in Commits /\ x.url = w.origin /\ x.branch = w.tracked
    /\ x.n <= m[<<w.origin, w.tracked>>]

\* Cloning; at work in what a clone has left; there with the branch of the row.
Clones == {"cloning", "fetching"}
AtWork == Commands \ {"clone", "cloning", "fetching"}
OnBranch == {"filling", "reset", "clean", "sha", "message", "author"}

\* What a call relies on in the workspace, whoever else is at work there: none
\* that started beside no clone meets one later.
Place(r, w, m, c) ==
  /\ r.pc \in Commands => r.since <= m[<<r.row.url, r.row.branch>>]
  /\ r.pc \in Clones => w.git # "none" /\ w.origin = r.row.url
  /\ r.pc = "cloning" => w.git = "begun"
  /\ r.pc = "fetching" => w.tracked = r.row.branch
  /\ r.pc \in AtWork /\ r.company # "clone" =>
       /\ w.git # "none" /\ c = {}
       /\ r.pc # "origin" => w.origin = r.row.url
       /\ r.pc \in OnBranch => w.tracked = r.row.branch /\ w.head # None
       /\ r.pc \in {"checkout"} \union OnBranch /\ w.tracked = r.row.branch =>
            w.fetched # None /\ w.fetched.n >= r.since
       /\ r.pc \in OnBranch \ {"reset"} => w.head.n >= r.since

\* A commit of the row of the call that is not stale.
Tells(r, x, m) ==
  /\ x \in Commits /\ x.url = r.row.url /\ x.branch = r.row.branch
  /\ x.n \in r.since .. m[<<r.row.url, r.row.branch>>]

\* What has been read for the snapshot.
Told(r, m) ==
  r.company # "clone" =>
    /\ r.pc \in {"message", "author", "done"} => Tells(r, r.sha, m)
    /\ r.pc \in {"author", "done"} => Tells(r, r.message, m)
    /\ r.pc = "done" => Tells(r, r.author, m)

\* What a call finds that has the workspace for itself.
Lone(r, w) ==
  r.company = "alone" =>
    /\ r.pc = "clone" => w.git = "none"
    /\ r.pc \in {"cloning", "fetching", "filling"} => w.tree = None /\ ~w.extra
    /\ r.pc \in {"clean", "sha", "message", "author"} => w.tree = w.head
    /\ r.pc \in {"sha", "message", "author"} => ~w.extra
    /\ r.pc \in {"message", "author"} => r.sha = w.head
    /\ r.pc = "author" => r.message = w.head
    /\ r.pc = "done" => r.message = r.sha /\ r.author = r.sha

Handler(s) ==
  /\ Call(sync[s]) /\ Place(sync[s], workspace, remote, Cloning)
  /\ Told(sync[s], remote) /\ Lone(sync[s], workspace)

\* At most one clone has yet to write its references, and a call that is alone is the
\* only one at work.
Apart ==
  /\ \A s, t \in Cloning : s = t
  /\ \A s \in Running : sync[s].company = "alone" => Running = {s}

SyncInv ==
  /\ TypeOK /\ NoDanglingCredential
  /\ \A u \in Updates : update[u].pc = "write" => update[u].row \in Rows
  /\ Repository(workspace, remote)
  /\ \A s \in Syncs : Handler(s)
  /\ Apart

-----------------------------------------------------------------------------
(* Facts about constants                                                   *)

Heads == [Urls \X Branches -> Nat]

LEMMA CommitIsSomething ==
  ASSUME NEW x \in Commits PROVE x # None
BY SyncAssumption

LEMMA NewSyncTyped ==
  ASSUME NEW pc \in {"idle", "failed", "kind", "prepare"}, NEW r \in Rows \union {None}
  PROVE  /\ [NewSync EXCEPT !.pc = pc] \in SyncStates
         /\ [NewSync EXCEPT !.pc = pc, !.row = r] \in SyncStates
         /\ NewSync \in SyncStates
BY DEF NewSync, SyncStates

\* A workspace as TypeOK wants it.
Sound(w) ==
  /\ w \in Workspaces
  /\ (w.git = "none") <=> (w.origin = None)
  /\ (w.git = "configured") <=> (w.tracked # None)
  /\ w.head # None \/ w.fetched # None => w.git = "configured"
  /\ w.git = "none" => w = Bare

LEMMA SoundCommits ==
  ASSUME NEW w, Sound(w), NEW x \in {w.head, w.fetched}, x # None
  PROVE  x \in Commits /\ x.n \in Nat /\ w.git = "configured"
<1>1. x \in Commits /\ w.git = "configured"
  BY DEF Sound, Workspaces
<1> QED
  BY <1>1 DEF Commits

\* The change of the workspace by a step of another handler that is not at a
\* clone.
Onward(v, w) ==
  v.git # "none" =>
    /\ w.git = v.git /\ w.origin = v.origin /\ w.tracked = v.tracked
    /\ v.fetched # None => w.fetched # None /\ w.fetched.n >= v.fetched.n
    /\ v.head # None => w.head # None /\ w.head \in {v.head, v.fetched}

\* The change of the remote repositories by a step.
Later(m, n) == \A x \in Urls \X Branches : m[x] <= n[x]

LEMMA HeadOfRow ==
  ASSUME NEW m \in Heads, NEW r \in Rows
  PROVE  /\ r.url \in Urls /\ r.branch \in Branches
         /\ <<r.url, r.branch>> \in Urls \X Branches
         /\ m[<<r.url, r.branch>>] \in Nat
BY DEF Heads, Rows

LEMMA PlaceOnward ==
  ASSUME NEW r \in SyncStates, NEW v, NEW w, NEW m \in Heads, NEW n \in Heads, NEW c, NEW d,
         Sound(v), Sound(w), Call(r), Place(r, v, m, c), Later(m, n),
         r.pc \in Clones \/ c = {} => Onward(v, w),
         c = {} /\ v.git # "none" => d = {}
  PROVE  Place(r, w, n, d)
<1>1. r.pc \in Commands => r.since <= n[<<r.row.url, r.row.branch>>]
  <2> SUFFICES ASSUME r.pc \in Commands PROVE r.since <= n[<<r.row.url, r.row.branch>>]
    OBVIOUS
  <2>1. r.row \in Rows
    BY DEF Call, Commands
  <2>2. m[<<r.row.url, r.row.branch>>] <= n[<<r.row.url, r.row.branch>>]
    BY <2>1, HeadOfRow DEF Later
  <2>3. r.since \in Nat /\ r.since <= m[<<r.row.url, r.row.branch>>]
    BY DEF SyncStates, Place
  <2> QED
    BY <2>1, <2>2, <2>3, HeadOfRow
<1>2. r.pc \in Clones => w.git # "none" /\ w.origin = r.row.url
  BY DEF Place, Onward
<1>3. /\ r.pc = "cloning" => w.git = "begun"
      /\ r.pc = "fetching" => w.tracked = r.row.branch
  BY DEF Place, Onward, Clones
<1>4. ASSUME r.pc \in AtWork, r.company # "clone"
      PROVE  /\ w.git # "none" /\ d = {}
             /\ r.pc # "origin" => w.origin = r.row.url
             /\ r.pc \in OnBranch => w.tracked = r.row.branch /\ w.head # None
             /\ r.pc \in {"checkout"} \union OnBranch /\ w.tracked = r.row.branch =>
                  w.fetched # None /\ w.fetched.n >= r.since
             /\ r.pc \in OnBranch \ {"reset"} => w.head.n >= r.since
  <2>1. v.git # "none" /\ c = {} /\ Onward(v, w)
    BY <1>4 DEF Place
  <2>2. w.git # "none" /\ d = {} /\ w.origin = v.origin /\ w.tracked = v.tracked
    BY <2>1 DEF Onward
  <2>3. r.pc \in OnBranch => w.tracked = r.row.branch /\ w.head # None
    BY <1>4, <2>1, <2>2 DEF Place, Onward
  <2>4. r.since \in Nat
    BY DEF SyncStates
  <2>5. ASSUME r.pc \in {"checkout"} \union OnBranch, w.tracked = r.row.branch
        PROVE  v.fetched # None /\ v.fetched.n \in Nat /\ v.fetched.n >= r.since
               /\ w.fetched # None /\ w.fetched.n \in Nat /\ w.fetched.n >= r.since
    <3>1. v.fetched # None /\ v.fetched.n >= r.since
      BY <1>4, <2>2, <2>5 DEF Place
    <3>2. w.fetched # None /\ w.fetched.n >= v.fetched.n
      BY <2>1, <3>1 DEF Onward
    <3>3. v.fetched.n \in Nat /\ w.fetched.n \in Nat
      BY <3>1, <3>2, SoundCommits
    <3> QED
      BY <2>4, <3>1, <3>2, <3>3
  <2>6. ASSUME r.pc \in OnBranch \ {"reset"} PROVE w.head.n >= r.since
    <3>1. v.head # None /\ v.head.n >= r.since
      BY <1>4, <2>6 DEF Place
    <3>2. w.head \in {v.head, v.fetched}
      BY <2>1, <3>1 DEF Onward
    <3> QED
      BY <2>3, <2>5, <2>6, <3>1, <3>2
  <2> QED
    BY <1>4, <2>1, <2>2, <2>3, <2>5, <2>6 DEF Place
<1> QED
  BY <1>1, <1>2, <1>3, <1>4 DEF Place

LEMMA ToldLater ==
  ASSUME NEW r \in SyncStates, NEW m \in Heads, NEW n \in Heads, Later(m, n),
         Call(r), Told(r, m)
  PROVE  Told(r, n)
<1>1. ASSUME NEW x, Tells(r, x, m), r.row \in Rows PROVE Tells(r, x, n)
  <2>1. m[<<r.row.url, r.row.branch>>] \in Nat /\ n[<<r.row.url, r.row.branch>>] \in Nat
        /\ m[<<r.row.url, r.row.branch>>] <= n[<<r.row.url, r.row.branch>>]
    BY <1>1, HeadOfRow DEF Later
  <2>2. r.since \in Nat
    BY DEF SyncStates
  <2> QED
    BY <1>1, <2>1, <2>2 DEF Tells
<1>2. r.pc \in {"message", "author", "done"} => r.row \in Rows
  BY DEF Call
<1> QED
  BY <1>1, <1>2 DEF Told

\* What a call knows does not depend on whether another joins it.
LEMMA CompanyJoins ==
  ASSUME NEW r \in SyncStates, NEW w, NEW m, NEW c, NEW x \in {"shared", "clone"},
         Call(r), Place(r, w, m, c), Told(r, m), x = "shared" => r.company # "clone"
  PROVE  LET q == [r EXCEPT !.company = x]
         IN  q \in SyncStates /\ Call(q) /\ Place(q, w, m, c) /\ Told(q, m) /\ Lone(q, w)
<1> DEFINE q == [r EXCEPT !.company = x]
<1>1. q \in SyncStates /\ q.company = x
      /\ q.pc = r.pc /\ q.row = r.row /\ q.secret = r.secret /\ q.sha = r.sha
      /\ q.message = r.message /\ q.author = r.author /\ q.since = r.since
  BY DEF SyncStates
<1> HIDE DEF q
<1>2. Call(q)
  BY <1>1 DEF Call
<1>3. Place(q, w, m, c)
  BY <1>1 DEF Place
<1>4. Told(q, m)
  BY <1>1 DEF Told, Tells
<1>5. Lone(q, w)
  BY <1>1 DEF Lone
<1> QED
  BY <1>1, <1>2, <1>3, <1>4, <1>5 DEF q

-----------------------------------------------------------------------------
(* A step of one handler leaves what the others rely on.                   *)

\* What is left to show of a step after which the record of handler s is q and
\* the workspace is w.
StepOf(s, q, w) ==
  /\ Sound(w) /\ Repository(w, remote)
  /\ s \notin Cloning => Onward(workspace, w)
  /\ w # workspace => s \in Running
  /\ q.pc \in Clones => workspace.git = "none" \/ s \in Cloning
  /\ q.pc \in Commands => s \in Running /\ q.company = sync[s].company
  /\ q \in SyncStates /\ Call(q) /\ Place(q, w, remote, Cloning \ {s})
  /\ Told(q, remote) /\ Lone(q, w)

LEMMA TypesOfState ==
  ASSUME SyncInv
  PROVE  /\ \A s \in Syncs : sync[s] \in SyncStates
         /\ remote \in Heads /\ Sound(workspace) /\ Later(remote, remote)
<1>1. remote \in Heads
  BY DEF SyncInv, TypeOK, Heads
<1>2. Later(remote, remote)
  BY <1>1 DEF Heads, Later
<1>3. Sound(workspace)
  BY DEF SyncInv, TypeOK, Sound
<1>4. sync \in [Syncs -> SyncStates]
  BY DEF SyncInv, TypeOK
<1> QED
  BY <1>1, <1>2, <1>3, <1>4

LEMMA CloningIsSeen ==
  ASSUME SyncInv, NEW s \in Cloning
  PROVE  workspace.git # "none" /\ Cloning = {s}
BY DEF SyncInv, Handler, Place, Apart, Cloning, Clones

LEMMA HandlerStep ==
  ASSUME SyncInv, NEW s \in Syncs, NEW q, NEW w, Quiet, StepOf(s, q, w),
         sync' = [sync EXCEPT ![s] = q], workspace' = w
  PROVE  SyncInv'
<1> DEFINE c == Cloning
           d == Cloning'
<1>1. /\ UNCHANGED <<row, created, creds, remote, update>>
      /\ sync'[s] = q /\ \A t \in Syncs \ {s} : sync'[t] = sync[t]
      /\ \A t \in Syncs : sync'[t] \in SyncStates
      /\ sync' \in [Syncs -> SyncStates]
  BY DEF Quiet, StepOf, SyncInv, TypeOK
<1>2. TypeOK' /\ NoDanglingCredential'
  <2>1. TypeOK'
    BY <1>1 DEF SyncInv, TypeOK, StepOf, Sound
  <2>2. Stored' = Stored
    BY <1>1 DEF Stored
  <2> QED
    BY <1>1, <2>1, <2>2 DEF SyncInv, NoDanglingCredential
<1>3. (\A u \in Updates : update[u].pc = "write" => update[u].row \in Rows)'
  BY <1>1 DEF SyncInv
<1>4. Repository(workspace, remote)'
  BY <1>1 DEF StepOf, Repository
<1>5. d = IF q.pc \in Clones THEN (c \ {s}) \union {s} ELSE c \ {s}
  BY <1>1 DEF Cloning, Clones
<1>6. q.pc \in Clones => c \subseteq {s}
  BY CloningIsSeen DEF StepOf
<1>7. Handler(s)'
  <2>1. Place(q, w, remote, d)
    <3>1. CASE q.pc \in Clones
      BY <3>1 DEF StepOf, Place, Clones, AtWork
    <3>2. CASE q.pc \notin Clones
      BY <1>5, <3>2 DEF StepOf
    <3> QED
      BY <3>1, <3>2
  <2> QED
    BY <1>1, <2>1 DEF StepOf, Handler
<1>8. ASSUME NEW t \in Syncs \ {s} PROVE Handler(t)'
  <2> DEFINE r == sync[t]
  <2>1. r \in SyncStates /\ Call(r) /\ Place(r, workspace, remote, c) /\ Told(r, remote)
        /\ Lone(r, workspace)
    BY TypesOfState DEF SyncInv, Handler
  <2>2. /\ remote \in Heads /\ Sound(workspace) /\ Sound(w) /\ Later(remote, remote)
    BY TypesOfState DEF StepOf
  <2>3. r.pc \in Clones \/ c = {} => Onward(workspace, w)
    <3>1. r.pc \in Clones => t \in c
      BY DEF Cloning, Clones
    <3>2. t \in c => s \notin c
      BY DEF SyncInv, Apart
    <3> QED
      BY <3>1, <3>2 DEF StepOf
  <2>4. c = {} /\ workspace.git # "none" => d = {}
    BY <1>5 DEF StepOf
  <2>5. Place(r, w, remote, d)
    <3> HIDE DEF c, d, r
    <3> QED
      BY <2>1, <2>2, <2>3, <2>4, PlaceOnward
  <2>6. Lone(r, w)
    <3>1. CASE w = workspace
      BY <2>1, <3>1
    <3>2. CASE w # workspace
      <4>1. s \in Running
        BY <3>2 DEF StepOf
      <4>2. r.pc \in Commands => r.company # "alone"
        BY <4>1 DEF SyncInv, Apart, Running
      <4> QED
        BY <2>1, <4>2 DEF Lone, Commands
    <3> QED
      BY <3>1, <3>2
  <2> QED
    BY <1>1, <2>1, <2>5, <2>6 DEF Handler
<1>9. Apart'
  <2>1. ASSUME NEW a \in d, NEW b \in d PROVE a = b
    BY <1>5, <1>6, <2>1 DEF SyncInv, Apart
  <2>2. ASSUME NEW t \in Running', sync'[t].company = "alone" PROVE Running' = {t}
    <3>1. Running' \subseteq Running /\ t \in Running /\ sync[t].company = "alone"
      BY <1>1, <2>2 DEF Running, StepOf
    <3> QED
      BY <2>2, <3>1 DEF SyncInv, Apart
  <2> QED
    BY <2>1, <2>2 DEF Apart
<1>10. \A t \in Syncs : Handler(t)'
  BY <1>7, <1>8
<1> QED
  BY <1>2, <1>3, <1>4, <1>9, <1>10 DEF SyncInv

LEMMA OnwardNowhere ==
  ASSUME NEW w, Sound(w)
  PROVE  Onward(w, w)
BY SoundCommits DEF Onward

\* A step that leaves the workspace alone.
LEMMA StepInPlace ==
  ASSUME SyncInv, NEW s \in Syncs, NEW q \in SyncStates, Quiet, UNCHANGED workspace,
         sync' = [sync EXCEPT ![s] = q], q.pc \notin Clones,
         q.pc \in Commands => s \in Running /\ q.company = sync[s].company,
         Call(q), Place(q, workspace, remote, Cloning \ {s}), Told(q, remote), Lone(q, workspace)
  PROVE  SyncInv'
<1>1. Sound(workspace) /\ Repository(workspace, remote) /\ Onward(workspace, workspace)
  BY TypesOfState, OnwardNowhere DEF SyncInv
<1>2. StepOf(s, q, workspace)
  BY <1>1 DEF StepOf
<1> QED
  BY <1>2, HandlerStep

\* A call ends without an answer.
LEMMA StopStep ==
  ASSUME SyncInv, NEW s \in Syncs, NEW w, NEW pc \in {"idle", "failed"},
         Stop(s, pc), Quiet, workspace' = w,
         Sound(w), Repository(w, remote), s \notin Cloning => Onward(workspace, w),
         w # workspace => s \in Running
  PROVE  SyncInv'
<1> DEFINE q == [NewSync EXCEPT !.pc = pc]
<1>1. q \in SyncStates /\ q.pc = pc
  BY NewSyncTyped DEF NewSync
<1>2. sync' = [sync EXCEPT ![s] = q]
  BY DEF Stop
<1> HIDE DEF q
<1>3. Call(q) /\ Told(q, remote) /\ Lone(q, w) /\ Place(q, w, remote, Cloning \ {s})
  BY <1>1 DEF Call, Told, Lone, Place, Commands, Clones, AtWork, OnBranch
<1>4. StepOf(s, q, w)
  BY <1>1, <1>3 DEF StepOf, Commands, Clones
<1> QED
  BY <1>2, <1>4, HandlerStep

LEMMA StopInPlace ==
  ASSUME SyncInv, NEW s \in Syncs, NEW pc \in {"idle", "failed"},
         Stop(s, pc), Quiet, UNCHANGED workspace
  PROVE  SyncInv'
BY StopStep, TypesOfState, OnwardNowhere DEF SyncInv

-----------------------------------------------------------------------------
(* The steps of projects::sync before its first git command                *)

LEMMA FindStep ==
  ASSUME SyncInv, NEW s \in Syncs, Find(s)
  PROVE  SyncInv'
<1>1. PICK q : q = IF row = None THEN NewSync
                   ELSE [NewSync EXCEPT !.pc = IF row.auth = None THEN "prepare" ELSE "kind",
                                        !.row = row]
  OBVIOUS
<1>2. sync' = [sync EXCEPT ![s] = q] /\ UNCHANGED workspace /\ Quiet
  BY <1>1 DEF Find
<1>3. row \in Rows \union {None}
  BY DEF SyncInv, TypeOK
<1>4. q \in SyncStates
  BY <1>1, <1>3, NewSyncTyped
<1>5. CASE row = None
  <2>1. q.pc = "idle"
    BY <1>1, <1>5 DEF NewSync
  <2>2. /\ Call(q) /\ Told(q, remote) /\ Lone(q, workspace)
        /\ Place(q, workspace, remote, Cloning \ {s})
    BY <2>1 DEF Call, Told, Lone, Place, Commands, Clones, AtWork, OnBranch
  <2> QED
    BY <1>2, <1>4, <2>1, <2>2, StepInPlace DEF Commands, Clones
<1>6. CASE row # None
  <2>1. q.row = row /\ q.row \in Rows /\ q.secret = None
        /\ q.pc = IF row.auth = None THEN "prepare" ELSE "kind"
    BY <1>1, <1>3, <1>6 DEF NewSync
  <2>2. /\ Call(q) /\ Told(q, remote) /\ Lone(q, workspace)
        /\ Place(q, workspace, remote, Cloning \ {s})
    BY <2>1 DEF Call, Told, Lone, Place, Commands, Clones, AtWork, OnBranch
  <2> QED
    BY <1>2, <1>4, <2>1, <2>2, StepInPlace DEF Commands, Clones
<1> QED
  BY <1>5, <1>6

LEMMA ReadKindStep ==
  ASSUME SyncInv, NEW s \in Syncs, ReadKind(s)
  PROVE  SyncInv'
<1>1. CASE Stop(s, "idle")
  BY <1>1, StopInPlace DEF ReadKind
<1>2. CASE Step(s, "decrypt")
  <2>1. PICK r : r = sync[s]
    OBVIOUS
  <2>2. r \in SyncStates /\ r.pc = "kind" /\ Call(r)
    BY <2>1, TypesOfState DEF SyncInv, Handler, ReadKind
  <2>3. PICK q : q = [r EXCEPT !.pc = "decrypt"]
    OBVIOUS
  <2>4. q \in SyncStates /\ q.pc = "decrypt" /\ q.row = r.row
    BY <2>2, <2>3 DEF SyncStates
  <2>5. /\ Call(q) /\ Told(q, remote) /\ Lone(q, workspace)
        /\ Place(q, workspace, remote, Cloning \ {s})
    BY <2>2, <2>4 DEF Call, Told, Lone, Place, Commands, Clones, AtWork, OnBranch
  <2>6. sync' = [sync EXCEPT ![s] = q]
    BY <1>2, <2>1, <2>3 DEF Step
  <2> QED
    BY <2>4, <2>5, <2>6, StepInPlace DEF ReadKind, Commands, Clones
<1> QED
  BY <1>1, <1>2 DEF ReadKind

LEMMA DecryptStep ==
  ASSUME SyncInv, NEW s \in Syncs, Decrypt(s)
  PROVE  SyncInv'
<1>1. PICK r, k : r = sync[s] /\ k = r.row.auth
  OBVIOUS
<1>2. r \in SyncStates /\ r.pc = "decrypt" /\ Call(r) /\ UNCHANGED workspace /\ Quiet
  BY <1>1, TypesOfState DEF SyncInv, Handler, Decrypt
<1>3. CASE Refuse(s)
  BY <1>2, <1>3, StopInPlace DEF Refuse
<1>4. CASE k \in Stored /\ Fits(k, r.row.url)
           /\ sync' = [sync EXCEPT ![s].pc = "prepare", ![s].secret = k]
  <2>1. PICK q : q = [r EXCEPT !.pc = "prepare", !.secret = k]
    OBVIOUS
  <2>2. k \in Credentials
    BY <1>4 DEF Stored
  <2>3. q \in SyncStates /\ q.pc = "prepare" /\ q.row = r.row /\ q.secret = k
    BY <1>2, <2>1, <2>2 DEF SyncStates
  <2>4. /\ Call(q) /\ Told(q, remote) /\ Lone(q, workspace)
        /\ Place(q, workspace, remote, Cloning \ {s})
    BY <1>1, <1>2, <1>4, <2>3 DEF Call, Told, Lone, Place, Commands, Clones, AtWork, OnBranch
  <2>5. sync' = [sync EXCEPT ![s] = q]
    BY <1>1, <1>4, <2>1 DEF SyncInv, TypeOK
  <2> QED
    BY <1>2, <2>3, <2>4, <2>5, StepInPlace DEF Commands, Clones
<1> QED
  BY <1>1, <1>3, <1>4 DEF Decrypt, Row

-----------------------------------------------------------------------------
(* The git commands                                                        *)

\* The record of a call that goes on with command x.
LEMMA Advance ==
  ASSUME NEW r \in SyncStates, Call(r), r.pc \in Commands, NEW x \in Commands \union {"done"}
  PROVE  LET q == [r EXCEPT !.pc = x]
         IN  /\ q \in SyncStates /\ Call(q) /\ q.pc = x /\ q.row = r.row /\ q.secret = r.secret
             /\ q.sha = r.sha /\ q.message = r.message /\ q.author = r.author
             /\ q.since = r.since /\ q.company = r.company /\ q.row \in Rows
<1> DEFINE q == [r EXCEPT !.pc = x]
<1>1. q \in SyncStates /\ q.pc = x /\ q.row = r.row /\ q.secret = r.secret
      /\ q.sha = r.sha /\ q.message = r.message /\ q.author = r.author
      /\ q.since = r.since /\ q.company = r.company
  BY DEF SyncStates
<1> HIDE DEF q
<1>2. r.row \in Rows /\ r.secret = r.row.auth /\ (r.row.auth # None => Fits(r.row.auth, r.row.url))
  BY DEF Call, Commands
<1>3. Call(q)
  BY <1>1, <1>2 DEF Call, Commands
<1> QED
  BY <1>1, <1>2, <1>3 DEF q

\* A change that keeps the commits and references of the workspace.
SameRepository(v, w) ==
  /\ w \in Workspaces /\ v.git # "none"
  /\ w.git = v.git /\ w.origin = v.origin /\ w.tracked = v.tracked
  /\ w.head = v.head /\ w.fetched = v.fetched

LEMMA RepositoryKept ==
  ASSUME NEW v, NEW w, NEW m, Sound(v), Repository(v, m), SameRepository(v, w)
  PROVE  Sound(w) /\ Repository(w, m) /\ Onward(v, w)
<1>1. Sound(w)
  BY DEF Sound, SameRepository
<1>2. Repository(w, m)
  BY DEF Repository, SameRepository
<1>3. Onward(v, w)
  <2>1. v.fetched # None => v.fetched.n >= v.fetched.n
    BY SoundCommits
  <2> QED
    BY <2>1 DEF Onward, SameRepository
<1> QED
  BY <1>1, <1>2, <1>3

LEMMA HeadIsCommit ==
  ASSUME SyncInv, NEW url \in Urls, NEW branch \in Branches
  PROVE  /\ Head(url, branch) \in Commits /\ Head(url, branch) # None
         /\ Head(url, branch).url = url /\ Head(url, branch).branch = branch
         /\ Head(url, branch).n = remote[<<url, branch>>]
<1>1. remote[<<url, branch>>] \in Nat
  BY TypesOfState DEF Heads
<1>2. Head(url, branch) \in Commits
  BY <1>1 DEF Head, Commits
<1> QED
  BY <1>2, CommitIsSomething DEF Head

\* What is known of a handler that is at a git command.
LEMMA AtCommand ==
  ASSUME SyncInv, NEW s \in Syncs, sync[s].pc \in Commands
  PROVE  /\ s \in Running /\ sync[s] \in SyncStates
         /\ Call(sync[s]) /\ Told(sync[s], remote) /\ Lone(sync[s], workspace)
         /\ Place(sync[s], workspace, remote, Cloning)
         /\ sync[s].row \in Rows /\ sync[s].row.url \in Urls /\ sync[s].row.branch \in Branches
         /\ Sound(workspace) /\ Repository(workspace, remote) /\ Onward(workspace, workspace)
<1>1. sync[s] \in SyncStates /\ Call(sync[s])
  BY TypesOfState DEF SyncInv, Handler
<1>2. sync[s].row \in Rows
  BY <1>1 DEF Call, Commands
<1> QED
  BY <1>1, <1>2, TypesOfState, OnwardNowhere, HeadOfRow DEF SyncInv, Handler, Running, Rows

LEMMA CloneStartStep ==
  ASSUME SyncInv, NEW s \in Syncs, CloneStart(s)
  PROVE  SyncInv'
<1>1. PICK r : r = sync[s]
  OBVIOUS
<1>2. r.pc = "clone" /\ Quiet
  BY <1>1 DEF CloneStart
<1>3. CASE workspace.git # "none"
  BY <1>3, StopInPlace DEF CloneStart
<1>4. CASE workspace.git = "none"
  <2>1. PICK q, w : q = [r EXCEPT !.pc = "cloning"] /\ w = Begun(r.row.url)
    OBVIOUS
  <2>2. sync' = [sync EXCEPT ![s] = q] /\ workspace' = w
    BY <1>1, <1>4, <2>1 DEF CloneStart, Step, Row
  <2>3. r \in SyncStates /\ Call(r) /\ s \in Running /\ Place(r, workspace, remote, Cloning)
        /\ r.row.url \in Urls
    BY <1>1, <1>2, AtCommand DEF Commands
  <2>4. q \in SyncStates /\ Call(q) /\ q.pc = "cloning" /\ q.row = r.row
        /\ q.since = r.since /\ q.company = r.company
    BY <1>2, <2>1, <2>3, Advance DEF Commands
  <2>5. w \in Workspaces /\ w.git = "begun" /\ w.origin = r.row.url /\ w.tracked = None
        /\ w.head = None /\ w.fetched = None /\ w.tree = None /\ ~w.extra
    BY <2>1, <2>3 DEF Begun, Bare, Workspaces
  <2>6. Sound(w) /\ Repository(w, remote) /\ Onward(workspace, w)
    BY <1>4, <2>3, <2>5, SyncAssumption DEF Sound, Repository, Onward
  <2>7. Told(q, remote) /\ Lone(q, w) /\ Place(q, w, remote, Cloning \ {s})
    BY <1>2, <2>3, <2>4, <2>5 DEF Told, Lone, Place, Commands, Clones, AtWork, OnBranch
  <2>8. StepOf(s, q, w)
    BY <1>1, <1>4, <2>3, <2>4, <2>6, <2>7 DEF StepOf
  <2> QED
    BY <1>2, <2>2, <2>8, HandlerStep
<1> QED
  BY <1>3, <1>4

LEMMA CloneConfigureStep ==
  ASSUME SyncInv, NEW s \in Syncs, CloneConfigure(s)
  PROVE  SyncInv'
<1>1. PICK r, v : r = sync[s] /\ v = workspace
  OBVIOUS
<1>2. PICK q, w : /\ q = [r EXCEPT !.pc = "fetching"]
                   /\ w = [v EXCEPT !.git = "configured", !.tracked = r.row.branch]
  OBVIOUS
<1>3. r.pc = "cloning" /\ Quiet /\ sync' = [sync EXCEPT ![s] = q] /\ workspace' = w
  BY <1>1, <1>2 DEF CloneConfigure, Step, Row
<1>4. r \in SyncStates /\ Call(r) /\ s \in Running /\ Place(r, v, remote, Cloning)
      /\ Lone(r, v) /\ Sound(v) /\ Repository(v, remote) /\ r.row.branch \in Branches
  BY <1>1, <1>3, AtCommand DEF Commands
<1>5. q \in SyncStates /\ Call(q) /\ q.pc = "fetching" /\ q.row = r.row
      /\ q.since = r.since /\ q.company = r.company
  BY <1>2, <1>3, <1>4, Advance DEF Commands
<1>6. /\ w \in Workspaces /\ w.git = "configured" /\ w.tracked = r.row.branch
      /\ w.origin = v.origin /\ w.head = v.head /\ w.fetched = v.fetched
      /\ w.tree = v.tree /\ w.extra = v.extra
  BY <1>2, <1>4 DEF Sound, Workspaces
<1>7. s \in Cloning /\ v.git = "begun" /\ v.origin = r.row.url
      /\ v.head = None /\ v.fetched = None
  BY <1>1, <1>3, <1>4 DEF Cloning, Place, Clones, Sound
<1>8. Sound(w)
  BY <1>4, <1>6, <1>7, SyncAssumption DEF Sound
<1>9. Repository(w, remote)
  BY <1>6, <1>7 DEF Repository
<1>10. Place(q, w, remote, Cloning \ {s}) /\ Told(q, remote) /\ Lone(q, w)
  BY <1>3, <1>4, <1>5, <1>6, <1>7
     DEF Place, Told, Lone, Commands, Clones, AtWork, OnBranch
<1>11. StepOf(s, q, w)
  BY <1>1, <1>4, <1>5, <1>7, <1>8, <1>9, <1>10 DEF StepOf
<1> QED
  BY <1>3, <1>11, HandlerStep

LEMMA CloneFetchStep ==
  ASSUME SyncInv, NEW s \in Syncs, CloneFetch(s)
  PROVE  SyncInv'
<1>1. PICK r, v : r = sync[s] /\ v = workspace
  OBVIOUS
<1>2. PICK n \in r.since .. remote[<<r.row.url, r.row.branch>>] :
        workspace' = [v EXCEPT !.fetched = [Head(r.row.url, r.row.branch) EXCEPT !.n = n],
                               !.head = [Head(r.row.url, r.row.branch) EXCEPT !.n = n]]
  BY <1>1 DEF CloneFetch, Row
<1>3. PICK q, h : /\ q = [r EXCEPT !.pc = "filling"]
                   /\ h = [url |-> r.row.url, branch |-> r.row.branch, n |-> n]
  OBVIOUS
<1>4. PICK w : w = [v EXCEPT !.fetched = h, !.head = h]
  OBVIOUS
<1>5. r.pc = "fetching" /\ Quiet /\ sync' = [sync EXCEPT ![s] = q] /\ workspace' = w
  <2>1. h = [Head(r.row.url, r.row.branch) EXCEPT !.n = n]
    BY <1>3 DEF Head
  <2>2. workspace' = w
    BY <1>2, <1>4, <2>1
  <2> QED
    BY <1>1, <1>3, <2>2 DEF CloneFetch, Step
<1>6. r \in SyncStates /\ Call(r) /\ s \in Running /\ Place(r, v, remote, Cloning)
      /\ Lone(r, v) /\ Sound(v)
      /\ r.row.url \in Urls /\ r.row.branch \in Branches /\ r.row \in Rows
  BY <1>1, <1>5, AtCommand DEF Commands
<1>7. q \in SyncStates /\ Call(q) /\ q.pc = "filling" /\ q.row = r.row
      /\ q.since = r.since /\ q.company = r.company
  BY <1>3, <1>5, <1>6, Advance DEF Commands
<1>8. n \in Nat /\ q.since <= n /\ n <= remote[<<r.row.url, r.row.branch>>]
  <2>1. r.since \in Nat /\ remote[<<r.row.url, r.row.branch>>] \in Nat
    BY <1>6, TypesOfState, HeadOfRow DEF SyncStates
  <2> QED
    BY <1>7, <2>1
<1>9. h \in Commits /\ h # None /\ h.url = r.row.url /\ h.branch = r.row.branch /\ h.n = n
  BY <1>3, <1>6, <1>8, CommitIsSomething DEF Commits
<1>10. s \in Cloning /\ Cloning = {s} /\ v.git # "none" /\ v.origin = r.row.url
       /\ v.tracked = r.row.branch
  BY <1>1, <1>5, <1>6, CloningIsSeen DEF Cloning, Place, Clones
<1>11. /\ w \in Workspaces /\ w.git = v.git /\ w.origin = v.origin /\ w.tracked = v.tracked
       /\ w.head = h /\ w.fetched = h /\ w.tree = v.tree /\ w.extra = v.extra
  BY <1>4, <1>6, <1>9 DEF Sound, Workspaces
<1>12. Sound(w) /\ Repository(w, remote)
  BY <1>6, <1>8, <1>9, <1>10, <1>11, SyncAssumption DEF Sound, Repository
<1>13. Place(q, w, remote, Cloning \ {s})
  <2>1. q.since \in Nat /\ q.since <= remote[<<q.row.url, q.row.branch>>]
    BY <1>5, <1>6, <1>7 DEF SyncStates, Place, Commands
  <2> QED
    BY <1>7, <1>8, <1>9, <1>10, <1>11, <2>1 DEF Place, Clones, OnBranch
<1>14. Told(q, remote) /\ Lone(q, w)
  BY <1>5, <1>6, <1>7, <1>11 DEF Told, Lone
<1>15. StepOf(s, q, w)
  BY <1>1, <1>6, <1>7, <1>10, <1>12, <1>13, <1>14 DEF StepOf
<1> QED
  BY <1>5, <1>15, HandlerStep

LEMMA CloneFillStep ==
  ASSUME SyncInv, NEW s \in Syncs, CloneFill(s)
  PROVE  SyncInv'
<1>1. PICK r, v : r = sync[s] /\ v = workspace
  OBVIOUS
<1>2. PICK q, w : q = [r EXCEPT !.pc = "sha"] /\ w = [v EXCEPT !.tree = v.head]
  OBVIOUS
<1>3. r.pc = "filling" /\ Quiet
  BY <1>1 DEF CloneFill
<1>4. CASE Stop(s, "failed") /\ UNCHANGED workspace
  BY <1>3, <1>4, StopInPlace
<1>5. CASE Unfilled /\ sync' = [sync EXCEPT ![s] = q] /\ workspace' = w
  <2>1. r \in SyncStates /\ Call(r) /\ s \in Running /\ Place(r, v, remote, Cloning)
        /\ Sound(v) /\ Repository(v, remote) /\ Onward(v, v)
    BY <1>1, <1>3, AtCommand DEF Commands
  <2>2. q \in SyncStates /\ Call(q) /\ q.pc = "sha" /\ q.row = r.row
        /\ q.since = r.since /\ q.company = r.company
    BY <1>2, <1>3, <2>1, Advance DEF Commands
  <2>3. /\ w \in Workspaces /\ w.git = v.git /\ w.origin = v.origin /\ w.tracked = v.tracked
        /\ w.head = v.head /\ w.fetched = v.fetched /\ w.tree = w.head /\ ~w.extra
    BY <1>1, <1>2, <1>5, <2>1 DEF Sound, Workspaces, Unfilled
  <2>4. v.git = "none" => w = v
    BY <1>2, <2>1 DEF Sound, Bare
  <2>5. Sound(w) /\ Repository(w, remote) /\ Onward(v, w)
    BY <2>1, <2>3, <2>4 DEF Sound, Repository, Onward
  <2>6. Place(q, w, remote, Cloning \ {s})
    BY <1>3, <2>1, <2>2, <2>3 DEF Place, OnBranch, Commands, Clones, AtWork
  <2>7. Told(q, remote) /\ Lone(q, w)
    BY <2>2, <2>3 DEF Told, Lone
  <2>8. StepOf(s, q, w)
    BY <1>1, <2>1, <2>2, <2>5, <2>6, <2>7 DEF StepOf, Clones
  <2> QED
    BY <1>3, <1>5, <2>8, HandlerStep
<1> QED
  BY <1>1, <1>2, <1>4, <1>5 DEF CloneFill, Step

LEMMA VerifyOriginStep ==
  ASSUME SyncInv, NEW s \in Syncs, VerifyOrigin(s)
  PROVE  SyncInv'
<1>0. PICK r : r = sync[s]
  OBVIOUS
<1>1. PICK q : q = [r EXCEPT !.pc = "fetch"]
  OBVIOUS
<1>2. r.pc = "origin" /\ Quiet /\ UNCHANGED workspace
  BY <1>0 DEF VerifyOrigin
<1>3. CASE Stop(s, "failed")
  BY <1>2, <1>3, StopInPlace
<1>4. CASE workspace.origin = r.row.url /\ Step(s, "fetch")
  <2>1. r \in SyncStates /\ Call(r) /\ s \in Running /\ Place(r, workspace, remote, Cloning)
    BY <1>0, <1>2, AtCommand DEF Commands
  <2>2. q \in SyncStates /\ Call(q) /\ q.pc = "fetch" /\ q.row = r.row
        /\ q.since = r.since /\ q.company = r.company
    BY <1>1, <1>2, <2>1, Advance DEF Commands
  <2>3. Place(q, workspace, remote, Cloning \ {s})
    BY <1>2, <1>4, <2>1, <2>2 DEF Place, OnBranch, Commands, Clones, AtWork
  <2>4. Told(q, remote) /\ Lone(q, workspace)
    BY <2>2 DEF Told, Lone
  <2> QED
    BY <1>0, <1>1, <1>2, <1>4, <2>1, <2>2, <2>3, <2>4, StepInPlace DEF Step, Clones
<1> QED
  BY <1>0, <1>3, <1>4 DEF VerifyOrigin, Row

LEMMA FetchStep ==
  ASSUME SyncInv, NEW s \in Syncs, Fetch(s)
  PROVE  SyncInv'
<1>1. PICK r, v : r = sync[s] /\ v = workspace
  OBVIOUS
<1>2. PICK h, q : h = Head(v.origin, r.row.branch) /\ q = [r EXCEPT !.pc = "checkout"]
  OBVIOUS
<1>3. PICK w : w = IF v.tracked = r.row.branch THEN [v EXCEPT !.fetched = h] ELSE v
  OBVIOUS
<1>4. r.pc = "fetch" /\ Quiet
  BY <1>1 DEF Fetch
<1>5. CASE Stop(s, "failed") /\ UNCHANGED workspace
  BY <1>4, <1>5, StopInPlace
<1>6. CASE sync' = [sync EXCEPT ![s] = q] /\ workspace' = w
  <2>1. r \in SyncStates /\ Call(r) /\ s \in Running /\ Place(r, v, remote, Cloning)
        /\ r.row \in Rows /\ r.row.branch \in Branches /\ Sound(v) /\ Repository(v, remote)
        /\ Onward(v, v)
    BY <1>1, <1>4, AtCommand DEF Commands
  <2>2. q \in SyncStates /\ Call(q) /\ q.pc = "checkout" /\ q.row = r.row
        /\ q.since = r.since /\ q.company = r.company
    BY <1>2, <1>4, <2>1, Advance DEF Commands
  <2>3. Told(q, remote) /\ Lone(q, w)
    BY <2>2 DEF Told, Lone
  <2>4. CASE v.tracked # r.row.branch
    <3>1. w = v
      BY <1>3, <2>4
    <3>2. Place(q, w, remote, Cloning \ {s})
      BY <1>4, <2>1, <2>2, <2>4, <3>1 DEF Place, OnBranch, Commands, Clones, AtWork
    <3>3. StepOf(s, q, w)
      BY <1>1, <2>1, <2>2, <2>3, <3>1, <3>2 DEF StepOf, Clones
    <3> QED
      BY <1>4, <1>6, <3>3, HandlerStep
  <2>5. CASE v.tracked = r.row.branch
    <3>1. v \in Workspaces /\ v.git = "configured" /\ v.origin \in Urls
      BY <2>1, <2>5, SyncAssumption DEF Sound, Workspaces
    <3>2. h \in Commits /\ h # None /\ h.url = v.origin /\ h.branch = v.tracked
          /\ h.n = remote[<<v.origin, v.tracked>>] /\ h.n \in Nat
      BY <1>2, <2>1, <2>5, <3>1, HeadIsCommit DEF Commits
    <3>3. w \in Workspaces /\ w.git = v.git /\ w.origin = v.origin /\ w.tracked = v.tracked
          /\ w.head = v.head /\ w.fetched = h
      BY <1>3, <2>5, <3>1, <3>2 DEF Workspaces
    <3>4. Sound(w) /\ Repository(w, remote)
      BY <2>1, <3>1, <3>2, <3>3 DEF Sound, Repository
    <3>5. Onward(v, w)
      <4>1. v.fetched # None => h.n >= v.fetched.n
        BY <2>1, <3>2, SoundCommits DEF Repository
      <4> QED
        BY <3>2, <3>3, <4>1 DEF Onward
    <3>6. r.company # "clone" => r.row.url = v.origin /\ h.n >= r.since
      <4>1. r.since \in Nat /\ r.since <= remote[<<r.row.url, r.row.branch>>]
        BY <1>4, <2>1 DEF Place, Commands, SyncStates
      <4> QED
        BY <1>4, <2>1, <2>5, <3>2, <4>1 DEF Place, Commands, AtWork
    <3>7. Place(q, w, remote, Cloning \ {s})
      BY <1>4, <2>1, <2>2, <3>2, <3>3, <3>6 DEF Place, OnBranch, Commands, Clones, AtWork
    <3>8. StepOf(s, q, w)
      BY <1>1, <2>1, <2>2, <2>3, <3>4, <3>5, <3>7 DEF StepOf, Clones
    <3> QED
      BY <1>4, <1>6, <3>8, HandlerStep
  <2> QED
    BY <2>4, <2>5
<1>7. OnTrackedBranch(s) <=> v.tracked = r.row.branch
  BY <1>1 DEF OnTrackedBranch, Row
<1>8. Step(s, "checkout") => sync' = [sync EXCEPT ![s] = q]
  BY <1>1, <1>2 DEF Step
<1> QED
  BY <1>1, <1>2, <1>3, <1>5, <1>6, <1>7, <1>8 DEF Fetch, Row

\* A checkout or reset that moves the branch to the commit x.
MovedTo(v, w, x) ==
  /\ w = [v EXCEPT !.head = x, !.tree = x]
  /\ x # None /\ x \in {v.head, v.fetched}

LEMMA BranchMoves ==
  ASSUME NEW v, NEW w, NEW x, NEW m, MovedTo(v, w, x), Sound(v), Repository(v, m)
  PROVE  /\ Sound(w) /\ Repository(w, m) /\ Onward(v, w)
         /\ w.git = v.git /\ w.origin = v.origin /\ w.tracked = v.tracked
         /\ w.head = x /\ w.tree = x /\ w.fetched = v.fetched
<1>1. x \in Commits /\ v.git = "configured"
  BY SoundCommits DEF MovedTo
<1>2. /\ w \in Workspaces /\ w.git = v.git /\ w.origin = v.origin /\ w.tracked = v.tracked
      /\ w.head = x /\ w.tree = x /\ w.fetched = v.fetched
  BY <1>1 DEF MovedTo, Sound, Workspaces
<1>3. Sound(w) /\ Repository(w, m)
  BY <1>1, <1>2 DEF MovedTo, Sound, Repository
<1>4. v.fetched # None => v.fetched.n >= v.fetched.n
  BY SoundCommits
<1> QED
  BY <1>2, <1>3, <1>4 DEF MovedTo, Onward

LEMMA CheckoutStep ==
  ASSUME SyncInv, NEW s \in Syncs, Checkout(s)
  PROVE  SyncInv'
<1>1. PICK r, v : r = sync[s] /\ v = workspace
  OBVIOUS
<1>2. PICK h, q : h = LocalHead /\ q = [r EXCEPT !.pc = "reset"]
  OBVIOUS
<1>3. PICK w : w = [v EXCEPT !.head = h, !.tree = h]
  OBVIOUS
<1>4. r.pc = "checkout" /\ Quiet
  BY <1>1 DEF Checkout
<1>5. CASE Stop(s, "failed") /\ UNCHANGED workspace
  BY <1>4, <1>5, StopInPlace
<1>6. CASE CanCheckout(s) /\ sync' = [sync EXCEPT ![s] = q] /\ workspace' = w
  <2>1. r \in SyncStates /\ Call(r) /\ s \in Running /\ Place(r, v, remote, Cloning)
        /\ Sound(v) /\ Repository(v, remote)
    BY <1>1, <1>4, AtCommand DEF Commands
  <2>2. q \in SyncStates /\ Call(q) /\ q.pc = "reset" /\ q.row = r.row
        /\ q.since = r.since /\ q.company = r.company
    BY <1>2, <1>4, <2>1, Advance DEF Commands
  <2>3. v.tracked = r.row.branch /\ MovedTo(v, w, h)
    BY <1>1, <1>2, <1>3, <1>6 DEF CanCheckout, OnTrackedBranch, LocalHead, Row, MovedTo
  <2>4. /\ Sound(w) /\ Repository(w, remote) /\ Onward(v, w)
        /\ w.git = v.git /\ w.origin = v.origin /\ w.tracked = v.tracked
        /\ w.head = h /\ w.fetched = v.fetched
    BY <2>1, <2>3, BranchMoves
  <2>5. Place(q, w, remote, Cloning \ {s})
    BY <1>4, <2>1, <2>2, <2>3, <2>4 DEF Place, OnBranch, Commands, Clones, AtWork, MovedTo
  <2>6. Told(q, remote) /\ Lone(q, w)
    BY <2>2 DEF Told, Lone
  <2>7. StepOf(s, q, w)
    BY <1>1, <2>1, <2>2, <2>4, <2>5, <2>6 DEF StepOf, Clones
  <2> QED
    BY <1>4, <1>6, <2>7, HandlerStep
<1> QED
  BY <1>1, <1>2, <1>3, <1>5, <1>6 DEF Checkout, Step

LEMMA ResetStep ==
  ASSUME SyncInv, NEW s \in Syncs, Reset(s)
  PROVE  SyncInv'
<1>1. PICK r, v : r = sync[s] /\ v = workspace
  OBVIOUS
<1>2. PICK q, w : /\ q = [r EXCEPT !.pc = "clean"]
                   /\ w = [v EXCEPT !.head = v.fetched, !.tree = v.fetched]
  OBVIOUS
<1>3. r.pc = "reset" /\ Quiet
  BY <1>1 DEF Reset
<1>4. CASE Stop(s, "failed") /\ UNCHANGED workspace
  BY <1>3, <1>4, StopInPlace
<1>5. CASE OnTrackedBranch(s) /\ Target # None /\ sync' = [sync EXCEPT ![s] = q] /\ workspace' = w
  <2>1. r \in SyncStates /\ Call(r) /\ s \in Running /\ Place(r, v, remote, Cloning)
        /\ Sound(v) /\ Repository(v, remote)
    BY <1>1, <1>3, AtCommand DEF Commands
  <2>2. q \in SyncStates /\ Call(q) /\ q.pc = "clean" /\ q.row = r.row
        /\ q.since = r.since /\ q.company = r.company
    BY <1>2, <1>3, <2>1, Advance DEF Commands
  <2>3. v.tracked = r.row.branch /\ v.fetched # None /\ MovedTo(v, w, v.fetched)
    BY <1>1, <1>2, <1>5 DEF OnTrackedBranch, Target, Row, MovedTo
  <2>4. /\ Sound(w) /\ Repository(w, remote) /\ Onward(v, w)
        /\ w.git = v.git /\ w.origin = v.origin /\ w.tracked = v.tracked
        /\ w.head = v.fetched /\ w.tree = v.fetched /\ w.fetched = v.fetched
    BY <2>1, <2>3, BranchMoves
  <2>5. Place(q, w, remote, Cloning \ {s})
    BY <1>3, <2>1, <2>2, <2>3, <2>4 DEF Place, OnBranch, Commands, Clones, AtWork
  <2>6. Told(q, remote) /\ Lone(q, w)
    BY <2>2, <2>4 DEF Told, Lone
  <2>7. StepOf(s, q, w)
    BY <1>1, <2>1, <2>2, <2>4, <2>5, <2>6 DEF StepOf, Clones
  <2> QED
    BY <1>3, <1>5, <2>7, HandlerStep
<1> QED
  BY <1>1, <1>2, <1>4, <1>5 DEF Reset, Step, Target

LEMMA CleanStep ==
  ASSUME SyncInv, NEW s \in Syncs, Clean(s)
  PROVE  SyncInv'
<1>1. PICK r, v : r = sync[s] /\ v = workspace
  OBVIOUS
<1>2. PICK q, w : q = [r EXCEPT !.pc = "sha"] /\ w = [v EXCEPT !.extra = FALSE]
  OBVIOUS
<1>3. r.pc = "clean" /\ Quiet
  BY <1>1 DEF Clean
<1>4. CASE Stop(s, "failed") /\ UNCHANGED workspace
  BY <1>3, <1>4, StopInPlace
<1>5. CASE v.git # "none" /\ sync' = [sync EXCEPT ![s] = q] /\ workspace' = w
  <2>1. r \in SyncStates /\ Call(r) /\ s \in Running /\ Place(r, v, remote, Cloning)
        /\ Lone(r, v) /\ Sound(v) /\ Repository(v, remote)
    BY <1>1, <1>3, AtCommand DEF Commands
  <2>2. q \in SyncStates /\ Call(q) /\ q.pc = "sha" /\ q.row = r.row
        /\ q.since = r.since /\ q.company = r.company
    BY <1>2, <1>3, <2>1, Advance DEF Commands
  <2>3. SameRepository(v, w) /\ w.tree = v.tree /\ w.extra = FALSE
    BY <1>2, <1>5, <2>1 DEF SameRepository, Sound, Workspaces
  <2>4. Sound(w) /\ Repository(w, remote) /\ Onward(v, w)
    BY <2>1, <2>3, RepositoryKept
  <2>5. Place(q, w, remote, Cloning \ {s})
    BY <1>3, <2>1, <2>2, <2>3
       DEF Place, OnBranch, SameRepository, Commands, Clones, AtWork
  <2>6. Told(q, remote) /\ Lone(q, w)
    BY <1>3, <2>1, <2>2, <2>3 DEF Told, Lone, SameRepository
  <2>7. StepOf(s, q, w)
    BY <1>1, <2>1, <2>2, <2>4, <2>5, <2>6 DEF StepOf, Clones
  <2> QED
    BY <1>3, <1>5, <2>7, HandlerStep
<1> QED
  BY <1>1, <1>2, <1>4, <1>5 DEF Clean, Step, FilesLeft

\* The HEAD that a call reads behind its reset.
LEMMA HeadTells ==
  ASSUME SyncInv, NEW r \in SyncStates, NEW q, Call(r), r.pc \in {"sha", "message", "author"},
         Place(r, workspace, remote, Cloning), r.company # "clone",
         q.row = r.row, q.since = r.since
  PROVE  Tells(q, workspace.head, remote)
<1> DEFINE v == workspace
<1>1. v.head # None /\ v.tracked = r.row.branch /\ v.origin = r.row.url /\ v.head.n >= r.since
  BY DEF Place, OnBranch, AtWork, Commands
<1>2. v.head \in Commits /\ v.head.url = v.origin /\ v.head.branch = v.tracked
      /\ v.head.n <= remote[<<v.origin, v.tracked>>]
  BY <1>1 DEF SyncInv, Repository
<1>3. v.head.n \in Nat /\ r.since \in Nat
  BY <1>2 DEF Commits, SyncStates
<1>4. remote[<<r.row.url, r.row.branch>>] \in Nat
  BY TypesOfState, HeadOfRow DEF Call
<1> QED
  BY <1>1, <1>2, <1>3, <1>4 DEF Tells

LEMMA ReadShaStep ==
  ASSUME SyncInv, NEW s \in Syncs, ReadSha(s)
  PROVE  SyncInv'
<1>1. PICK r, v : r = sync[s] /\ v = workspace
  OBVIOUS
<1>2. PICK q : q = [r EXCEPT !.pc = "message", !.sha = v.head]
  OBVIOUS
<1>3. r.pc = "sha" /\ Quiet /\ UNCHANGED workspace
  BY <1>1 DEF ReadSha
<1>4. r \in SyncStates /\ Call(r) /\ s \in Running /\ Place(r, v, remote, Cloning)
      /\ Lone(r, v) /\ Sound(v) /\ Repository(v, remote)
  BY <1>1, <1>3, AtCommand DEF Commands
<1>5. CASE Stop(s, "failed")
  BY <1>3, <1>5, StopInPlace
<1>6. CASE v.head # None /\ sync' = [sync EXCEPT ![s] = q]
  <2>1. v.head \in Commits
    BY <1>4, <1>6, SoundCommits
  <2>2. q \in SyncStates /\ q.pc = "message" /\ q.row = r.row /\ q.secret = r.secret
        /\ q.since = r.since /\ q.company = r.company /\ q.sha = v.head
    BY <1>2, <1>4, <2>1 DEF SyncStates, Commands
  <2>3. Call(q)
    BY <1>3, <1>4, <2>2 DEF Call, Commands
  <2>4. Place(q, v, remote, Cloning \ {s})
    BY <1>3, <1>4, <2>2 DEF Place, OnBranch, Commands, Clones, AtWork
  <2>5. Lone(q, v)
    BY <1>3, <1>4, <2>2 DEF Lone
  <2>6. Told(q, remote)
    <3>1. q.company # "clone" => Tells(q, v.head, remote)
      BY <1>1, <1>3, <1>4, <2>2, HeadTells
    <3> QED
      BY <2>2, <3>1 DEF Told
  <2> QED
    BY <1>1, <1>3, <1>4, <1>6, <2>2, <2>3, <2>4, <2>5, <2>6, StepInPlace DEF Commands, Clones
<1> QED
  BY <1>1, <1>2, <1>5, <1>6 DEF ReadSha, SyncInv, TypeOK

LEMMA ReadMessageStep ==
  ASSUME SyncInv, NEW s \in Syncs, ReadMessage(s)
  PROVE  SyncInv'
<1>1. PICK r, v : r = sync[s] /\ v = workspace
  OBVIOUS
<1>2. PICK q : q = [r EXCEPT !.pc = "author", !.message = v.head]
  OBVIOUS
<1>3. r.pc = "message" /\ Quiet /\ UNCHANGED workspace
  BY <1>1 DEF ReadMessage
<1>4. r \in SyncStates /\ Call(r) /\ s \in Running /\ Place(r, v, remote, Cloning)
      /\ Lone(r, v) /\ Told(r, remote) /\ Sound(v) /\ Repository(v, remote)
  BY <1>1, <1>3, AtCommand DEF Commands
<1>5. CASE Stop(s, "failed")
  BY <1>3, <1>5, StopInPlace
<1>6. CASE v.head # None /\ sync' = [sync EXCEPT ![s] = q]
  <2>1. v.head \in Commits
    BY <1>4, <1>6, SoundCommits
  <2>2. q \in SyncStates /\ q.pc = "author" /\ q.row = r.row /\ q.secret = r.secret
        /\ q.since = r.since /\ q.company = r.company /\ q.sha = r.sha /\ q.message = v.head
    BY <1>2, <1>4, <2>1 DEF SyncStates, Commands
  <2>3. Call(q)
    BY <1>3, <1>4, <2>2 DEF Call, Commands
  <2>4. Place(q, v, remote, Cloning \ {s})
    BY <1>3, <1>4, <2>2 DEF Place, OnBranch, Commands, Clones, AtWork
  <2>5. Lone(q, v)
    BY <1>3, <1>4, <2>2 DEF Lone
  <2>6. Told(q, remote)
    <3>1. q.company # "clone" => Tells(q, v.head, remote)
      BY <1>1, <1>3, <1>4, <2>2, HeadTells
    <3> QED
      BY <1>3, <1>4, <2>2, <3>1 DEF Told, Tells
  <2> QED
    BY <1>1, <1>3, <1>4, <1>6, <2>2, <2>3, <2>4, <2>5, <2>6, StepInPlace DEF Commands, Clones
<1> QED
  BY <1>1, <1>2, <1>5, <1>6 DEF ReadMessage, SyncInv, TypeOK

LEMMA ReadAuthorStep ==
  ASSUME SyncInv, NEW s \in Syncs, ReadAuthor(s)
  PROVE  SyncInv'
<1>1. PICK r, v : r = sync[s] /\ v = workspace
  OBVIOUS
<1>2. PICK q : q = [r EXCEPT !.pc = "done", !.author = v.head]
  OBVIOUS
<1>3. r.pc = "author" /\ Quiet /\ UNCHANGED workspace
  BY <1>1 DEF ReadAuthor
<1>4. r \in SyncStates /\ Call(r) /\ s \in Running /\ Place(r, v, remote, Cloning)
      /\ Lone(r, v) /\ Told(r, remote) /\ Sound(v) /\ Repository(v, remote)
  BY <1>1, <1>3, AtCommand DEF Commands
<1>5. CASE Stop(s, "failed")
  BY <1>3, <1>5, StopInPlace
<1>6. CASE v.head # None /\ sync' = [sync EXCEPT ![s] = q]
  <2>1. v.head \in Commits
    BY <1>4, <1>6, SoundCommits
  <2>2. q \in SyncStates /\ q.pc = "done" /\ q.row = r.row /\ q.secret = r.secret
        /\ q.since = r.since /\ q.company = r.company /\ q.sha = r.sha
        /\ q.message = r.message /\ q.author = v.head
    BY <1>2, <1>4, <2>1 DEF SyncStates, Commands
  <2>3. Call(q)
    BY <1>3, <1>4, <2>2 DEF Call, Commands
  <2>4. Place(q, v, remote, Cloning \ {s})
    BY <2>2 DEF Place, OnBranch, Commands, Clones, AtWork
  <2>5. Lone(q, v)
    BY <1>3, <1>4, <2>2 DEF Lone
  <2>6. Told(q, remote)
    <3>1. q.company # "clone" => Tells(q, v.head, remote)
      BY <1>1, <1>3, <1>4, <2>2, HeadTells
    <3> QED
      BY <1>3, <1>4, <2>2, <3>1 DEF Told, Tells
  <2> QED
    BY <1>1, <1>3, <1>4, <1>6, <2>2, <2>3, <2>4, <2>5, <2>6, StepInPlace DEF Commands, Clones
<1> QED
  BY <1>1, <1>2, <1>5, <1>6 DEF ReadAuthor, SyncInv, TypeOK

\* What a command leaves behind that does not finish.
LEMMA FaultStep ==
  ASSUME SyncInv, NEW s \in Syncs, NEW fault \in Faults, Fault(s, fault)
  PROVE  SyncInv'
<1>1. PICK r, v, w : r = sync[s] /\ v = workspace /\ w = workspace'
  OBVIOUS
<1>2. r.pc \in Commands /\ Stop(s, "idle") /\ Quiet
  BY <1>1 DEF Fault, Running
<1>3. r \in SyncStates /\ s \in Running /\ Place(r, v, remote, Cloning)
      /\ Sound(v) /\ Repository(v, remote)
  BY <1>1, <1>2, AtCommand
<1>4. w = v \/ (r.pc \in Clones /\ w = Bare)
      \/ (v.git = "configured" /\ \E l \in {None, "refs", "index"} :
            w = [v EXCEPT !.lock = l] \/ w = [v EXCEPT !.tree = Mixed, !.extra = TRUE, !.lock = l])
  <2>1. w \in LeftBy(r.pc, fault)
    BY <1>1 DEF Fault
  <2>2. v.lock \in {None, "refs", "index"}
    BY <1>3 DEF Sound, Workspaces
  <2>3. CASE r.pc \in Clones
    BY <1>1, <2>1, <2>3 DEF LeftBy, Clones
  <2>4. CASE r.pc = "fetch"
    BY <1>1, <2>1, <2>4 DEF LeftBy
  <2>5. CASE r.pc \notin Clones \union {"fetch"}
    BY <1>1, <2>1, <2>2, <2>5 DEF LeftBy, Clones
  <2> QED
    BY <2>3, <2>4, <2>5
<1>5. CASE w = v
  BY <1>1, <1>2, <1>5, StopInPlace
<1>6. CASE r.pc \in Clones /\ w = Bare
  <2>1. w \in Workspaces /\ w.git = "none" /\ w.origin = None
        /\ w.head = None /\ w.fetched = None /\ w.tracked = None
    BY <1>6 DEF Bare, Workspaces
  <2>2. Sound(w) /\ Repository(w, remote)
    BY <1>6, <2>1 DEF Sound, Repository
  <2>3. s \in Cloning
    BY <1>1, <1>6 DEF Cloning, Clones
  <2> QED
    BY <1>1, <1>2, <1>3, <2>2, <2>3, StopStep
<1>7. CASE v.git = "configured" /\ \E l \in {None, "refs", "index"} :
             w = [v EXCEPT !.lock = l] \/ w = [v EXCEPT !.tree = Mixed, !.extra = TRUE, !.lock = l]
  <2>1. SameRepository(v, w)
    BY <1>3, <1>7 DEF SameRepository, Sound, Workspaces
  <2>2. Sound(w) /\ Repository(w, remote) /\ Onward(v, w)
    BY <1>3, <2>1, RepositoryKept
  <2> QED
    BY <1>1, <1>2, <1>3, <2>2, StopStep
<1> QED
  BY <1>4, <1>5, <1>6, <1>7

-----------------------------------------------------------------------------
(* A call comes to the workspace                                           *)

LEMMA PrepareStep ==
  ASSUME SyncInv, NEW s \in Syncs, Prepare(s)
  PROVE  SyncInv'
<1>1. PICK r, v, c : r = sync[s] /\ v = workspace /\ c = Cloning
  OBVIOUS
<1>2. PICK q : q = [r EXCEPT !.pc = IF v.git = "none" THEN "clone" ELSE "origin",
                             !.since = remote[<<r.row.url, r.row.branch>>], !.company = Company]
  OBVIOUS
<1>3. /\ r.pc = "prepare" /\ UNCHANGED <<row, created, creds, remote, update, workspace>>
      /\ sync' = [t \in Syncs |-> IF t = s THEN q
            ELSE IF t \in Running THEN [sync[t] EXCEPT !.company = Joined(t)] ELSE sync[t]]
  BY <1>1, <1>2 DEF Prepare, Quiet, Row
<1>4. /\ r \in SyncStates /\ Call(r) /\ Sound(v) /\ remote \in Heads
      /\ r.row \in Rows /\ remote[<<r.row.url, r.row.branch>>] \in Nat
  <2>1. r \in SyncStates /\ Call(r) /\ Sound(v) /\ remote \in Heads
    BY <1>1, TypesOfState DEF SyncInv, Handler
  <2>2. r.row \in Rows
    BY <1>3, <2>1 DEF Call
  <2> QED
    BY <2>1, <2>2, HeadOfRow
<1>5. Company \in {"alone", "shared", "clone"}
  BY DEF Company
<1>6. /\ q \in SyncStates /\ q.row = r.row /\ q.secret = r.secret
      /\ q.pc = IF v.git = "none" THEN "clone" ELSE "origin"
      /\ q.since = remote[<<r.row.url, r.row.branch>>] /\ q.company = Company
  <2>1. PICK pc, n, x : /\ pc = IF v.git = "none" THEN "clone" ELSE "origin"
                        /\ n = remote[<<r.row.url, r.row.branch>>] /\ x = Company
    OBVIOUS
  <2>2. q = [r EXCEPT !.pc = pc, !.since = n, !.company = x]
    BY <1>2, <2>1
  <2>3. pc \in Commands /\ n \in Nat /\ x \in {"alone", "shared", "clone"}
    BY <1>4, <1>5, <2>1 DEF Commands
  <2>4. q \in SyncStates /\ q.row = r.row /\ q.secret = r.secret
        /\ q.pc = pc /\ q.since = n /\ q.company = x
    BY <1>4, <2>2, <2>3 DEF SyncStates
  <2> QED
    BY <2>1, <2>4
<1>7. Call(q)
  BY <1>3, <1>4, <1>6 DEF Call, Commands
<1>8. Told(q, remote) /\ Lone(q, v)
  BY <1>6 DEF Told, Lone
<1>9. c \subseteq Running /\ c \subseteq Syncs /\ s \notin c /\ s \notin Running
  BY <1>1, <1>3 DEF Cloning, Running, Commands
<1>10. Place(q, v, remote, c)
  <2>1. Company # "clone" => c = {}
    BY <1>1, <1>9 DEF Company
  <2> QED
    BY <1>4, <1>6, <2>1 DEF Place, OnBranch, Clones, AtWork
<1>11. ASSUME NEW t \in Syncs \ {s}
       PROVE  /\ sync'[t] \in SyncStates /\ Call(sync'[t]) /\ Place(sync'[t], v, remote, c)
              /\ Told(sync'[t], remote) /\ Lone(sync'[t], v)
              /\ sync'[t].pc = sync[t].pc
              /\ t \in Running => sync'[t].company # "alone"
  <2>1. PICK u : u = sync[t]
    OBVIOUS
  <2>2. u \in SyncStates /\ Call(u) /\ Place(u, v, remote, c) /\ Told(u, remote) /\ Lone(u, v)
    BY <1>1, <2>1, TypesOfState DEF SyncInv, Handler
  <2>3. CASE t \notin Running
    BY <1>3, <2>1, <2>2, <2>3
  <2>4. CASE t \in Running
    <3>1. PICK x : x = Joined(t)
      OBVIOUS
    <3>2. x \in {"shared", "clone"} /\ (x = "shared" => u.company # "clone")
      BY <2>1, <2>2, <3>1 DEF Joined, SyncStates
    <3>3. sync'[t] = [u EXCEPT !.company = x]
      BY <1>3, <2>1, <2>4, <3>1
    <3>4. sync'[t].pc = u.pc /\ sync'[t].company = x
      BY <2>2, <3>3 DEF SyncStates
    <3>5. PICK y : y = sync'[t]
      OBVIOUS
    <3>6. y \in SyncStates /\ Call(y) /\ Place(y, v, remote, c) /\ Told(y, remote) /\ Lone(y, v)
      <4>1. y = [u EXCEPT !.company = x]
        BY <3>3, <3>5
      <4> QED
        BY <2>2, <3>2, <4>1, CompanyJoins, Zenon
    <3> QED
      BY <2>1, <3>2, <3>4, <3>5, <3>6
  <2> QED
    BY <2>3, <2>4
<1>12. sync'[s] = q
  BY <1>3
<1>13. sync' \in [Syncs -> SyncStates]
  <2>1. \A t \in Syncs : sync'[t] \in SyncStates
    BY <1>6, <1>11, <1>12
  <2>2. sync' = [t \in Syncs |-> sync'[t]]
    BY <1>3
  <2> QED
    BY <2>1, <2>2
<1>14. Cloning' = c
  BY <1>1, <1>6, <1>9, <1>11, <1>12 DEF Cloning
<1>15. \A t \in Syncs : Handler(t)'
  BY <1>1, <1>3, <1>6, <1>7, <1>8, <1>10, <1>11, <1>12, <1>14 DEF Handler
<1>16. Apart'
  <2>1. ASSUME NEW t \in Running', sync'[t].company = "alone" PROVE Running' = {t}
    <3>1. t \notin Running
      BY <1>9, <1>11, <2>1 DEF Running
    <3>2. t = s
      BY <1>11, <2>1, <3>1 DEF Running
    <3>3. Running = {}
      BY <1>5, <1>6, <1>12, <2>1, <3>2 DEF Company
    <3> QED
      BY <1>11, <2>1, <3>2, <3>3 DEF Running
  <2> QED
    BY <1>1, <1>14, <2>1 DEF Apart, SyncInv
<1>17. TypeOK' /\ NoDanglingCredential'
  <2>1. TypeOK'
    BY <1>3, <1>13 DEF SyncInv, TypeOK
  <2>2. Stored' = Stored
    BY <1>3 DEF Stored
  <2> QED
    BY <1>3, <2>1, <2>2 DEF SyncInv, NoDanglingCredential
<1> QED
  BY <1>3, <1>15, <1>16, <1>17 DEF SyncInv, Repository

-----------------------------------------------------------------------------
(* The rows, and pushes of others                                          *)

LEMMA RowsFrame ==
  ASSUME SyncInv, UNCHANGED <<remote, workspace, sync>>,
         row' \in Rows \union {None}, created' \in BOOLEAN,
         creds' \in [Credentials -> {"new", "stored", "deleted"}],
         update' \in [Updates -> [pc : {"idle", "write", "done"}, row : Rows \union {None}]],
         \A u \in Updates : update'[u].pc = "write" => update'[u].row \in Rows,
         NoDanglingCredential'
  PROVE  SyncInv'
<1>1. TypeOK'
  BY DEF SyncInv, TypeOK
<1>2. \A s \in Syncs : Handler(s)'
  BY DEF SyncInv, Handler, Cloning
<1>3. Apart'
  BY DEF SyncInv, Apart, Cloning, Running
<1> QED
  BY <1>1, <1>2, <1>3 DEF SyncInv

LEMMA ProjectStep ==
  ASSUME SyncInv,
         (\E r \in NewRows : Create(r)) \/ (\E u \in Updates : UpdateWrite(u)) \/ Delete
  PROVE  SyncInv'
<1> USE DEF SyncInv, TypeOK
<1>1. UNCHANGED <<remote, workspace, sync, creds>> /\ Stored' = Stored
  BY DEF Create, UpdateWrite, Delete, Stored
<1>2. CASE \E r \in NewRows : Create(r)
  <2>1. PICK r \in NewRows : Create(r)
    BY <1>2
  <2>2. r \in Rows
    BY SyncAssumption
  <2>3. NoDanglingCredential'
    BY <1>1, <2>1 DEF Create, References, NoDanglingCredential
  <2> QED
    BY <1>1, <2>1, <2>2, <2>3, RowsFrame DEF Create
<1>3. CASE \E u \in Updates : UpdateWrite(u)
  <2>1. PICK u \in Updates : UpdateWrite(u)
    BY <1>3
  <2>2. update[u].row \in Rows
    BY <2>1 DEF UpdateWrite
  <2>3. row' \in Rows \union {None} /\ NoDanglingCredential'
    BY <1>1, <2>1, <2>2 DEF UpdateWrite, References, NoDanglingCredential
  <2>4. Answered \in [pc : {"idle", "write", "done"}, row : Rows \union {None}]
        /\ Answered.pc = "done"
    BY DEF Answered
  <2>5. /\ update' \in [Updates -> [pc : {"idle", "write", "done"}, row : Rows \union {None}]]
        /\ \A t \in Updates : update'[t].pc = "write" => update'[t].row \in Rows
    BY <2>1, <2>4 DEF UpdateWrite
  <2> QED
    BY <1>1, <2>1, <2>3, <2>5, RowsFrame DEF UpdateWrite
<1>4. CASE Delete
  BY <1>1, <1>4, RowsFrame DEF Delete, NoDanglingCredential
<1> QED
  BY <1>2, <1>3, <1>4

LEMMA UpdateReadStep ==
  ASSUME SyncInv, NEW u \in Updates, NEW request \in Requests, UpdateRead(u, request)
  PROVE  SyncInv'
<1> USE DEF SyncInv, TypeOK
<1> DEFINE States == [pc : {"idle", "write", "done"}, row : Rows \union {None}]
<1>1. UNCHANGED <<row, created, creds, remote, workspace, sync>> /\ Stored' = Stored
  BY DEF UpdateRead, Stored
<1>2. PICK a : a = IF row = None THEN Answered ELSE [pc |-> "write", row |-> Merge(request)]
  OBVIOUS
<1>3. row # None => Merge(request) \in Rows
  <2> SUFFICES ASSUME row # None PROVE Merge(request) \in Rows
    OBVIOUS
  <2>1. row.url \in Urls /\ row.branch \in Branches /\ row.auth \in Credentials \union {None}
    BY DEF Rows
  <2>2. request.url \in Urls \union {Keep} /\ request.branch \in Branches \union {Keep}
        /\ request.auth \in Credentials \union {None, Keep}
    BY SyncAssumption
  <2> QED
    BY <2>1, <2>2 DEF Merge, Rows
<1>4. a \in States /\ (a.pc = "write" => a.row \in Rows)
  BY <1>2, <1>3 DEF Answered
<1>5. update' = [update EXCEPT ![u] = a]
  BY <1>2 DEF UpdateRead
<1>6. /\ update' \in [Updates -> States]
      /\ \A t \in Updates : update'[t].pc = "write" => update'[t].row \in Rows
  BY <1>4, <1>5
<1>7. NoDanglingCredential'
  BY <1>1 DEF NoDanglingCredential
<1> QED
  BY <1>1, <1>6, <1>7, RowsFrame

LEMMA CredentialStep ==
  ASSUME SyncInv, NEW k \in Credentials, CreateCredential(k) \/ DeleteCredential(k)
  PROVE  SyncInv'
<1> USE DEF SyncInv, TypeOK
<1>1. UNCHANGED <<created, remote, workspace, sync, update>>
      /\ creds' \in [Credentials -> {"new", "stored", "deleted"}]
  BY DEF CreateCredential, DeleteCredential
<1>2. CASE CreateCredential(k)
  <2>1. Stored \subseteq Stored'
    BY <1>2 DEF CreateCredential, Stored
  <2> QED
    BY <1>1, <1>2, <2>1, RowsFrame DEF CreateCredential, NoDanglingCredential
<1>3. CASE DeleteCredential(k)
  <2>1. Stored' = Stored \ {k}
    BY <1>3 DEF DeleteCredential, Stored
  <2>2. row # None => row.auth \in Credentials \union {None}
    BY DEF Rows
  <2>3. row' \in Rows \union {None}
    BY <1>3 DEF DeleteCredential, SetNull, Rows
  <2>4. row' # None => row'.auth = None \/ (row' = row /\ row.auth # k)
    BY <1>3 DEF DeleteCredential, SetNull, Rows
  <2>5. NoDanglingCredential'
    BY <2>1, <2>2, <2>4 DEF NoDanglingCredential
  <2> QED
    BY <1>1, <2>3, <2>5, RowsFrame
<1> QED
  BY <1>2, <1>3

LEMMA PushStep ==
  ASSUME SyncInv, NEW x \in Urls \X Branches, Push(x[1], x[2])
  PROVE  SyncInv'
<1>1. PICK m, n, v, c : m = remote /\ n = remote' /\ v = workspace /\ c = Cloning
  OBVIOUS
<1>2. UNCHANGED <<row, created, creds, workspace, sync, update>> /\ n = [m EXCEPT ![x] = @ + 1]
  <2>1. <<x[1], x[2]>> = x
    OBVIOUS
  <2> QED
    BY <1>1, <2>1 DEF Push
<1>3. m \in Heads /\ Sound(v) /\ Repository(v, m) /\ Onward(v, v)
  BY <1>1, TypesOfState, OnwardNowhere DEF SyncInv
<1>4. n \in Heads /\ Later(m, n)
  BY <1>2, <1>3 DEF Heads, Later
<1>5. Repository(v, n)
  <2> SUFFICES ASSUME NEW h \in {v.head, v.fetched}, h # None
               PROVE  /\ h \in Commits /\ h.url = v.origin /\ h.branch = v.tracked
                      /\ h.n <= n[<<v.origin, v.tracked>>]
    BY DEF Repository
  <2>1. /\ h \in Commits /\ h.url = v.origin /\ h.branch = v.tracked
        /\ h.n <= m[<<v.origin, v.tracked>>]
    BY <1>3 DEF Repository
  <2>2. h.n \in Nat /\ <<v.origin, v.tracked>> \in Urls \X Branches
    BY <2>1 DEF Commits
  <2>3. PICK y : y = <<v.origin, v.tracked>>
    OBVIOUS
  <2>4. m[y] \in Nat /\ n[y] \in Nat /\ m[y] <= n[y]
    BY <1>3, <1>4, <2>2, <2>3 DEF Heads, Later
  <2> QED
    BY <2>1, <2>2, <2>3, <2>4
<1>6. ASSUME NEW s \in Syncs PROVE Handler(s)'
  <2>1. PICK r : r = sync[s]
    OBVIOUS
  <2>2. r \in SyncStates /\ Call(r) /\ Place(r, v, m, c) /\ Told(r, m) /\ Lone(r, v)
    BY <1>1, <2>1, TypesOfState DEF SyncInv, Handler
  <2>3. Place(r, v, n, c)
    BY <1>3, <1>4, <2>2, PlaceOnward
  <2>4. Told(r, n)
    BY <1>3, <1>4, <2>2, ToldLater
  <2> QED
    BY <1>1, <1>2, <2>1, <2>2, <2>3, <2>4 DEF Handler, Cloning
<1>7. TypeOK' /\ NoDanglingCredential'
  BY <1>1, <1>2, <1>4 DEF SyncInv, TypeOK, Heads, NoDanglingCredential, Stored
<1>8. Apart'
  BY <1>2 DEF SyncInv, Apart, Cloning, Running
<1> QED
  BY <1>1, <1>2, <1>5, <1>6, <1>7, <1>8 DEF SyncInv

-----------------------------------------------------------------------------
(* The invariant and what follows from it                                  *)

LEMMA SyncInitially ==
  Init => SyncInv
<1> SUFFICES ASSUME Init PROVE SyncInv
  OBVIOUS
<1>1. Bare \in Workspaces
  BY DEF Bare, Workspaces
<1>2. NewSync \in SyncStates /\ NewSync.pc = "idle"
  BY NewSyncTyped DEF NewSync
<1>3. TypeOK /\ NoDanglingCredential
  BY <1>1, <1>2 DEF Init, TypeOK, NoDanglingCredential, Bare
<1>4. \A u \in Updates : update[u].pc = "write" => update[u].row \in Rows
  BY DEF Init
<1>5. Repository(workspace, remote)
  BY DEF Init, Repository, Bare
<1>6. ASSUME NEW s \in Syncs PROVE Handler(s)
  <2>1. sync[s].pc = "idle"
    BY <1>2 DEF Init
  <2> QED
    BY <2>1 DEF Handler, Call, Told, Lone, Place, Commands, Clones, AtWork, OnBranch
<1>7. Apart
  BY <1>2 DEF Init, Apart, Cloning, Running, Commands
<1> QED
  BY <1>3, <1>4, <1>5, <1>6, <1>7 DEF SyncInv

LEMMA SyncStep ==
  SyncInv /\ [Next]_vars => SyncInv'
<1> SUFFICES ASSUME SyncInv, [Next]_vars PROVE SyncInv'
  OBVIOUS
<1>1. CASE (\E r \in NewRows : Create(r)) \/ (\E u \in Updates : UpdateWrite(u)) \/ Delete
  BY <1>1, ProjectStep
<1>2. CASE \E u \in Updates, request \in Requests : UpdateRead(u, request)
  BY <1>2, UpdateReadStep
<1>3. CASE \E k \in Credentials : CreateCredential(k) \/ DeleteCredential(k)
  BY <1>3, CredentialStep
<1>4. CASE \E s \in Syncs : SyncProject(s)
  BY <1>4, FindStep, ReadKindStep, DecryptStep, PrepareStep, CloneStartStep,
     CloneConfigureStep, CloneFetchStep, CloneFillStep, VerifyOriginStep, FetchStep,
     CheckoutStep, ResetStep, CleanStep,
     ReadShaStep, ReadMessageStep, ReadAuthorStep DEF SyncProject
<1>5. CASE \E s \in Syncs : \E f \in Faults : Fault(s, f)
  BY <1>5, FaultStep
<1>6. CASE \E x \in Urls \X Branches : Push(x[1], x[2])
  BY <1>6, PushStep
<1>7. CASE UNCHANGED vars
  <2>1. Stored' = Stored
    BY <1>7 DEF vars, Stored
  <2> QED
    BY <1>7, <2>1, RowsFrame DEF vars, SyncInv, TypeOK, NoDanglingCredential
<1> QED
  BY <1>1, <1>2, <1>3, <1>4, <1>5, <1>6, <1>7 DEF Next

LEMMA SyncAlways == Spec => []SyncInv
  BY SyncInitially, SyncStep, PTL DEF Spec

\* Every state is well formed and the project never names a credential that
\* is not stored, although an update writes back what it read long before.
THEOREM ReferencesSound == Spec => []RowInv
<1>1. SyncInv => RowInv
  BY DEF SyncInv, RowInv
<1> QED
  BY <1>1, SyncAlways, PTL

\* git runs with the credential that the row of the call named, and with one
\* that fits its URL; never without it because it was deleted meanwhile.
THEOREM CredentialAsAssigned == Spec => []GitUsesAssignedCredential
<1>1. SyncInv => GitUsesAssignedCredential
  BY DEF SyncInv, Handler, Call, GitUsesAssignedCredential, Running, Row, Commands
<1> QED
  BY <1>1, SyncAlways, PTL

\* A snapshot tells commits of the row that are not stale, whatever earlier
\* and overlapping calls did to the workspace short of cloning it anew, and
\* one commit when nobody else was at work there.
THEOREM SnapshotsTellTheRow == Spec => []SnapshotExact
<1>1. SyncInv => SnapshotExact
  <2> SUFFICES ASSUME SyncInv, NEW s \in Syncs, sync[s].pc = "done"
               PROVE  /\ sync[s].company # "clone" =>
                           \A commit \in {sync[s].sha, sync[s].message, sync[s].author} :
                             OfRow(s, commit)
                      /\ sync[s].company = "alone" =>
                           {sync[s].sha, sync[s].message, sync[s].author} = {sync[s].sha}
    BY DEF SnapshotExact
  <2>1. Told(sync[s], remote) /\ Lone(sync[s], workspace)
    BY DEF SyncInv, Handler
  <2>2. ASSUME NEW x, Tells(sync[s], x, remote) PROVE OfRow(s, x)
    BY <2>2, CommitIsSomething DEF Tells, OfRow, Row
  <2> QED
    BY <2>1, <2>2 DEF Told, Lone
<1> QED
  BY <1>1, SyncAlways, PTL

\* A call that has the workspace for itself leaves the tree of the commit it
\* tells, with nothing in it of an interrupted command.
THEOREM LoneCallsCleanTheTree == Spec => []LoneTreeClean
<1>1. SyncInv => LoneTreeClean
  BY DEF SyncInv, Handler, Lone, LoneTreeClean
<1> QED
  BY <1>1, SyncAlways, PTL

\* Which step takes a call that is at a git command to its failure.
LEMMA FailingStep ==
  ASSUME SyncInv, [Next]_vars, NEW s \in Syncs, sync[s].pc \in Commands, sync'[s].pc = "failed"
  PROVE  \/ CloneStart(s) \/ CloneFill(s) \/ VerifyOrigin(s) \/ Fetch(s) \/ Checkout(s)
         \/ Reset(s) \/ Clean(s) \/ ReadSha(s) \/ ReadMessage(s) \/ ReadAuthor(s)
<1>1. sync \in [Syncs -> SyncStates]
  BY DEF SyncInv, TypeOK
<1>2. PICK t \in Syncs : SyncProject(t) \/ \E f \in Faults : Fault(t, f)
  <2>1. sync' # sync
    BY DEF Commands
  <2> QED
    BY <2>1 DEF Next, Create, UpdateRead, UpdateWrite, Delete, CreateCredential,
       DeleteCredential, Push, vars
<1>3. /\ sync[t] \in SyncStates
      /\ \A pc : Step(t, pc) => sync'[t].pc = pc
      /\ \A pc : Stop(t, pc) => sync'[t].pc = pc
  BY <1>1 DEF Step, Stop, NewSync, SyncStates
<1>4. t = s
  <2> SUFFICES ASSUME t # s PROVE sync'[s].pc = sync[s].pc
    BY DEF Commands
  <2>1. CASE Prepare(t)
    <3>1. sync'[s] = sync[s] \/ sync'[s] = [sync[s] EXCEPT !.company = Joined(s)]
      BY <2>1 DEF Prepare
    <3>2. PICK r, x : r = sync[s] /\ x = Joined(s)
      OBVIOUS
    <3>3. r \in SyncStates
      BY <1>1, <3>2
    <3>4. [r EXCEPT !.company = x].pc = r.pc
      BY <3>3 DEF SyncStates
    <3> QED
      BY <3>1, <3>2, <3>4
  <2>2. CASE ~Prepare(t)
    BY <1>1, <1>2, <2>2 DEF SyncProject, Fault, Find, ReadKind, Decrypt, Refuse, CloneStart,
       CloneConfigure, CloneFetch, CloneFill, VerifyOrigin, Fetch, Checkout, Reset, Clean, ReadSha,
       ReadMessage, ReadAuthor, Step, Stop
  <2> QED
    BY <2>1, <2>2
<1>5. ~\E f \in Faults : Fault(t, f)
  BY <1>3, <1>4 DEF Fault
<1>6. ~(Find(t) \/ ReadKind(t) \/ Decrypt(t) \/ Prepare(t))
  BY <1>4 DEF Find, ReadKind, Decrypt, Prepare, Ended, Commands
<1>7. ~(CloneConfigure(t) \/ CloneFetch(t))
  BY <1>3, <1>4 DEF CloneConfigure, CloneFetch
<1> QED
  BY <1>2, <1>4, <1>5, <1>6, <1>7 DEF SyncProject

\* A call that has the workspace for itself fails without a failing command
\* only for a clone killed before it has configured its branch, a lock file,
\* another repository or another branch.
THEOREM LoneCallsRecover == Spec => LoneSyncsRecover
<1> DEFINE Excused(s) == \/ workspace.git = "begun" \/ workspace.lock # None
                         \/ workspace.origin # Row(s).url \/ workspace.tracked # Row(s).branch
           Fails(s) == s \in Running /\ sync'[s].pc = "failed" /\ sync[s].company = "alone"
<1>1. ASSUME SyncInv, NEW s \in Syncs, [Next]_vars, Fails(s) PROVE Excused(s)
  <2>1. PICK r : r = sync[s]
    OBVIOUS
  <2>2. /\ r.pc \in Commands /\ r.company = "alone" /\ sync'[s].pc = "failed"
        /\ Place(r, workspace, remote, Cloning) /\ Lone(r, workspace) /\ Row(s) = r.row
        /\ workspace.git \in {"none", "begun", "configured"}
        /\ r.pc \in AtWork => workspace.git # "none"
        /\ r.pc \in OnBranch => workspace.tracked = r.row.branch /\ workspace.head # None
    BY <1>1, <2>1, AtCommand DEF Running, Row, Sound, Workspaces, Place, OnBranch, AtWork,
       Commands
  <2>3. \A pc : Step(s, pc) => sync'[s].pc = pc
    BY <1>1 DEF Step, SyncInv, TypeOK, SyncStates
  <2>4. CASE CloneStart(s)
    BY <2>1, <2>2, <2>3, <2>4 DEF CloneStart, Lone
  <2>5. CASE CloneFill(s)
    BY <2>1, <2>2, <2>3, <2>5, SyncAssumption DEF CloneFill, Unfilled, Lone
  <2>6. CASE VerifyOrigin(s)
    BY <2>2, <2>3, <2>6 DEF VerifyOrigin
  <2>7. CASE Fetch(s)
    BY <2>1, <2>2, <2>3, <2>7, SyncAssumption DEF Fetch, AtWork, Commands
  <2>8. CASE Checkout(s)
    <3>1. workspace.tracked = r.row.branch => workspace.fetched # None
      BY <2>1, <2>2, <2>8 DEF Checkout, Place, AtWork, Commands
    <3> QED
      BY <2>1, <2>2, <2>3, <2>8, <3>1, SyncAssumption
         DEF Checkout, CanCheckout, LocalHead, OnTrackedBranch
  <2>9. CASE Reset(s)
    <3>1. workspace.fetched # None
      BY <2>1, <2>2, <2>9 DEF Reset, Place, OnBranch, AtWork, Commands
    <3> QED
      BY <2>1, <2>2, <2>3, <2>9, <3>1, SyncAssumption
         DEF Reset, Target, OnTrackedBranch, OnBranch
  <2>10. CASE Clean(s)
    BY <2>1, <2>2, <2>3, <2>10 DEF Clean, AtWork, Commands
  <2>11. CASE ReadSha(s) \/ ReadMessage(s) \/ ReadAuthor(s)
    <3>1. workspace.head # None
      BY <2>1, <2>2, <2>11 DEF ReadSha, ReadMessage, ReadAuthor, OnBranch
    <3> QED
      BY <1>1, <2>2, <2>11, <3>1 DEF ReadSha, ReadMessage, ReadAuthor, SyncInv, TypeOK, SyncStates
  <2> QED
    BY <1>1, <2>1, <2>2, <2>4, <2>5, <2>6, <2>7, <2>8, <2>9, <2>10, <2>11, FailingStep
<1>2. SyncInv /\ [Next]_vars =>
        [\A s \in Syncs :
           s \in Running /\ sync'[s].pc = "failed" /\ sync[s].company = "alone" =>
             \/ workspace.git = "begun" \/ workspace.lock # None
             \/ workspace.origin # Row(s).url
             \/ workspace.tracked # Row(s).branch]_vars
  BY <1>1
<1> QED
  BY <1>2, SyncAlways, PTL DEF Spec, LoneSyncsRecover
=============================================================================

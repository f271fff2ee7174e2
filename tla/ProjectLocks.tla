---------------------------- MODULE ProjectLocks ----------------------------
(***************************************************************************)
(* PipelineEngine::project_permit: the map project_locks of weak pointers  *)
(* to one-permit semaphores.  A task owns a semaphore (its Arc) while it   *)
(* waits for the permit and while it holds it; when the last owner is gone *)
(* the semaphore is gone, and the map's entry dangles until the next call  *)
(* sweeps it out.  Owners come and go without the map's mutex.             *)
(***************************************************************************)
EXTENDS Integers, FiniteSets

CONSTANTS Projects, Tasks, ProjectOfTask,
          Semaphores,    \* identities a newly allocated semaphore can have
          None

ASSUME LocksAssumption ==
  /\ ProjectOfTask \in [Tasks -> Projects]
  /\ None \notin Tasks \cup Semaphores

VARIABLES
  phase,      \* where each task is in project_permit
  arc,        \* the semaphore a task owns
  lockMap,    \* project -> the semaphore its Weak points to
  mapOwner,   \* the task in the critical section of the map's mutex
  permits     \* available permits of each semaphore

vars == <<phase, arc, lockMap, mapOwner, permits>>

Phases == {"idle", "sweeping", "waiting", "holding"}

\* strong_count() of a semaphore is the number of its owners.
Owners(s) == {t \in Tasks : arc[t] = s}
Alive(s) == s # None /\ Owners(s) # {}

\* A dangling Weak keeps the memory of its semaphore from being used again.
Fresh(s) == Owners(s) = {} /\ \A p \in Projects : lockMap[p] # s

Init ==
  /\ phase = [t \in Tasks |-> "idle"]
  /\ arc = [t \in Tasks |-> None]
  /\ lockMap = [p \in Projects |-> None]
  /\ mapOwner = None
  /\ permits = [s \in Semaphores |-> 1]

-----------------------------------------------------------------------------
(* Mutants: bugs the properties below must notice; not part of the         *)
(* specification.                                                          *)

\* The map is consulted without checking that the entry is the live one:
\* every call makes and registers a semaphore of its own.
UpgradeNever(t) ==
  /\ phase[t] = "sweeping"
  /\ \E s \in Semaphores :
       /\ Fresh(s)
       /\ arc' = [arc EXCEPT ![t] = s]
       /\ lockMap' = [lockMap EXCEPT ![ProjectOfTask[t]] = s]
       /\ permits' = [permits EXCEPT ![s] = 1]
  /\ mapOwner' = None
  /\ phase' = [phase EXCEPT ![t] = "waiting"]

\* retain keeps an entry only while someone holds the permit, not while
\* someone waits for it.
SweepWaiters(t) ==
  /\ phase[t] = "idle"
  /\ mapOwner = None
  /\ mapOwner' = t
  /\ lockMap' = [p \in Projects |->
       IF \E u \in Tasks : phase[u] = "holding" /\ arc[u] = lockMap[p]
         THEN lockMap[p] ELSE None]
  /\ phase' = [phase EXCEPT ![t] = "sweeping"]
  /\ UNCHANGED <<arc, permits>>

\* A dropped permit is forgotten instead of returned.
DropForget(t) ==
  /\ phase[t] = "holding"
  /\ arc' = [arc EXCEPT ![t] = None]
  /\ phase' = [phase EXCEPT ![t] = "idle"]
  /\ UNCHANGED <<lockMap, mapOwner, permits>>

-----------------------------------------------------------------------------
(* Steps                                                                   *)

\* locks.lock(), then locks.retain(|_, lock| lock.strong_count() > 0)
Sweep(t) ==
  /\ phase[t] = "idle"
  /\ mapOwner = None
  /\ mapOwner' = t
  /\ lockMap' = [p \in Projects |-> IF Alive(lockMap[p]) THEN lockMap[p] ELSE None]
  /\ phase' = [phase EXCEPT ![t] = "sweeping"]
  /\ UNCHANGED <<arc, permits>>

\* get(project).and_then(Weak::upgrade), or a new semaphore.  The last owner
\* may have left since the sweep.
Upgrade(t) ==
  LET p == ProjectOfTask[t] IN
  /\ phase[t] = "sweeping"
  /\ \/ /\ Alive(lockMap[p])
        /\ arc' = [arc EXCEPT ![t] = lockMap[p]]
        /\ UNCHANGED <<lockMap, permits>>
     \/ /\ ~Alive(lockMap[p])
        /\ \E s \in Semaphores :
             /\ Fresh(s)
             /\ arc' = [arc EXCEPT ![t] = s]
             /\ lockMap' = [lockMap EXCEPT ![p] = s]
             /\ permits' = [permits EXCEPT ![s] = 1]
  /\ mapOwner' = None
  /\ phase' = [phase EXCEPT ![t] = "waiting"]

\* lock.acquire_owned().await
Acquire(t) ==
  /\ phase[t] = "waiting"
  /\ permits[arc[t]] > 0
  /\ permits' = [permits EXCEPT ![arc[t]] = @ - 1]
  /\ phase' = [phase EXCEPT ![t] = "holding"]
  /\ UNCHANGED <<arc, lockMap, mapOwner>>

\* The OwnedSemaphorePermit is dropped: the permit goes back, then the Arc.
Drop(t) ==
  /\ phase[t] = "holding"
  /\ permits' = [permits EXCEPT ![arc[t]] = @ + 1]
  /\ arc' = [arc EXCEPT ![t] = None]
  /\ phase' = [phase EXCEPT ![t] = "idle"]
  /\ UNCHANGED <<lockMap, mapOwner>>

\* The caller drops the future while it waits.
Abandon(t) ==
  /\ phase[t] = "waiting"
  /\ arc' = [arc EXCEPT ![t] = None]
  /\ phase' = [phase EXCEPT ![t] = "idle"]
  /\ UNCHANGED <<lockMap, mapOwner, permits>>

Step(t) == Sweep(t) \/ Upgrade(t) \/ Acquire(t) \/ Drop(t) \/ Abandon(t)

Next == \E t \in Tasks : Step(t)

Spec == Init /\ [][Next]_vars

\* A call once begun goes on; a waiting task is not polled forever in vain:
\* the semaphore's queue serves waiters in turn.
FairSpec ==
  /\ Spec
  /\ \A t \in Tasks : WF_vars(Upgrade(t)) /\ SF_vars(Acquire(t)) /\ WF_vars(Drop(t))

-----------------------------------------------------------------------------
\* The form of every state; a semaphore never has more than its one permit.
TypeOK ==
  /\ phase \in [Tasks -> Phases]
  /\ arc \in [Tasks -> Semaphores \cup {None}]
  /\ lockMap \in [Projects -> Semaphores \cup {None}]
  /\ mapOwner \in Tasks \cup {None}
  /\ permits \in [Semaphores -> 0 .. 1]

\* The tasks of a project that wait for it or hold it share one semaphore,
\* and it is the one the map leads the next caller to.
OneLiveSemaphore ==
  \A t \in Tasks : arc[t] # None => arc[t] = lockMap[ProjectOfTask[t]]

\* At most one task holds the permit of a project.
MutualExclusion ==
  \A t, u \in Tasks :
    /\ phase[t] = "holding"
    /\ phase[u] = "holding"
    /\ ProjectOfTask[t] = ProjectOfTask[u]
    => t = u

\* The task the abstract lock of project p is held by.
HolderOf(p) ==
  IF \E t \in Tasks : phase[t] = "holding" /\ ProjectOfTask[t] = p
    THEN CHOOSE t \in Tasks : phase[t] = "holding" /\ ProjectOfTask[t] = p
    ELSE None

\* The weak map implements a mutex per project.
Mutex == INSTANCE ProjectMutex WITH holder <- [p \in Projects |-> HolderOf(p)]
ImplementsMutex == Mutex!Spec

\* A waiting task gets the permit unless its caller gives up.
WaitersServed ==
  \A t \in Tasks : phase[t] = "waiting" ~> phase[t] # "waiting"
=============================================================================

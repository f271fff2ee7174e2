------------------------- MODULE ProjectLocksProofs -------------------------
(***************************************************************************)
(* Proofs about ProjectLocks, for every set of tasks, projects and         *)
(* semaphores.                                                             *)
(***************************************************************************)
EXTENDS ProjectLocks, TLAPS

\* A task owns a semaphore exactly while it waits or holds, and it is the one
\* its project's entry points to; no two projects share an entry.
OwnersInv ==
  /\ \A t \in Tasks : phase[t] \in {"waiting", "holding"} <=> arc[t] # None
  /\ OneLiveSemaphore
  /\ \A p, q \in Projects : lockMap[p] # None /\ lockMap[p] = lockMap[q] => p = q

\* The permit is out while a task holds, and two holders of one semaphore
\* are the same task.
PermitInv ==
  /\ \A t \in Tasks : phase[t] = "holding" => permits[arc[t]] = 0
  /\ \A t, u \in Tasks :
       phase[t] = "holding" /\ phase[u] = "holding" /\ arc[t] = arc[u] => t = u

IInv == TypeOK /\ OwnersInv /\ PermitInv

LEMMA InitIInv == Init => IInv
  BY LocksAssumption DEF Init, IInv, TypeOK, OwnersInv, PermitInv, OneLiveSemaphore, Phases

LEMMA SweepIInv ==
  ASSUME IInv, NEW t \in Tasks, Sweep(t)
  PROVE  IInv'
<1> USE LocksAssumption DEF IInv
<1>1. TypeOK'
  BY DEF TypeOK, Sweep, Phases
<1>2. OneLiveSemaphore'
  <2> SUFFICES ASSUME NEW u \in Tasks, arc'[u] # None
               PROVE  arc'[u] = lockMap'[ProjectOfTask[u]]
    BY DEF OneLiveSemaphore
  <2>1. arc[u] = lockMap[ProjectOfTask[u]] /\ arc[u] # None
    BY DEF Sweep, OwnersInv, OneLiveSemaphore
  <2>2. Alive(lockMap[ProjectOfTask[u]])
    BY <2>1 DEF Alive, Owners
  <2> QED
    BY <2>1, <2>2 DEF Sweep
<1>3. OwnersInv'
  BY <1>2 DEF OwnersInv, Sweep, TypeOK, Phases
<1>4. PermitInv'
  BY DEF PermitInv, Sweep, TypeOK, Phases
<1> QED
  BY <1>1, <1>3, <1>4

LEMMA UpgradeIInv ==
  ASSUME IInv, NEW t \in Tasks, Upgrade(t)
  PROVE  IInv'
<1> USE LocksAssumption DEF IInv
<1> DEFINE p == ProjectOfTask[t]
<1>0. p \in Projects /\ phase[t] = "sweeping" /\ arc[t] = None
      /\ phase' = [phase EXCEPT ![t] = "waiting"] /\ mapOwner' = None
  BY DEF Upgrade, OwnersInv, TypeOK
<1>1. CASE Alive(lockMap[p])
  <2>1. /\ arc' = [arc EXCEPT ![t] = lockMap[p]]
        /\ UNCHANGED <<lockMap, permits>>
        /\ lockMap[p] # None
    BY <1>1 DEF Upgrade, Alive
  <2>2. TypeOK'
    BY <1>0, <2>1 DEF TypeOK, Phases
  <2>3. OwnersInv'
    BY <1>0, <2>1 DEF OwnersInv, OneLiveSemaphore, TypeOK, Phases
  <2>4. PermitInv'
    BY <1>0, <2>1 DEF PermitInv, TypeOK, Phases
  <2> QED
    BY <2>2, <2>3, <2>4
<1>2. CASE ~Alive(lockMap[p])
  <2>1. PICK s \in Semaphores :
          /\ Fresh(s)
          /\ arc' = [arc EXCEPT ![t] = s]
          /\ lockMap' = [lockMap EXCEPT ![p] = s]
          /\ permits' = [permits EXCEPT ![s] = 1]
    BY <1>2 DEF Upgrade
  <2>2. \A u \in Tasks : arc[u] # s
    BY <2>1 DEF Fresh, Owners
  <2>3. \A q \in Projects : lockMap[q] # s
    BY <2>1 DEF Fresh
  <2>4. TypeOK'
    BY <1>0, <2>1 DEF TypeOK, Phases
  <2>5. OneLiveSemaphore'
    <3> SUFFICES ASSUME NEW u \in Tasks, arc'[u] # None
                 PROVE  arc'[u] = lockMap'[ProjectOfTask[u]]
      BY DEF OneLiveSemaphore
    <3>1. CASE u = t
      BY <3>1, <2>1, <1>0 DEF TypeOK
    <3>2. CASE u # t
      <4>1. arc[u] # None /\ arc'[u] = arc[u] /\ arc[u] = lockMap[ProjectOfTask[u]]
        BY <3>2, <2>1 DEF OwnersInv, OneLiveSemaphore, TypeOK
      <4>2. ProjectOfTask[u] # p
        BY <4>1, <1>2 DEF Alive, Owners
      <4> QED
        BY <4>1, <4>2, <2>1 DEF TypeOK
    <3> QED
      BY <3>1, <3>2
  <2>6. OwnersInv'
    BY <1>0, <2>1, <2>3, <2>5 DEF OwnersInv, TypeOK, Phases
  <2>7. PermitInv'
    BY <1>0, <2>1, <2>2 DEF PermitInv, TypeOK, Phases
  <2> QED
    BY <2>4, <2>6, <2>7
<1> QED
  BY <1>1, <1>2

LEMMA AcquireIInv ==
  ASSUME IInv, NEW t \in Tasks, Acquire(t)
  PROVE  IInv'
<1> USE LocksAssumption DEF IInv
<1>0. /\ phase[t] = "waiting"
      /\ arc[t] \in Semaphores
      /\ permits[arc[t]] = 1
  BY DEF Acquire, OwnersInv, TypeOK
<1>1. TypeOK'
  BY <1>0 DEF TypeOK, Acquire, Phases
<1>2. OwnersInv'
  BY DEF OwnersInv, OneLiveSemaphore, Acquire, TypeOK, Phases
<1>3. PermitInv'
  BY <1>0 DEF PermitInv, Acquire, TypeOK, Phases, OwnersInv
<1> QED
  BY <1>1, <1>2, <1>3

LEMMA DropIInv ==
  ASSUME IInv, NEW t \in Tasks, Drop(t)
  PROVE  IInv'
<1> USE LocksAssumption DEF IInv
<1>0. /\ phase[t] = "holding"
      /\ arc[t] \in Semaphores
      /\ permits[arc[t]] = 0
  BY DEF Drop, OwnersInv, PermitInv, TypeOK
<1>1. TypeOK'
  BY <1>0 DEF TypeOK, Drop, Phases
<1>2. OwnersInv'
  BY DEF OwnersInv, OneLiveSemaphore, Drop, TypeOK, Phases
<1>3. PermitInv'
  BY <1>0 DEF PermitInv, Drop, TypeOK, Phases, OwnersInv
<1> QED
  BY <1>1, <1>2, <1>3

LEMMA AbandonIInv ==
  ASSUME IInv, NEW t \in Tasks, Abandon(t)
  PROVE  IInv'
<1> USE LocksAssumption DEF IInv
<1>1. TypeOK'
  BY DEF TypeOK, Abandon, Phases
<1>2. OwnersInv'
  BY DEF OwnersInv, OneLiveSemaphore, Abandon, TypeOK, Phases
<1>3. PermitInv'
  BY DEF PermitInv, Abandon, TypeOK, Phases
<1> QED
  BY <1>1, <1>2, <1>3

LEMMA NextIInv == IInv /\ [Next]_vars => IInv'
<1> SUFFICES ASSUME IInv, [Next]_vars PROVE IInv'
  OBVIOUS
<1>1. CASE Next
  BY <1>1, SweepIInv, UpgradeIInv, AcquireIInv, DropIInv, AbandonIInv DEF Next, Step
<1>2. CASE UNCHANGED vars
  BY <1>2 DEF vars, IInv, TypeOK, OwnersInv, PermitInv, OneLiveSemaphore
<1> QED
  BY <1>1, <1>2

\* project_permit keeps its types and the invariant the mutual exclusion
\* rests on.
THEOREM LocksInvariant == Spec => []IInv
  BY InitIInv, NextIInv, PTL DEF Spec

\* The tasks that wait for or hold a project's permit all share the semaphore
\* the project's map entry points to, although the map holds it weakly.
THEOREM OneLiveSemaphoreHolds == Spec => []OneLiveSemaphore
<1>1. IInv => OneLiveSemaphore
  BY DEF IInv, OwnersInv
<1> QED
  BY <1>1, LocksInvariant, PTL

LEMMA IInvExclusion == IInv => MutualExclusion
<1> SUFFICES ASSUME IInv, NEW t \in Tasks, NEW u \in Tasks,
                    phase[t] = "holding", phase[u] = "holding",
                    ProjectOfTask[t] = ProjectOfTask[u]
             PROVE  t = u
  BY DEF MutualExclusion
<1>1. arc[t] = arc[u]
  BY DEF IInv, OwnersInv, OneLiveSemaphore
<1> QED
  BY <1>1 DEF IInv, PermitInv

\* Two tasks never hold the permit of one project.
THEOREM MutualExclusionHolds == Spec => []MutualExclusion
  BY IInvExclusion, LocksInvariant, PTL

-----------------------------------------------------------------------------
(* The weak map implements the abstract mutex.                             *)

holders == [p \in Projects |-> HolderOf(p)]

Holds(t, p) == phase[t] = "holding" /\ ProjectOfTask[t] = p

\* By mutual exclusion the abstract holder is the task that holds.
LEMMA HolderIs ==
  ASSUME MutualExclusion, NEW p \in Projects
  PROVE  /\ \A t \in Tasks : Holds(t, p) => HolderOf(p) = t
         /\ (\A t \in Tasks : ~Holds(t, p)) => HolderOf(p) = None
  BY DEF MutualExclusion, HolderOf, Holds

\* A step that changes no task's hold on p keeps the abstract holder of p.
LEMMA HolderStays ==
  ASSUME NEW p \in Projects,
         \A t \in Tasks : Holds(t, p)' <=> Holds(t, p)
  PROVE  HolderOf(p)' = HolderOf(p)
<1>1. \A t \in Tasks : (phase'[t] = "holding" /\ ProjectOfTask[t] = p)
                       <=> (phase[t] = "holding" /\ ProjectOfTask[t] = p)
  BY DEF Holds
<1> QED
  BY <1>1, Zenon DEF HolderOf

LEMMA AcquireMaps ==
  ASSUME IInv, NEW t \in Tasks, Acquire(t)
  PROVE  Mutex!Acquire(t)
<1> DEFINE p == ProjectOfTask[t]
<1> USE LocksAssumption
<1>0. p \in Projects /\ MutualExclusion
  BY IInvExclusion
<1>1. phase[t] = "waiting" /\ permits[arc[t]] > 0 /\ phase' = [phase EXCEPT ![t] = "holding"]
      /\ phase \in [Tasks -> Phases]
  BY DEF Acquire, IInv, TypeOK
<1>2. \A u \in Tasks : ~Holds(u, p)
  BY <1>1 DEF IInv, OwnersInv, PermitInv, OneLiveSemaphore, Holds
<1>3. HolderOf(p) = None
  BY <1>0, <1>2, HolderIs
<1>4. HolderOf(p)' = t
  <2>1. phase'[t] = "holding"
    BY <1>1
  <2>2. \A u \in Tasks : phase'[u] = "holding" /\ ProjectOfTask[u] = p => u = t
    BY <1>1, <1>2 DEF Holds
  <2> QED
    BY <2>1, <2>2 DEF HolderOf
<1>5. \A q \in Projects : q # p => HolderOf(q)' = HolderOf(q)
  <2> SUFFICES ASSUME NEW q \in Projects, q # p PROVE HolderOf(q)' = HolderOf(q)
    OBVIOUS
  <2>1. \A u \in Tasks : Holds(u, q)' <=> Holds(u, q)
    BY <1>1 DEF Holds
  <2> QED
    BY <2>1, HolderStays
<1>6. holders' = [holders EXCEPT ![p] = t]
  BY <1>0, <1>4, <1>5 DEF holders
<1> QED
  BY <1>0, <1>3, <1>6 DEF Mutex!Acquire, holders

LEMMA DropMaps ==
  ASSUME IInv, NEW t \in Tasks, Drop(t)
  PROVE  Mutex!Release({ProjectOfTask[t]})
<1> DEFINE p == ProjectOfTask[t]
<1> USE LocksAssumption
<1>0. p \in Projects /\ MutualExclusion
  BY IInvExclusion
<1>1. phase[t] = "holding" /\ phase' = [phase EXCEPT ![t] = "idle"]
      /\ phase \in [Tasks -> Phases]
  BY DEF Drop, IInv, TypeOK
<1>2. \A u \in Tasks : ~(phase'[u] = "holding" /\ ProjectOfTask[u] = p)
  BY <1>0, <1>1 DEF MutualExclusion
<1>3. HolderOf(p)' = None
  BY <1>2 DEF HolderOf
<1>4. \A q \in Projects : q # p => HolderOf(q)' = HolderOf(q)
  <2> SUFFICES ASSUME NEW q \in Projects, q # p PROVE HolderOf(q)' = HolderOf(q)
    OBVIOUS
  <2>1. \A u \in Tasks : Holds(u, q)' <=> Holds(u, q)
    BY <1>1 DEF Holds
  <2> QED
    BY <2>1, HolderStays
<1>5. holders' = [q \in Projects |-> IF q \in {p} THEN None ELSE holders[q]]
  BY <1>3, <1>4 DEF holders
<1> QED
  BY <1>5 DEF Mutex!Release, holders

\* Every other step leaves the holders as they are.
LEMMA OtherMaps ==
  ASSUME IInv, NEW t \in Tasks, Sweep(t) \/ Upgrade(t) \/ Abandon(t)
  PROVE  UNCHANGED holders
<1>1. phase \in [Tasks -> Phases]
  BY DEF IInv, TypeOK
<1>2. \A u \in Tasks : phase'[u] = "holding" <=> phase[u] = "holding"
  BY <1>1 DEF Sweep, Upgrade, Abandon, Phases
<1>3. \A q \in Projects : HolderOf(q)' = HolderOf(q)
  BY <1>2, HolderStays DEF Holds
<1> QED
  BY <1>3 DEF holders

LEMMA InitMaps == Init => Mutex!Init
  BY DEF Init, Mutex!Init, HolderOf

LEMMA NextMaps == IInv /\ [Next]_vars => [Mutex!Next]_holders
<1> SUFFICES ASSUME IInv, [Next]_vars PROVE [Mutex!Next]_holders
  OBVIOUS
<1>1. ASSUME NEW t \in Tasks, Acquire(t) PROVE Mutex!Next
  BY <1>1, AcquireMaps DEF Mutex!Next
<1>2. ASSUME NEW t \in Tasks, Drop(t) PROVE Mutex!Next
  <2>1. {ProjectOfTask[t]} \in SUBSET Projects
    BY LocksAssumption
  <2> QED
    BY <1>2, <2>1, DropMaps DEF Mutex!Next
<1>3. CASE UNCHANGED vars
  <2>1. \A q \in Projects : HolderOf(q)' = HolderOf(q)
    BY <1>3, HolderStays DEF Holds, vars
  <2> QED
    BY <2>1 DEF holders
<1> QED
  BY <1>1, <1>2, <1>3, OtherMaps DEF Next, Step

\* project_permit implements a mutex per project: every step of the map, the
\* weak pointers and the semaphores takes or releases a project, or does not
\* change who holds one.
THEOREM LocksImplementMutex == Spec => ImplementsMutex
<1>1. Init => Mutex!Init
  BY InitMaps
<1>2. IInv /\ [Next]_vars => [Mutex!Next]_[p \in Projects |-> HolderOf(p)]
  BY NextMaps DEF holders
<1> QED
  BY <1>1, <1>2, LocksInvariant, PTL DEF Spec, ImplementsMutex, Mutex!Spec
=============================================================================

---------------------------- MODULE ProjectMutex ----------------------------
(***************************************************************************)
(* What a project permit promises: a project is held by at most one task,  *)
(* a free project can be taken, and what a task held becomes free again.   *)
(* ProjectLocks.tla (the map of weak semaphores) and PipelineEngine.tla    *)
(* (the executions that use it) both implement this module.                *)
(***************************************************************************)
CONSTANTS Projects, Tasks, ProjectOfTask, None

VARIABLE holder

Init == holder = [p \in Projects |-> None]

Acquire(t) ==
  /\ holder[ProjectOfTask[t]] = None
  /\ holder' = [holder EXCEPT ![ProjectOfTask[t]] = t]

\* One task's permit is dropped, or all of them at the end of the process.
Release(ps) ==
  holder' = [p \in Projects |-> IF p \in ps THEN None ELSE holder[p]]

Next ==
  \/ \E t \in Tasks : Acquire(t)
  \/ \E ps \in SUBSET Projects : Release(ps)

Spec == Init /\ [][Next]_holder
=============================================================================

--------------------------- MODULE MCProjectLocks ---------------------------
(* Three tasks on p1 (enough for a holder, a waiter and a newcomer), one on *)
(* p2 whose calls sweep p1's entry; a semaphore for each task.             *)
EXTENDS ProjectLocks, TLC

CONSTANTS t1, t2, t3, t4, p1, p2, s1, s2, s3, s4

MCProjectOfTask == (t1 :> p1) @@ (t2 :> p1) @@ (t3 :> p1) @@ (t4 :> p2)
=============================================================================

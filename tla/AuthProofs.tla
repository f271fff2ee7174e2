---------------------------- MODULE AuthProofs ----------------------------
(***************************************************************************)
(* Proofs about Auth, for every set of requests, every limit, table size   *)
(* and number of hashing permits.                                          *)
(***************************************************************************)
EXTENDS Auth, FiniteSetTheorems, TLAPS

Labels ==
  {"idle", "lookup", "verify", "verifying", "session", "hash", "hashing", "claim",
   "insert_user", "delete", "done"}

\* What the other invariants need of the types.
Types ==
  /\ pc \in [Requests -> Labels]
  /\ answer \in [Requests -> Answers \cup {None}]
  /\ hashing \subseteq Requests
  /\ guesses \in [Keys -> Nat]
  /\ admins \subseteq Setups
  /\ claimed \in BOOLEAN
  /\ writer \in Setups \cup {None}
  /\ sessions \in {{}} \cup {{e} : e \in LastSecond}
  /\ clock \in 0 .. Later

LEMMA RequestSets ==
  /\ Logins \subseteq Requests /\ Setups \subseteq Requests /\ Calls \subseteq Requests
  /\ \A q \in Logins : q \notin Setups /\ q \notin Calls /\ KeyOf[q] \in Keys
  /\ \A q \in Setups : q \notin Calls
  /\ Followed \in Logins
  BY AuthAssumption DEF Requests, Keys

-----------------------------------------------------------------------------
(* Types                                                                   *)

\* Where a request may be sent to, and what it may be answered.
LEMMA MoveTypes ==
  ASSUME Types, NEW q \in Requests, NEW from, NEW to \in Labels, Goto(q, from, to)
  PROVE  pc' \in [Requests -> Labels] /\ answer' \in [Requests -> Answers \cup {None}]
  BY DEF Types, Goto

LEMMA AnswerTypes ==
  ASSUME Types, NEW q \in Requests, NEW from, NEW a \in Answers, Answer(q, from, a)
  PROVE  pc' \in [Requests -> Labels] /\ answer' \in [Requests -> Answers \cup {None}]
  BY DEF Types, Answer, Labels

LEMMA LoginTypes ==
  ASSUME Types, NEW q \in Logins, Login(q)
  PROVE  Types'
<1> USE RequestSets DEF limiterVars, sessionVars, setupVars
<1>0. {"lookup", "verify", "verifying", "session"} \subseteq Labels
      /\ {"refused", "token"} \subseteq Answers
  BY DEF Labels, Answers
<1>1. pc' \in [Requests -> Labels] /\ answer' \in [Requests -> Answers \cup {None}]
  BY <1>0, MoveTypes, AnswerTypes
  DEF Login, RefuseForm, BeginLogin, Lookup, StartVerify, VerifyRight, VerifyWrong,
      InsertSession, DropLogin
<1>2. hashing' \subseteq Requests
  BY DEF Types, Login, RefuseForm, BeginLogin, Lookup, StartVerify, VerifyRight, VerifyWrong,
         InsertSession, DropLogin
<1>3. guesses' \in [Keys -> Nat]
  <2>1. CASE BeginLogin(q)
    BY <2>1 DEF Types, BeginLogin, ResetGuesses
  <2>2. CASE StartVerify(q)
    BY <2>2 DEF Types, StartVerify
  <2>3. CASE VerifyRight(q)
    BY <2>3 DEF Types, VerifyRight
  <2> QED
    BY <2>1, <2>2, <2>3
    DEF Types, Login, RefuseForm, Lookup, VerifyWrong, InsertSession, DropLogin
<1>4. sessions' \in {{}} \cup {{e} : e \in LastSecond} /\ clock' \in 0 .. Later
  <2>1. CASE InsertSession(q)
    BY <2>1 DEF Types, InsertSession, StoreSession
  <2> QED
    BY <2>1 DEF Types, Login, RefuseForm, BeginLogin, Lookup, StartVerify, VerifyRight,
                VerifyWrong, DropLogin
<1>5. UNCHANGED <<admins, claimed, writer>>
  BY DEF Login, RefuseForm, BeginLogin, Lookup, StartVerify, VerifyRight, VerifyWrong,
         InsertSession, DropLogin
<1> QED
  BY <1>1, <1>2, <1>3, <1>4, <1>5 DEF Types

LEMMA SetupTypes ==
  ASSUME Types, NEW q \in Setups, Setup(q)
  PROVE  Types'
<1> USE RequestSets DEF limiterVars, sessionVars, setupVars
<1>0. {"hash", "hashing", "claim", "insert_user"} \subseteq Labels
      /\ {"refused", "created"} \subseteq Answers
  BY DEF Labels, Answers
<1>1. pc' \in [Requests -> Labels] /\ answer' \in [Requests -> Answers \cup {None}]
  BY <1>0, MoveTypes, AnswerTypes
  DEF Setup, BeginSetup, StartHash, EndHash, ClaimSetup, CreateAdmin, DropSetup
<1>2. hashing' \subseteq Requests /\ admins' \subseteq Setups /\ claimed' \in BOOLEAN
      /\ writer' \in Setups \cup {None}
  BY DEF Types, Setup, BeginSetup, StartHash, EndHash, ClaimSetup, CreateAdmin, DropSetup,
         ClaimInTransaction
<1>3. UNCHANGED <<guesses, sessions, clock>>
  BY DEF Setup, BeginSetup, StartHash, EndHash, ClaimSetup, CreateAdmin, DropSetup
<1> QED
  BY <1>1, <1>2, <1>3 DEF Types

LEMMA CallTypes ==
  ASSUME Types, NEW c \in Calls, Call(c)
  PROVE  Types'
<1> USE RequestSets DEF limiterVars, sessionVars, setupVars
<1>0. "delete" \in Labels
      /\ {"user", "invalid_session", "no_content", "failed"} \subseteq Answers
  BY DEF Labels, Answers
<1>1. pc' \in [Requests -> Labels] /\ answer' \in [Requests -> Answers \cup {None}]
  BY <1>0, MoveTypes, AnswerTypes DEF Call, CurrentUser, BeginLogout, DeleteSession
<1>2. sessions' \in {sessions, {}}
  BY DEF Call, CurrentUser, BeginLogout, DeleteSession
<1>3. UNCHANGED <<hashing, guesses, admins, claimed, writer, clock>>
  BY DEF Call, CurrentUser, BeginLogout, DeleteSession
<1> QED
  BY <1>1, <1>2, <1>3 DEF Types

LEMMA NextTypes ==
  ASSUME Types, [Next]_vars
  PROVE  Types'
<1> USE DEF limiterVars, sessionVars, setupVars
<1>1. CASE \E q \in Requests : EndHashing(q)
  BY <1>1 DEF EndHashing, Types
<1>2. CASE Tick
  BY <1>2 DEF Tick, Types, Later
<1>3. CASE (\E k \in Keys : Elapse(k)) \/ Terminated \/ UNCHANGED vars
  BY <1>3 DEF Elapse, Terminated, vars, Types
<1> QED
  BY <1>1, <1>2, <1>3, LoginTypes, SetupTypes, CallTypes DEF Next

-----------------------------------------------------------------------------
(* The hashing permits                                                     *)

Busy == {q \in Requests : pc[q] \in {"verifying", "hashing"}}

WorkerInv == freeWorkers = Workers - Cardinality(Busy)

LEMMA BusyFinite == IsFiniteSet(Busy) /\ Cardinality(Busy) \in Nat
<1>1. Busy \subseteq Requests
  BY DEF Busy
<1> QED
  BY <1>1, AuthAssumption, FS_Subset, FS_CardinalityType

\* A request takes, gives back or keeps its permit.
LEMMA BusyStep ==
  ASSUME Types, WorkerInv, NEW q \in Requests, NEW to, pc' = [pc EXCEPT ![q] = to],
         freeWorkers' = IF pc[q] \in {"verifying", "hashing"}
                        THEN IF to \in {"verifying", "hashing"} THEN freeWorkers
                                                                 ELSE freeWorkers + 1
                        ELSE IF to \in {"verifying", "hashing"} THEN freeWorkers - 1
                                                                 ELSE freeWorkers
  PROVE  WorkerInv'
<1> USE AuthAssumption, BusyFinite
<1>1. CASE q \in Busy /\ to \notin {"verifying", "hashing"}
  <2>1. Busy' = Busy \ {q}
    BY <1>1 DEF Busy, Types
  <2>2. Cardinality(Busy') = Cardinality(Busy) - 1
    BY <1>1, <2>1, FS_RemoveElement
  <2> QED
    BY <1>1, <2>2 DEF WorkerInv, Busy
<1>2. CASE q \notin Busy /\ to \in {"verifying", "hashing"}
  <2>1. Busy' = Busy \cup {q}
    BY <1>2 DEF Busy, Types
  <2>2. Cardinality(Busy') = Cardinality(Busy) + 1
    BY <1>2, <2>1, FS_AddElement
  <2> QED
    BY <1>2, <2>2 DEF WorkerInv, Busy
<1>3. CASE q \in Busy <=> to \in {"verifying", "hashing"}
  <2>1. Busy' = Busy
    BY <1>3 DEF Busy, Types
  <2> QED
    BY <1>3, <2>1 DEF WorkerInv, Busy
<1> QED
  BY <1>1, <1>2, <1>3

LEMMA NextWorkers ==
  ASSUME Types, WorkerInv, [Next]_vars
  PROVE  WorkerInv'
<1> USE RequestSets DEF Goto, Answer
<1>1. ASSUME NEW q \in Logins, Login(q) PROVE WorkerInv'
  <2>1. CASE RefuseForm(q) \/ BeginLogin(q) \/ Lookup(q) \/ InsertSession(q)
    <3>1. PICK to \in {"lookup", "verify", "done"} : pc' = [pc EXCEPT ![q] = to]
      BY <2>1 DEF RefuseForm, BeginLogin, Lookup, InsertSession
    <3> QED
      BY <2>1, <3>1, BusyStep DEF RefuseForm, BeginLogin, Lookup, InsertSession
  <2>2. CASE StartVerify(q)
    BY <2>2, BusyStep DEF StartVerify
  <2>3. CASE VerifyRight(q) \/ VerifyWrong(q)
    BY <2>3, BusyStep DEF VerifyRight, VerifyWrong
  <2>4. CASE DropLogin(q)
    BY <2>4, BusyStep DEF DropLogin
  <2> QED
    BY <1>1, <2>1, <2>2, <2>3, <2>4 DEF Login
<1>2. ASSUME NEW q \in Setups, Setup(q) PROVE WorkerInv'
  <2>1. CASE BeginSetup(q) \/ ClaimSetup(q) \/ CreateAdmin(q)
    <3>1. PICK to \in {"hash", "insert_user", "done"} : pc' = [pc EXCEPT ![q] = to]
      BY <2>1 DEF BeginSetup, ClaimSetup, CreateAdmin
    <3> QED
      BY <2>1, <3>1, BusyStep DEF BeginSetup, ClaimSetup, CreateAdmin
  <2>2. CASE StartHash(q)
    BY <2>2, BusyStep DEF StartHash
  <2>3. CASE EndHash(q)
    BY <2>3, BusyStep DEF EndHash
  <2>4. CASE DropSetup(q)
    BY <2>4, BusyStep DEF DropSetup
  <2> QED
    BY <1>2, <2>1, <2>2, <2>3, <2>4 DEF Setup
<1>3. ASSUME NEW c \in Calls, Call(c) PROVE WorkerInv'
  <2>1. PICK to \in {"delete", "done"} : pc' = [pc EXCEPT ![c] = to]
    BY <1>3 DEF Call, CurrentUser, BeginLogout, DeleteSession
  <2>2. pc[c] \in {"idle", "delete"} /\ UNCHANGED freeWorkers
    BY <1>3 DEF Call, CurrentUser, BeginLogout, DeleteSession
  <2> QED
    BY <2>1, <2>2, BusyStep
<1>4. CASE \/ \E q \in Requests : EndHashing(q)
           \/ Tick \/ (\E k \in Keys : Elapse(k)) \/ Terminated \/ UNCHANGED vars
  <2>1. UNCHANGED <<pc, freeWorkers>>
    BY <1>4 DEF EndHashing, Tick, Elapse, Terminated, vars
  <2> QED
    BY <2>1 DEF WorkerInv, Busy
<1> QED
  BY <1>1, <1>2, <1>3, <1>4 DEF Next

-----------------------------------------------------------------------------
(* The only administrator                                                  *)

\* The transaction that holds the write lock has claimed a setup nobody has
\* made; only it may create a user.
SetupInv ==
  /\ writer # None => pc[writer] = "insert_user" /\ admins = {} /\ ~claimed
  /\ \A q \in Requests : pc[q] = "insert_user" => writer = q
  /\ claimed <=> admins # {}
  /\ admins = {} \/ \E q \in Setups : admins = {q}

\* A request that is not in the transaction moves on outside it.
LEMMA OutsideTransaction ==
  ASSUME Types, SetupInv, NEW q \in Requests, NEW to, pc' = [pc EXCEPT ![q] = to],
         pc[q] # "insert_user", to # "insert_user",
         UNCHANGED <<admins, claimed, writer>>
  PROVE  SetupInv'
<1>1. writer # None => writer # q /\ pc'[writer] = pc[writer]
  BY RequestSets DEF SetupInv, Types
<1>2. \A r \in Requests : pc'[r] = "insert_user" => pc[r] = "insert_user"
  BY DEF Types
<1> QED
  BY <1>1, <1>2 DEF SetupInv

LEMMA NextSetup ==
  ASSUME Types, SetupInv, [Next]_vars
  PROVE  SetupInv'
<1> USE RequestSets DEF Goto, Answer, setupVars
<1>1. ASSUME NEW q \in Logins, Login(q) PROVE SetupInv'
  <2>1. PICK to \in {"lookup", "verify", "verifying", "session", "done"} :
          pc' = [pc EXCEPT ![q] = to]
    BY <1>1 DEF Login, RefuseForm, BeginLogin, Lookup, StartVerify, VerifyRight, VerifyWrong,
                InsertSession, DropLogin
  <2>2. /\ pc[q] \in {"idle", "lookup", "verify", "verifying", "session"}
        /\ UNCHANGED <<admins, claimed, writer>>
    BY <1>1 DEF Login, RefuseForm, BeginLogin, Lookup, StartVerify, VerifyRight, VerifyWrong,
                InsertSession, DropLogin
  <2> QED
    BY <2>1, <2>2, OutsideTransaction
<1>2. ASSUME NEW q \in Setups, Setup(q) PROVE SetupInv'
  <2>1. CASE BeginSetup(q) \/ StartHash(q) \/ EndHash(q)
    <3>1. PICK to \in {"hash", "hashing", "claim", "done"} : pc' = [pc EXCEPT ![q] = to]
      BY <2>1 DEF BeginSetup, StartHash, EndHash
    <3>2. pc[q] # "insert_user" /\ UNCHANGED <<admins, claimed, writer>>
      BY <2>1 DEF BeginSetup, StartHash, EndHash
    <3> QED
      BY <3>1, <3>2, OutsideTransaction
  <2>2. CASE ClaimSetup(q) /\ pc'[q] = "insert_user"
    <3>1. /\ writer = None /\ ~claimed /\ admins = {}
          /\ writer' = q /\ UNCHANGED <<claimed, admins>>
          /\ pc' = [pc EXCEPT ![q] = "insert_user"]
      BY <2>2 DEF ClaimSetup, ClaimInTransaction, Types
    <3>2. \A r \in Requests : r # q => pc'[r] # "insert_user"
      BY <3>1, AuthAssumption DEF SetupInv, Types
    <3> QED
      BY <3>1, <3>2 DEF SetupInv, Types
  <2>3. CASE ClaimSetup(q) /\ pc'[q] # "insert_user"
    <3>1. pc' = [pc EXCEPT ![q] = "done"] /\ pc[q] = "claim"
      BY <2>3 DEF ClaimSetup, Types
    <3>2. UNCHANGED <<admins, claimed, writer>>
      BY <2>3 DEF ClaimSetup, Types
    <3> QED
      BY <3>1, <3>2, OutsideTransaction
  <2>4. CASE CreateAdmin(q)
    <3>1. writer = q /\ q # None /\ admins = {}
      BY <2>4, AuthAssumption DEF CreateAdmin, SetupInv
    <3>2. \A r \in Requests : pc'[r] # "insert_user"
      BY <2>4, <3>1 DEF CreateAdmin, SetupInv, Types
    <3>3. writer' = None /\ claimed' = TRUE /\ admins' = {q}
      BY <2>4, <3>1 DEF CreateAdmin
    <3> QED
      BY <3>2, <3>3 DEF SetupInv
  <2>5. CASE DropSetup(q) /\ writer = q
    <3>1. \A r \in Requests : pc'[r] # "insert_user"
      BY <2>5, AuthAssumption DEF DropSetup, SetupInv, Types
    <3>2. writer' = None /\ UNCHANGED <<claimed, admins>>
      BY <2>5 DEF DropSetup
    <3> QED
      BY <3>1, <3>2 DEF SetupInv
  <2>6. CASE DropSetup(q) /\ writer # q
    <3>1. pc' = [pc EXCEPT ![q] = "done"] /\ pc[q] # "insert_user"
          /\ UNCHANGED <<admins, claimed, writer>>
      BY <2>6 DEF DropSetup, SetupInv
    <3> QED
      BY <3>1, OutsideTransaction
  <2> QED
    BY <1>2, <2>1, <2>2, <2>3, <2>4, <2>5, <2>6 DEF Setup
<1>3. ASSUME NEW c \in Calls, Call(c) PROVE SetupInv'
  <2>1. PICK to \in {"delete", "done"} : pc' = [pc EXCEPT ![c] = to]
    BY <1>3 DEF Call, CurrentUser, BeginLogout, DeleteSession
  <2>2. pc[c] \in {"idle", "delete"} /\ UNCHANGED <<admins, claimed, writer>>
    BY <1>3 DEF Call, CurrentUser, BeginLogout, DeleteSession
  <2> QED
    BY <2>1, <2>2, OutsideTransaction
<1>4. CASE \/ \E q \in Requests : EndHashing(q)
           \/ Tick \/ (\E k \in Keys : Elapse(k)) \/ Terminated \/ UNCHANGED vars
  <2>1. UNCHANGED <<pc, admins, claimed, writer>>
    BY <1>4 DEF EndHashing, Tick, Elapse, Terminated, vars
  <2> QED
    BY <2>1 DEF SetupInv
<1> QED
  BY <1>1, <1>2, <1>3, <1>4 DEF Next

-----------------------------------------------------------------------------
(* The session                                                             *)

\* The followed session is there from the answer of its login until a logout
\* was confirmed or left open.
SessionInv ==
  /\ \A c \in Calls : pc[c] # "idle" => answer[Followed] = "token"
  /\ answer[Followed] = "token" => pc[Followed] = "done"
  /\ \A c \in Calls : answer[c] # None => pc[c] = "done"
  /\ (\E c \in Calls : answer[c] = "no_content") => sessions = {}
  /\ answer[Followed] = "token" /\ sessions = {} =>
       \E c \in Calls : answer[c] \in {"no_content", "failed"}

\* Logins before their session and setups are no concern of the session.
LEMMA SessionFrame ==
  ASSUME Types, SessionInv, UNCHANGED sessions,
         \A c \in Calls : pc'[c] = pc[c] /\ answer'[c] = answer[c],
         \/ pc'[Followed] = pc[Followed] /\ answer'[Followed] = answer[Followed]
         \/ pc[Followed] # "done" /\ answer'[Followed] # "token"
  PROVE  SessionInv'
<1>1. answer'[Followed] = "token" <=> answer[Followed] = "token"
  BY DEF SessionInv
<1> QED
  BY <1>1 DEF SessionInv

LEMMA NextSession ==
  ASSUME Types, SessionInv, [Next]_vars
  PROVE  SessionInv'
<1> USE RequestSets DEF Goto, Answer, setupVars, sessionVars
<1>1. ASSUME NEW q \in Logins, Login(q) PROVE SessionInv'
  <2>1. /\ \A c \in Calls : pc'[c] = pc[c] /\ answer'[c] = answer[c]
        /\ pc[q] # "done"
        /\ \A r \in Logins : r # q => pc'[r] = pc[r] /\ answer'[r] = answer[r]
    BY <1>1 DEF Login, RefuseForm, BeginLogin, Lookup, StartVerify, VerifyRight, VerifyWrong,
                InsertSession, DropLogin, Types
  <2>2. CASE ~InsertSession(q)
    <3>1. /\ UNCHANGED sessions
          /\ answer'[q] \in {answer[q], "refused"}
      BY <1>1, <2>2 DEF Login, RefuseForm, BeginLogin, Lookup, StartVerify, VerifyRight,
                        VerifyWrong, DropLogin, Types
    <3>2. answer[Followed] = "token" => pc[Followed] = "done"
      BY DEF SessionInv
    <3> QED
      BY <2>1, <3>1, <3>2, SessionFrame
  <2>3. CASE InsertSession(q) /\ q # Followed
    <3>1. UNCHANGED sessions
      BY <2>3 DEF InsertSession, StoreSession
    <3> QED
      BY <2>1, <2>3, <3>1, SessionFrame
  <2>4. CASE InsertSession(q) /\ q = Followed
    <3>1. answer[Followed] # "token"
      BY <2>1, <2>4 DEF SessionInv
    <3>2. \A c \in Calls : pc[c] = "idle" /\ answer[c] = None
      BY <3>1 DEF SessionInv
    <3>3. \A c \in Calls : pc'[c] = "idle" /\ answer'[c] = None
      BY <2>1, <3>2
    <3>4. pc'[Followed] = "done" /\ (answer'[Followed] = "token" => sessions' # {})
      BY <2>4 DEF InsertSession, StoreSession, Types
    <3>5. None \notin {"no_content", "failed"}
      BY AuthAssumption DEF Answers
    <3> QED
      BY <3>3, <3>4, <3>5 DEF SessionInv
  <2> QED
    BY <2>2, <2>3, <2>4
<1>2. ASSUME NEW q \in Setups, Setup(q) PROVE SessionInv'
  <2>1. /\ \A c \in Calls \cup Logins : pc'[c] = pc[c] /\ answer'[c] = answer[c]
        /\ UNCHANGED sessions
    BY <1>2 DEF Setup, BeginSetup, StartHash, EndHash, ClaimSetup, CreateAdmin, DropSetup, Types
  <2> QED
    BY <2>1, SessionFrame
<1>3. ASSUME NEW c \in Calls, Call(c) PROVE SessionInv'
  <2>1. /\ \A r \in Calls \cup Logins : r # c => pc'[r] = pc[r] /\ answer'[r] = answer[r]
        /\ answer[Followed] = "token"
        /\ Followed # c
        /\ pc[c] \in {"idle", "delete"}
        /\ \/ pc'[c] = "delete" /\ answer'[c] = answer[c]
           \/ pc'[c] = "done"
    BY <1>3 DEF Call, CurrentUser, BeginLogout, DeleteSession, Types, SessionInv
  <2>2. answer[c] = None
    BY <2>1 DEF SessionInv
  <2>3. CASE CurrentUser(c) \/ BeginLogout(c)
    <3>1. UNCHANGED sessions /\ answer'[c] \in {None, "user", "invalid_session"}
      BY <2>2, <2>3 DEF CurrentUser, BeginLogout, Types
    <3>2. None # "no_content" /\ None # "failed"
      BY AuthAssumption DEF Answers
    <3>3. \A r \in Calls : answer'[r] = "no_content" => answer[r] = "no_content"
      BY <2>1, <3>1, <3>2
    <3>4. \A r \in Calls : answer[r] \in {"no_content", "failed"} =>
            answer'[r] \in {"no_content", "failed"}
      BY <2>1, <2>2, <3>2
    <3> QED
      BY <2>1, <2>2, <3>1, <3>3, <3>4 DEF SessionInv
  <2>4. CASE DeleteSession(c)
    <3>1. /\ answer'[c] \in {"no_content", "failed"}
          /\ pc'[c] = "done"
          /\ sessions' \in {sessions, {}}
          /\ answer'[c] = "no_content" => sessions' = {}
      BY <2>4 DEF DeleteSession, Types
    <3>2. (\E r \in Calls : answer[r] = "no_content") => sessions = {}
      BY DEF SessionInv
    <3> QED
      BY <2>1, <3>1, <3>2 DEF SessionInv
  <2> QED
    BY <1>3, <2>3, <2>4 DEF Call
<1>4. CASE \/ \E q \in Requests : EndHashing(q)
           \/ Tick \/ (\E k \in Keys : Elapse(k)) \/ Terminated \/ UNCHANGED vars
  <2>1. UNCHANGED <<pc, answer, sessions>>
    BY <1>4 DEF EndHashing, Tick, Elapse, Terminated, vars
  <2> QED
    BY <2>1 DEF SessionInv
<1> QED
  BY <1>1, <1>2, <1>3, <1>4 DEF Next

BaseInv == Types /\ WorkerInv /\ SetupInv /\ SessionInv

LEMMA BaseInvariant == Spec => []BaseInv
<1>1. Init => BaseInv
  <2> SUFFICES ASSUME Init PROVE BaseInv
    OBVIOUS
  <2>1. Types
    <3>1. pc \in [Requests -> Labels] /\ answer \in [Requests -> Answers \cup {None}]
      BY DEF Init, Labels
    <3>2. guesses \in [Keys -> Nat] /\ sessions \in {{}} \cup {{e} : e \in LastSecond}
      BY DEF Init
    <3>3. hashing \subseteq Requests /\ admins \subseteq Setups
          /\ writer \in Setups \cup {None} /\ clock \in 0 .. Later
      BY DEF Init, Later
    <3>4. claimed \in BOOLEAN
      BY Zenon DEF Init
    <3> QED
      BY <3>1, <3>2, <3>3, <3>4 DEF Types
  <2>2. WorkerInv
    <3>1. Busy = {}
      BY DEF Init, Busy
    <3> QED
      BY <3>1, FS_EmptySet, AuthAssumption DEF Init, WorkerInv
  <2>3. SetupInv
    BY DEF Init, SetupInv
  <2>4. SessionInv
    BY RequestSets, AuthAssumption DEF Init, SessionInv, Answers
  <2> QED
    BY <2>1, <2>2, <2>3, <2>4 DEF BaseInv
<1>2. BaseInv /\ [Next]_vars => BaseInv'
  BY NextTypes, NextWorkers, NextSetup, NextSession DEF BaseInv
<1> QED
  BY <1>1, <1>2, PTL DEF Spec

\* However many setups run at once and wherever they fail, one user at most
\* is created, and the setup counts as claimed exactly when there is one.
THEOREM OneAdmin == Spec => []SingleAdmin
<1>1. BaseInv => SingleAdmin
  <2> SUFFICES ASSUME BaseInv PROVE SingleAdmin
    OBVIOUS
  <2>1. admins = {} \/ \E q \in Setups : admins = {q}
    BY DEF BaseInv, SetupInv
  <2>2. Cardinality(admins) <= 1
    BY <2>1, FS_EmptySet, FS_Singleton
  <2> QED
    BY <2>2 DEF BaseInv, SetupInv, SingleAdmin
<1> QED
  BY <1>1, BaseInvariant, PTL

\* The texts the database compares differ in their order from the instants
\* only within the second in which the session expires.
LEMMA TextOrder ==
  ASSUME NEW e \in LastSecond
  PROVE  TextAfter(e, 0) /\ ~TextAfter(e, Later)
  BY DEF TextAfter, LastSecond, Later

LeftAs(a) == \E d \in Calls : answer[d] = a

SessionStep ==
  \A c \in Calls :
    pc[c] = "idle" /\ pc'[c] # "idle" =>
      IF answer'[c] = "invalid_session"
      THEN clock # 0 \/ LeftAs("no_content") \/ LeftAs("failed")
      ELSE clock # Later /\ ~LeftAs("no_content")

LEMMA NextSessionStep ==
  ASSUME BaseInv, [Next]_vars
  PROVE  SessionStep
<1> SUFFICES ASSUME NEW c \in Calls, pc[c] = "idle", pc'[c] # "idle"
             PROVE  IF answer'[c] = "invalid_session"
                    THEN clock # 0 \/ LeftAs("no_content") \/ LeftAs("failed")
                    ELSE clock # Later /\ ~LeftAs("no_content")
  BY DEF SessionStep
<1> USE RequestSets DEF Goto, Answer, BaseInv
<1>1. CurrentUser(c) \/ BeginLogout(c)
  <2>1. ASSUME NEW q \in Logins, Login(q) PROVE FALSE
    BY <2>1 DEF Login, RefuseForm, BeginLogin, Lookup, StartVerify, VerifyRight, VerifyWrong,
                InsertSession, DropLogin, Types
  <2>2. ASSUME NEW q \in Setups, Setup(q) PROVE FALSE
    BY <2>2 DEF Setup, BeginSetup, StartHash, EndHash, ClaimSetup, CreateAdmin, DropSetup, Types
  <2>3. ASSUME NEW d \in Calls, Call(d) PROVE CurrentUser(c) \/ BeginLogout(c)
    BY <2>3 DEF Call, CurrentUser, BeginLogout, DeleteSession, Types
  <2> QED
    BY <2>1, <2>2, <2>3 DEF Next, EndHashing, Tick, Elapse, Terminated, vars
<1>2. answer[Followed] = "token"
  BY <1>1 DEF CurrentUser, BeginLogout
<1>3. (answer'[c] = "invalid_session") <=> ~Authenticated
  <2>1. answer[c] = None
    BY DEF SessionInv
  <2>2. None # "invalid_session"
    BY AuthAssumption DEF Answers
  <2> QED
    BY <1>1, <2>1, <2>2 DEF CurrentUser, BeginLogout, Types
<1>4. CASE Authenticated
  <2>1. PICK e \in sessions : TextAfter(e, clock)
    BY <1>4 DEF Authenticated
  <2>2. clock # Later
    BY <2>1, TextOrder DEF Types
  <2> QED
    BY <1>3, <1>4, <2>1, <2>2 DEF SessionInv, LeftAs
<1>5. CASE ~Authenticated
  <2>1. CASE sessions = {}
    BY <1>2, <1>3, <1>5, <2>1 DEF SessionInv, LeftAs
  <2>2. CASE sessions # {}
    <3>1. PICK e \in LastSecond : sessions = {e}
      BY <2>2 DEF Types
    <3>2. clock # 0
      BY <1>5, <3>1, TextOrder DEF Authenticated
    <3> QED
      BY <1>3, <1>5, <3>2
  <2> QED
    BY <2>1, <2>2
<1> QED
  BY <1>4, <1>5

\* A token opens the door from its login until the second in which its
\* session expires and not after it, never after a confirmed logout, and
\* nothing but a logout closes it before.
THEOREM SessionsEndInTime == Spec => SessionsEnd
<1>1. BaseInv /\ [Next]_vars =>
        [\A c \in Calls :
           LET Left(a) == \E d \in Calls : answer[d] = a
           IN pc[c] = "idle" /\ pc'[c] # "idle" =>
                IF answer'[c] = "invalid_session"
                THEN clock # 0 \/ Left("no_content") \/ Left("failed")
                ELSE clock # Later /\ ~Left("no_content")]_vars
  BY NextSessionStep DEF SessionStep, LeftAs
<1> QED
  BY <1>1, BaseInvariant, PTL DEF Spec, SessionsEnd

-----------------------------------------------------------------------------
(* The limiter                                                             *)

Under == {"lookup", "verify", "verifying"}

\* Attempts whose password is being verified.
Verifying(k) == {q \in Attempts(k) : pc[q] = "verifying"}

Entry == [failures : 0 .. Limit, inFlight : 0 .. Limit, elapsed : BOOLEAN]

\* Failures and attempts under way never exceed the limit together, and each
\* guess of the window is a failure by now or still under way.
KeyOK(k) ==
  IF k \in DOMAIN entries
  THEN /\ entries[k] \in Entry
       /\ entries[k].inFlight = Cardinality(Attempts(k))
       /\ entries[k].failures + entries[k].inFlight <= Limit
       /\ guesses[k] <= entries[k].failures + Cardinality(Verifying(k))
  ELSE Attempts(k) = {} /\ guesses[k] = 0

TableOK ==
  /\ DOMAIN entries \subseteq Keys
  /\ IsFiniteSet(DOMAIN entries)
  /\ Cardinality(DOMAIN entries) <= MaxEntries

LimiterOK == TableOK /\ \A k \in Keys : KeyOK(k)

LEMMA AttemptsFinite ==
  ASSUME NEW k
  PROVE  /\ IsFiniteSet(Attempts(k)) /\ Cardinality(Attempts(k)) \in Nat
         /\ IsFiniteSet(Verifying(k)) /\ Cardinality(Verifying(k)) \in Nat
         /\ Cardinality(Verifying(k)) <= Cardinality(Attempts(k))
<1>1. Attempts(k) \subseteq Requests
  BY RequestSets DEF Attempts
<1>2. IsFiniteSet(Attempts(k))
  BY <1>1, AuthAssumption, FS_Subset
<1>3. Verifying(k) \subseteq Attempts(k)
  BY DEF Verifying
<1> QED
  BY <1>2, <1>3, FS_Subset, FS_CardinalityType

\* What a move of one login does to the attempts of a key.
LEMMA AttemptsMove ==
  ASSUME Types, NEW q \in Logins, NEW to, pc' = [pc EXCEPT ![q] = to], NEW k
  PROVE  /\ k # KeyOf[q] => Attempts(k)' = Attempts(k) /\ Verifying(k)' = Verifying(k)
         /\ k = KeyOf[q] =>
              /\ Attempts(k)' = IF to \in Under THEN Attempts(k) \cup {q} ELSE Attempts(k) \ {q}
              /\ Verifying(k)' = IF to = "verifying" THEN Verifying(k) \cup {q}
                                                    ELSE Verifying(k) \ {q}
<1>1. /\ q \in Requests
      /\ \A r \in Logins : pc'[r] = IF r = q THEN to ELSE pc[r]
  BY RequestSets DEF Types
<1>2. k # KeyOf[q] => Attempts(k)' = Attempts(k)
  BY <1>1 DEF Attempts
<1>3. k # KeyOf[q] => Verifying(k)' = Verifying(k)
  BY <1>1 DEF Attempts, Verifying
<1>4. k = KeyOf[q] =>
        Attempts(k)' = IF to \in Under THEN Attempts(k) \cup {q} ELSE Attempts(k) \ {q}
  BY <1>1 DEF Attempts, Under
<1>5. k = KeyOf[q] =>
        Verifying(k)' = IF to = "verifying" THEN Verifying(k) \cup {q} ELSE Verifying(k) \ {q}
  BY <1>1 DEF Attempts, Verifying
<1> QED
  BY <1>2, <1>3, <1>4, <1>5

\* A key none of whose attempts moves and whose entry stays.
LEMMA KeyFrame ==
  ASSUME NEW k, KeyOK(k), Attempts(k)' = Attempts(k), Verifying(k)' = Verifying(k),
         k \in DOMAIN entries' <=> k \in DOMAIN entries,
         k \in DOMAIN entries => entries'[k] = entries[k],
         guesses'[k] = guesses[k]
  PROVE  KeyOK(k)'
  BY DEF KeyOK, Entry

\* Steps of which the limiter sees nothing.
LEMMA LimiterFrame ==
  ASSUME LimiterOK, UNCHANGED <<entries, guesses>>,
         \A r \in Logins : pc'[r] = pc[r]
  PROVE  LimiterOK'
<1>1. \A k : Attempts(k)' = Attempts(k) /\ Verifying(k)' = Verifying(k)
  BY DEF Attempts, Verifying
<1> QED
  BY <1>1, KeyFrame DEF LimiterOK, TableOK, Keys

\* A login that is no attempt before and after its step.
LEMMA OutsideLimiter ==
  ASSUME Types, LimiterOK, NEW q \in Logins, NEW to, pc' = [pc EXCEPT ![q] = to],
         pc[q] \notin Under, to \notin Under, UNCHANGED <<entries, guesses>>
  PROVE  LimiterOK'
<1>1. \A k : Attempts(k)' = Attempts(k) /\ Verifying(k)' = Verifying(k)
  BY RequestSets DEF Attempts, Verifying, Under, Types
<1> QED
  BY <1>1, KeyFrame DEF LimiterOK, TableOK, Keys

-----------------------------------------------------------------------------
(* begin                                                                   *)

\* What is forgotten has no attempt under way.
LEMMA RetainedEntries ==
  ASSUME LimiterOK
  PROVE  /\ DOMAIN Retained \subseteq DOMAIN entries
         /\ \A k \in DOMAIN Retained : Retained[k] = entries[k]
         /\ \A k \in Keys : k \notin DOMAIN Retained => Attempts(k) = {}
         /\ IsFiniteSet(DOMAIN Retained)
         /\ Cardinality(DOMAIN Retained) \in Nat
         /\ Cardinality(DOMAIN Retained) <= MaxEntries
<1>1. /\ DOMAIN Retained \subseteq DOMAIN entries
      /\ \A k \in DOMAIN Retained : Retained[k] = entries[k]
      /\ \A k \in DOMAIN entries : k \notin DOMAIN Retained => entries[k].inFlight = 0
  BY DEF Retained, Restrict
<1>2. \A k \in Keys : k \notin DOMAIN Retained => Attempts(k) = {}
  <2> SUFFICES ASSUME NEW k \in Keys, k \notin DOMAIN Retained PROVE Attempts(k) = {}
    OBVIOUS
  <2>1. KeyOK(k)
    BY DEF LimiterOK
  <2>2. CASE k \in DOMAIN entries
    <3>1. Cardinality(Attempts(k)) = 0
      BY <1>1, <2>1, <2>2 DEF KeyOK
    <3> QED
      BY <3>1, AttemptsFinite, FS_EmptySet
  <2>3. CASE k \notin DOMAIN entries
    BY <2>1, <2>3 DEF KeyOK
  <2> QED
    BY <2>2, <2>3
<1>3. /\ IsFiniteSet(DOMAIN Retained)
      /\ Cardinality(DOMAIN Retained) \in Nat
      /\ Cardinality(DOMAIN entries) \in Nat
      /\ Cardinality(DOMAIN Retained) <= Cardinality(DOMAIN entries)
  BY <1>1, FS_Subset, FS_CardinalityType DEF LimiterOK, TableOK
<1>4. Cardinality(DOMAIN Retained) <= MaxEntries
  BY <1>3, AuthAssumption DEF LimiterOK, TableOK
<1> QED
  BY <1>1, <1>2, <1>3, <1>4

\* A key that keeps its entry, or is forgotten, in a step of begin.
LEMMA RetainedKey ==
  ASSUME LimiterOK, NEW k \in Keys, ResetGuesses,
         Attempts(k)' = Attempts(k), Verifying(k)' = Verifying(k),
         k \in DOMAIN entries' <=> k \in DOMAIN Retained,
         k \in DOMAIN Retained => entries'[k] = Retained[k]
  PROVE  KeyOK(k)'
<1>1. KeyOK(k)
  BY DEF LimiterOK
<1>2. CASE k \in DOMAIN Retained
  <2>1. guesses'[k] = guesses[k] /\ k \in DOMAIN entries /\ entries'[k] = entries[k]
    BY <1>2, RetainedEntries DEF ResetGuesses
  <2> QED
    BY <1>1, <1>2, <2>1, KeyFrame
<1>3. CASE k \notin DOMAIN Retained
  BY <1>3, RetainedEntries DEF ResetGuesses, KeyOK
<1> QED
  BY <1>2, <1>3

\* The entry the new attempt works on.
LEMMA EntryOfKey ==
  ASSUME Types, LimiterOK, NEW k \in Keys, ResetGuesses
  PROVE  /\ EntryOf(k) \in Entry
         /\ EntryOf(k).inFlight = Cardinality(Attempts(k))
         /\ EntryOf(k).failures + EntryOf(k).inFlight <= Limit
         /\ guesses'[k] <= EntryOf(k).failures + Cardinality(Verifying(k))
<1>1. KeyOK(k)
  BY DEF LimiterOK
<1>2. CASE k \in DOMAIN Retained
  <2>1. EntryOf(k) = entries[k] /\ k \in DOMAIN entries /\ guesses'[k] = guesses[k]
    BY <1>2, RetainedEntries DEF EntryOf, ResetGuesses
  <2> QED
    BY <1>1, <2>1 DEF KeyOK
<1>3. CASE k \notin DOMAIN Retained
  <2>1. EntryOf(k) = FreshEntry /\ guesses'[k] = 0 /\ Attempts(k) = {}
    BY <1>3, RetainedEntries DEF EntryOf, ResetGuesses
  <2>2. Cardinality(Attempts(k)) = 0 /\ Cardinality(Verifying(k)) = 0
    BY <2>1, FS_EmptySet DEF Verifying
  <2>3. FreshEntry \in Entry
    BY AuthAssumption DEF FreshEntry, Entry
  <2> QED
    BY <2>1, <2>2, <2>3, AuthAssumption DEF FreshEntry
<1> QED
  BY <1>2, <1>3

LEMMA TableAdds ==
  ASSUME LimiterOK, NEW k \in Keys, ~TableFull(k), DOMAIN entries' = DOMAIN Retained \cup {k}
  PROVE  TableOK'
<1>1. /\ DOMAIN entries' \subseteq Keys
      /\ IsFiniteSet(DOMAIN entries')
      /\ Cardinality(DOMAIN entries') = IF k \in DOMAIN Retained
                                        THEN Cardinality(DOMAIN Retained)
                                        ELSE Cardinality(DOMAIN Retained) + 1
  BY RetainedEntries, FS_AddElement DEF LimiterOK, TableOK
<1>2. Cardinality(DOMAIN entries') <= MaxEntries
  BY <1>1, RetainedEntries, AuthAssumption DEF TableFull
<1> QED
  BY <1>1, <1>2 DEF TableOK, Keys

LEMMA BeginLoginLimiter ==
  ASSUME Types, LimiterOK, NEW q \in Logins, BeginLogin(q)
  PROVE  LimiterOK'
<1> DEFINE k == KeyOf[q]
<1>0. /\ k \in Keys /\ ResetGuesses /\ pc[q] = "idle" /\ q \in Requests
      /\ \A j \in Keys : j \notin DOMAIN Retained => Attempts(j) = {}
      /\ Keys' = Keys
  BY RequestSets, RetainedEntries DEF BeginLogin, Goto, Answer, Keys
<1>1. q \notin Attempts(k)
  BY <1>0 DEF Attempts
<1>2. CASE entries' = Retained /\ pc' = [pc EXCEPT ![q] = "done"]
  <2>1. \A j : Attempts(j)' = Attempts(j) /\ Verifying(j)' = Verifying(j)
    BY <1>0, <1>2 DEF Attempts, Verifying, Types
  <2>2. \A j \in Keys : KeyOK(j)'
    BY <1>0, <1>2, <2>1, RetainedKey
  <2>3. TableOK'
    BY <1>0, <1>2, RetainedEntries DEF TableOK, LimiterOK
  <2> QED
    BY <1>0, <2>2, <2>3 DEF LimiterOK
<1>3. CASE /\ ~TableFull(k)
           /\ entries' = Put(Retained, k, EntryOf(k))
           /\ pc' = [pc EXCEPT ![q] = "done"]
  <2>1. \A j : Attempts(j)' = Attempts(j) /\ Verifying(j)' = Verifying(j)
    BY <1>0, <1>3 DEF Attempts, Verifying, Types
  <2>2. /\ DOMAIN entries' = DOMAIN Retained \cup {k}
        /\ entries'[k] = EntryOf(k)
        /\ \A j \in DOMAIN Retained : j # k => entries'[j] = Retained[j]
    BY <1>3 DEF Put
  <2>3. \A j \in Keys : j # k => KeyOK(j)'
    BY <1>0, <2>1, <2>2, RetainedKey
  <2>4. KeyOK(k)'
    BY <1>0, <2>1, <2>2, EntryOfKey DEF KeyOK, Entry
  <2>5. TableOK'
    BY <1>0, <1>3, <2>2, TableAdds
  <2> QED
    BY <1>0, <2>3, <2>4, <2>5 DEF LimiterOK
<1>4. CASE /\ ~TableFull(k) /\ ~Blocked(EntryOf(k))
           /\ entries' = Put(Retained, k, [EntryOf(k) EXCEPT !.inFlight = @ + 1])
           /\ pc' = [pc EXCEPT ![q] = "lookup"]
  <2>1. \A j : j # k => Attempts(j)' = Attempts(j) /\ Verifying(j)' = Verifying(j)
    BY <1>4, AttemptsMove
  <2>2. /\ DOMAIN entries' = DOMAIN Retained \cup {k}
        /\ entries'[k] = [EntryOf(k) EXCEPT !.inFlight = @ + 1]
        /\ \A j \in DOMAIN Retained : j # k => entries'[j] = Retained[j]
    BY <1>4 DEF Put
  <2>3. \A j \in Keys : j # k => KeyOK(j)'
    BY <1>0, <2>1, <2>2, RetainedKey
  <2>4. Attempts(k)' = Attempts(k) \cup {q} /\ Verifying(k)' = Verifying(k)
    <3>1. "lookup" \in Under /\ "lookup" # "verifying"
      BY DEF Under
    <3>2. /\ Attempts(KeyOf[q])' = Attempts(KeyOf[q]) \cup {q}
          /\ Verifying(KeyOf[q])' = Verifying(KeyOf[q]) \ {q}
      BY <1>4, <3>1, AttemptsMove
    <3> QED
      BY <1>1, <3>2 DEF Verifying
  <2>5. Cardinality(Attempts(k)') = Cardinality(Attempts(k)) + 1
    BY <1>1, <2>4, AttemptsFinite, FS_AddElement
  <2>6. KeyOK(k)'
    <3> DEFINE f == EntryOf(k).failures
               n == EntryOf(k).inFlight
    <3>1. /\ EntryOf(k) \in Entry /\ n = Cardinality(Attempts(k))
          /\ guesses'[k] <= f + Cardinality(Verifying(k))
      BY <1>0, EntryOfKey
    <3>2. f \in 0 .. Limit /\ n \in 0 .. Limit /\ f + n < Limit /\ Limit \in Nat
      BY <1>4, <3>1, AuthAssumption DEF Entry, Blocked
    <3>3. /\ entries'[k] \in Entry
          /\ entries'[k].failures = f
          /\ entries'[k].inFlight = n + 1
      BY <2>2, <3>1, <3>2 DEF Entry
    <3>4. f + (n + 1) <= Limit
      BY <3>2
    <3> QED
      BY <2>2, <2>4, <2>5, <3>1, <3>3, <3>4 DEF KeyOK, Entry
  <2>7. TableOK'
    BY <1>0, <1>4, <2>2, TableAdds
  <2> QED
    BY <1>0, <2>3, <2>6, <2>7 DEF LimiterOK
<1> QED
  BY <1>2, <1>3, <1>4 DEF BeginLogin, Goto, Answer

-----------------------------------------------------------------------------
(* The rest of an attempt                                                  *)

LEMMA StartVerifying ==
  ASSUME Types, LimiterOK, NEW q \in Logins, Goto(q, "verify", "verifying"),
         guesses' = [guesses EXCEPT ![KeyOf[q]] = @ + 1], UNCHANGED entries
  PROVE  LimiterOK'
<1> DEFINE k == KeyOf[q]
<1>0. /\ k \in Keys /\ q \in Requests /\ pc[q] = "verify" /\ guesses \in [Keys -> Nat]
      /\ pc' = [pc EXCEPT ![q] = "verifying"]
      /\ Keys' = Keys
  BY RequestSets DEF Goto, Keys, Types
<1>1. q \in Attempts(k) /\ q \notin Verifying(k)
  BY <1>0 DEF Attempts, Verifying
<1>2. \A j : j # k => Attempts(j)' = Attempts(j) /\ Verifying(j)' = Verifying(j)
  BY <1>0, AttemptsMove
<1>3. \A j \in Keys : j # k => KeyOK(j)'
  <2>1. \A j \in Keys : j # k => guesses'[j] = guesses[j] /\ KeyOK(j)
    BY <1>0 DEF LimiterOK
  <2> QED
    BY <1>2, <2>1, KeyFrame
<1>4. Attempts(k)' = Attempts(k) /\ Verifying(k)' = Verifying(k) \cup {q}
  <2>1. "verifying" \in Under
    BY DEF Under
  <2>2. /\ Attempts(KeyOf[q])' = Attempts(KeyOf[q]) \cup {q}
        /\ Verifying(KeyOf[q])' = Verifying(KeyOf[q]) \cup {q}
    BY <1>0, <2>1, AttemptsMove
  <2> QED
    BY <1>1, <2>2
<1>5. Cardinality(Verifying(k)') = Cardinality(Verifying(k)) + 1
  BY <1>1, <1>4, AttemptsFinite, FS_AddElement
<1>6. KeyOK(k)'
  <2>1. KeyOK(k) /\ k \in DOMAIN entries
    BY <1>0, <1>1 DEF LimiterOK, KeyOK
  <2>2. guesses'[k] = guesses[k] + 1 /\ guesses[k] \in Nat
    BY <1>0
  <2>3. entries[k].failures \in Nat /\ Cardinality(Verifying(k)) \in Nat
    BY <2>1, AttemptsFinite, AuthAssumption DEF KeyOK, Entry
  <2>4. guesses'[k] <= entries[k].failures + Cardinality(Verifying(k)')
    BY <1>5, <2>1, <2>2, <2>3 DEF KeyOK
  <2> QED
    BY <1>4, <2>1, <2>4 DEF KeyOK, Entry
<1> QED
  BY <1>0, <1>3, <1>6 DEF LimiterOK, TableOK

\* LoginLimiter::finish and LoginAttempt::drop give back the place of the
\* attempt; only a password found right takes its guess back.
LEMMA FinishLimiter ==
  ASSUME Types, LimiterOK, NEW q \in Logins, NEW to, NEW failed \in BOOLEAN,
         pc[q] \in Under, to \notin Under, pc' = [pc EXCEPT ![q] = to],
         Finish(q, failed),
         IF failed THEN UNCHANGED guesses
         ELSE /\ pc[q] = "verifying"
              /\ guesses' = [guesses EXCEPT ![KeyOf[q]] = IF @ > 0 THEN @ - 1 ELSE 0]
  PROVE  LimiterOK'
<1> DEFINE k == KeyOf[q]
<1>0. /\ k \in Keys /\ q \in Requests /\ guesses \in [Keys -> Nat] /\ KeyOK(k)
      /\ Keys' = Keys
  BY RequestSets DEF Keys, Types, LimiterOK
<1>1. q \in Attempts(k)
  BY <1>0 DEF Attempts, Under
<1>2. k \in DOMAIN entries
  BY <1>0, <1>1 DEF KeyOK
<1>3. \A j : j # k => Attempts(j)' = Attempts(j) /\ Verifying(j)' = Verifying(j)
  BY AttemptsMove
<1>4. /\ DOMAIN entries' = DOMAIN entries
      /\ \A j \in DOMAIN entries : j # k => entries'[j] = entries[j]
      /\ entries'[k] = [entries[k] EXCEPT !.inFlight = IF @ > 0 THEN @ - 1 ELSE 0,
                                          !.failures = IF failed THEN @ + 1 ELSE @]
  BY <1>2 DEF Finish
<1>5. \A j \in Keys : j # k => KeyOK(j)'
  <2>1. \A j \in Keys : j # k => guesses'[j] = guesses[j] /\ KeyOK(j)
    BY <1>0 DEF LimiterOK
  <2> QED
    BY <1>3, <1>4, <2>1, KeyFrame
<1>6. Attempts(k)' = Attempts(k) \ {q} /\ Verifying(k)' = Verifying(k) \ {q}
  <2>1. to # "verifying"
    BY DEF Under
  <2>2. /\ Attempts(KeyOf[q])' = Attempts(KeyOf[q]) \ {q}
        /\ Verifying(KeyOf[q])' = Verifying(KeyOf[q]) \ {q}
    BY <2>1, AttemptsMove
  <2> QED
    BY <2>2
<1>7. /\ Cardinality(Attempts(k)') = Cardinality(Attempts(k)) - 1
      /\ Cardinality(Attempts(k)) \in Nat \ {0}
  <2>1. Cardinality(Attempts(k)) # 0
    BY <1>1, AttemptsFinite, FS_EmptySet
  <2> QED
    BY <1>1, <1>6, <2>1, AttemptsFinite, FS_RemoveElement
<1>8. /\ Cardinality(Verifying(k)) \in Nat
      /\ Cardinality(Verifying(k)') = IF pc[q] = "verifying"
                                      THEN Cardinality(Verifying(k)) - 1
                                      ELSE Cardinality(Verifying(k))
  <2>1. q \in Verifying(k) <=> pc[q] = "verifying"
    BY <1>1 DEF Verifying
  <2> QED
    BY <1>6, <2>1, AttemptsFinite, FS_RemoveElement
<1>9. KeyOK(k)'
  <2> DEFINE f == entries[k].failures
             n == entries[k].inFlight
  <2>1. /\ entries[k] \in Entry /\ n = Cardinality(Attempts(k)) /\ f + n <= Limit
        /\ guesses[k] <= f + Cardinality(Verifying(k))
    BY <1>0, <1>2 DEF KeyOK
  <2>2. f \in Nat /\ n \in Nat \ {0} /\ Limit \in Nat
    BY <1>7, <2>1, AuthAssumption DEF Entry
  <2>3. /\ entries'[k] \in Entry
        /\ entries'[k].inFlight = n - 1
        /\ entries'[k].failures = IF failed THEN f + 1 ELSE f
    <3>1. f + 1 \in 0 .. Limit /\ f \in 0 .. Limit /\ n - 1 \in 0 .. Limit /\ n > 0
      BY <2>1, <2>2
    <3>2. /\ entries[k].elapsed \in BOOLEAN
          /\ entries[k] = [failures |-> f, inFlight |-> n, elapsed |-> entries[k].elapsed]
      BY <2>1 DEF Entry
    <3>3. entries'[k] = [failures |-> IF failed THEN f + 1 ELSE f, inFlight |-> n - 1,
                         elapsed |-> entries[k].elapsed]
      BY <1>4, <3>1, <3>2
    <3> QED
      BY <3>1, <3>2, <3>3 DEF Entry
  <2>4. guesses[k] \in Nat
    BY <1>0
  <2>5. guesses'[k] <= entries'[k].failures + Cardinality(Verifying(k)')
    <3>1. CASE failed
      BY <1>8, <2>1, <2>2, <2>3, <2>4, <3>1
    <3>2. CASE ~failed
      <4>1. guesses'[k] = IF guesses[k] > 0 THEN guesses[k] - 1 ELSE 0
        BY <1>0, <3>2
      <4>2. q \in Verifying(k)
        BY <1>1, <3>2 DEF Verifying
      <4>3. Cardinality(Verifying(k)) # 0
        BY <4>2, AttemptsFinite, FS_EmptySet
      <4> QED
        BY <1>8, <2>1, <2>2, <2>3, <2>4, <3>2, <4>1, <4>3
    <3> QED
      BY <3>1, <3>2
  <2>6. entries'[k].failures + entries'[k].inFlight <= Limit
    BY <2>1, <2>2, <2>3
  <2> QED
    BY <1>2, <1>4, <1>7, <2>1, <2>3, <2>5, <2>6 DEF KeyOK, Entry
<1> QED
  BY <1>0, <1>4, <1>5, <1>9 DEF LimiterOK, TableOK

LEMMA NextLimiter ==
  ASSUME Types, LimiterOK, [Next]_vars
  PROVE  LimiterOK'
<1>1. ASSUME NEW q \in Logins, Login(q)
      PROVE  LimiterOK'
  <2>1. CASE RefuseForm(q)
    BY <1>1, <2>1, OutsideLimiter DEF RefuseForm, Answer, Under, limiterVars
  <2>2. CASE BeginLogin(q)
    BY <1>1, <2>2, BeginLoginLimiter
  <2>3. CASE Lookup(q)
    <3>1. /\ pc[q] = "lookup" /\ pc' = [pc EXCEPT ![q] = "verify"]
          /\ q \in Requests /\ UNCHANGED <<entries, guesses>>
      BY <1>1, <2>3, RequestSets DEF Lookup, Goto, limiterVars
    <3>2. \A k : Attempts(k)' = Attempts(k) /\ Verifying(k)' = Verifying(k)
      BY <3>1 DEF Attempts, Verifying, Types
    <3> QED
      BY <3>1, <3>2, KeyFrame DEF LimiterOK, TableOK, Keys
  <2>4. CASE StartVerify(q)
    <3>1. CASE /\ Goto(q, "verify", "verifying")
               /\ guesses' = [guesses EXCEPT ![KeyOf[q]] = @ + 1] /\ UNCHANGED entries
      BY <1>1, <3>1, StartVerifying
    <3>2. CASE Answer(q, "verify", "refused") /\ DropAttempt(q) /\ UNCHANGED guesses
      BY <1>1, <3>2, FinishLimiter DEF DropAttempt, Answer, Under
    <3> QED
      BY <2>4, <3>1, <3>2 DEF StartVerify
  <2>5. CASE VerifyRight(q)
    BY <1>1, <2>5, FinishLimiter DEF VerifyRight, Goto, Under
  <2>6. CASE VerifyWrong(q)
    BY <1>1, <2>6, FinishLimiter DEF VerifyWrong, Answer, Under
  <2>7. CASE InsertSession(q)
    BY <1>1, <2>7, OutsideLimiter DEF InsertSession, Answer, Under, limiterVars
  <2>8. CASE DropLogin(q)
    BY <1>1, <2>8, FinishLimiter DEF DropLogin, DropAttempt, Answer, Under
  <2> QED
    BY <1>1, <2>1, <2>2, <2>3, <2>4, <2>5, <2>6, <2>7, <2>8 DEF Login
<1>2. ASSUME NEW q \in Setups, Setup(q)
      PROVE  LimiterOK'
  <2>1. /\ UNCHANGED <<entries, guesses>>
        /\ \E to : pc' = [pc EXCEPT ![q] = to]
    BY <1>2 DEF Setup, BeginSetup, StartHash, EndHash, ClaimSetup, CreateAdmin, DropSetup,
                Goto, Answer, limiterVars
  <2>2. \A r \in Logins : pc'[r] = pc[r]
    BY <2>1, RequestSets DEF Types
  <2> QED
    BY <2>1, <2>2, LimiterFrame
<1>3. ASSUME NEW c \in Calls, Call(c)
      PROVE  LimiterOK'
  <2>1. /\ UNCHANGED <<entries, guesses>>
        /\ \E to : pc' = [pc EXCEPT ![c] = to]
    BY <1>3 DEF Call, CurrentUser, BeginLogout, DeleteSession, Goto, Answer, limiterVars
  <2>2. \A r \in Logins : pc'[r] = pc[r]
    BY <2>1, RequestSets DEF Types
  <2> QED
    BY <2>1, <2>2, LimiterFrame
<1>4. ASSUME NEW k \in Keys, Elapse(k)
      PROVE  LimiterOK'
  <2>1. \A j : Attempts(j)' = Attempts(j) /\ Verifying(j)' = Verifying(j)
    BY <1>4 DEF Elapse, Attempts, Verifying
  <2>2. /\ k \in DOMAIN entries /\ DOMAIN entries' = DOMAIN entries
        /\ \A j \in DOMAIN entries : j # k => entries'[j] = entries[j]
        /\ entries'[k] = [entries[k] EXCEPT !.elapsed = TRUE]
        /\ guesses' = guesses
    BY <1>4 DEF Elapse
  <2>3. \A j \in Keys : j # k => KeyOK(j)'
    BY <2>1, <2>2, KeyFrame DEF LimiterOK
  <2>4. KeyOK(k)
    BY DEF LimiterOK
  <2>5. /\ entries'[k] \in Entry
        /\ entries'[k].failures = entries[k].failures
        /\ entries'[k].inFlight = entries[k].inFlight
    BY <2>2, <2>4 DEF KeyOK, Entry
  <2>6. KeyOK(k)'
    BY <2>1, <2>2, <2>4, <2>5 DEF KeyOK, Entry
  <2> QED
    BY <2>2, <2>3, <2>6 DEF LimiterOK, TableOK, Keys
<1>5. CASE (\E q \in Requests : EndHashing(q)) \/ Tick \/ Terminated \/ UNCHANGED vars
  BY <1>5, LimiterFrame DEF EndHashing, Tick, Terminated, vars, limiterVars
<1> QED
  BY <1>1, <1>2, <1>3, <1>4, <1>5 DEF Next

LEMMA LimiterInvariant == Spec => []LimiterOK
<1>1. Init => LimiterOK
  <2> SUFFICES ASSUME Init PROVE LimiterOK
    OBVIOUS
  <2>1. \A k : Attempts(k) = {}
    BY RequestSets DEF Init, Attempts
  <2>2. DOMAIN entries = {} /\ \A k \in Keys : guesses[k] = 0
    BY DEF Init
  <2>3. Cardinality({}) = 0 /\ IsFiniteSet({})
    BY FS_EmptySet
  <2> QED
    BY <2>1, <2>2, <2>3, AuthAssumption DEF LimiterOK, TableOK, KeyOK
<1>2. BaseInv /\ LimiterOK /\ [Next]_vars => LimiterOK'
  BY NextLimiter DEF BaseInv
<1> QED
  BY <1>1, <1>2, BaseInvariant, PTL DEF Spec

\* The limiter can be trusted with its count, for every number of requests
\* and keys: its table stays within its bound, each entry counts exactly the
\* attempts under way, and no state of the handlers escapes its form.
THEOREM LimiterHolds == Spec => []LimiterInv
<1>1. BaseInv /\ LimiterOK => LimiterInv
  <2> SUFFICES ASSUME BaseInv, LimiterOK PROVE LimiterInv
    OBVIOUS
  <2>1. TypeOK
    <3>1. DOMAIN entries \subseteq Keys /\ \A k \in DOMAIN entries : entries[k] \in Entry
      BY DEF LimiterOK, TableOK, KeyOK
    <3> QED
      BY <3>1 DEF TypeOK, Entry, BaseInv, Types, Labels, WorkerInv, Busy
  <2>2. InFlightExact
    BY DEF LimiterOK, KeyOK, InFlightExact
  <2> QED
    BY <2>1, <2>2 DEF LimiterInv, LimiterOK, TableOK, EntriesBounded
<1> QED
  BY <1>1, BaseInvariant, LimiterInvariant, PTL

\* In a window no more than Limit passwords of a key are tried without being
\* found right.
THEOREM GuessesStayBounded == Spec => []GuessesBounded
<1>1. BaseInv /\ LimiterOK => GuessesBounded
  <2> SUFFICES ASSUME BaseInv, LimiterOK, NEW k \in Keys PROVE guesses[k] <= Limit
    BY DEF GuessesBounded
  <2>1. KeyOK(k) /\ guesses[k] \in Nat /\ Limit \in Nat
    BY AuthAssumption DEF LimiterOK, BaseInv, Types
  <2>2. CASE k \in DOMAIN entries
    BY <2>1, <2>2, AttemptsFinite DEF KeyOK, Entry
  <2> QED
    BY <2>1, <2>2 DEF KeyOK
<1> QED
  BY <1>1, BaseInvariant, LimiterInvariant, PTL
=============================================================================

-------------------------------- MODULE Auth --------------------------------
(***************************************************************************)
(* Setup, login and sessions of src/src/auth.rs: the limiter that bounds   *)
(* failed logins per client address and user name, the semaphore in front  *)
(* of the password hashing threads, the transaction that creates the only  *)
(* administrator, and the sessions, whose expiry the database compares as  *)
(* text.  A handler may be dropped at any await (its client is gone); a    *)
(* hashing thread it started runs on.                                      *)
(***************************************************************************)
EXTENDS Integers, FiniteSets, Functions

CONSTANTS
  Logins, Setups,   \* requests
  Calls,            \* requests for the current user or a logout
  Followed,         \* bound: the login whose session is recorded; Calls carry its token
  KeyOf,            \* the LoginKey of a login: address and lowercase user name
  Limit,            \* LOGIN_FAILURE_LIMIT
  MaxEntries,       \* MAX_LIMITER_ENTRIES
  Workers,          \* permits of password_workers
  None

Keys == {KeyOf[q] : q \in Logins}
Requests == Logins \cup Setups \cup Calls
Answers ==
  {"refused", "token", "created", "user", "invalid_session", "no_content", "failed"}

ASSUME AuthAssumption ==
  /\ Logins \cap Setups = {} /\ (Logins \cup Setups) \cap Calls = {}
  /\ Followed \in Logins
  /\ IsFiniteSet(Requests)
  /\ None \notin Requests \cup Answers
  /\ Limit \in Nat \ {0} /\ MaxEntries \in Nat /\ Workers \in Nat

VARIABLES
  entries,      \* LoginLimiter::entries
  pc,
  answer,       \* "refused" stands for every error of a login or setup, and for no answer
  freeWorkers,
  hashing,      \* requests whose blocking task runs
  guesses,      \* per key: passwords tried in the window and not found right
  admins,       \* setups whose user is in the users table
  claimed,      \* setup_state.claimed
  writer,       \* the setup whose transaction holds the write lock
  sessions,     \* expires_at of the session of Followed: {} or one instant
  clock         \* Instants since that session was inserted

limiterVars == <<entries, guesses>>
sessionVars == <<sessions, clock>>
setupVars == <<admins, claimed, writer, sessionVars>>
vars == <<entries, pc, answer, freeWorkers, hashing, guesses, setupVars>>

FreshEntry == [failures |-> 0, inFlight |-> 0, elapsed |-> FALSE]

Init ==
  /\ entries = <<>>        \* no key yet
  /\ pc = [q \in Requests |-> "idle"]
  /\ answer = [q \in Requests |-> None]
  /\ freeWorkers = Workers
  /\ hashing = {}
  /\ guesses = [k \in Keys |-> 0]
  /\ admins = {} /\ claimed = FALSE /\ writer = None
  /\ sessions = {} /\ clock = 0

Goto(q, from, to) ==
  /\ pc[q] = from
  /\ pc' = [pc EXCEPT ![q] = to]
  /\ UNCHANGED answer

Answer(q, from, a) ==
  /\ pc[q] = from
  /\ pc' = [pc EXCEPT ![q] = "done"]
  /\ answer' = [answer EXCEPT ![q] = a]

Put(f, k, v) == [x \in DOMAIN f \cup {k} |-> IF x = k THEN v ELSE f[x]]

-----------------------------------------------------------------------------
(* Instants of the clock, around the expiry of the followed session: one   *)
(* before the second in which it expires, the fractions .0, .5 and .52 of  *)
(* that second, and one after it.  The database holds RFC 3339 texts, in   *)
(* which trailing zeros are dropped and the next character is a Z: within  *)
(* a second .52Z comes before .5Z, and both before no fraction at all.     *)

LastSecond == 1 .. 3
Later == 4

\* Mutant: the time is bound as SQLite writes it, with a space for the T,
\* and so comes before every expiry of its day.
SpaceAfter(expires, now) == TRUE

\* sessions.expires_at > now, of two texts.
TextAfter(expires, now) ==
  IF {expires, now} \subseteq LastSecond THEN expires < now ELSE expires > now

-----------------------------------------------------------------------------
(* LoginLimiter                                                            *)

\* The window of an entry passes.
Elapse(k) ==
  /\ k \in DOMAIN entries /\ ~entries[k].elapsed
  /\ entries' = [entries EXCEPT ![k].elapsed = TRUE]
  /\ UNCHANGED <<pc, answer, freeWorkers, hashing, guesses, setupVars>>

\* Mutant: an entry is forgotten when its window has passed.
RetainRecent == Restrict(entries, {k \in DOMAIN entries : ~entries[k].elapsed})

\* begin first forgets the entries whose window has passed and that nobody
\* is using.
Retained ==
  Restrict(entries, {k \in DOMAIN entries : entries[k].inFlight # 0 \/ ~entries[k].elapsed})

Blocked(e) == e.failures + e.inFlight >= Limit
TableFull(k) == k \notin DOMAIN Retained /\ Cardinality(DOMAIN Retained) >= MaxEntries

EntryOf(k) == IF k \in DOMAIN Retained THEN Retained[k] ELSE FreshEntry

\* A window that is forgotten or starts anew has no guesses.
ResetGuesses ==
  guesses' = [k \in Keys |-> IF k \in DOMAIN Retained THEN guesses[k] ELSE 0]

\* Credentials of the wrong form are refused before the limiter sees them.
RefuseForm(q) ==
  /\ Answer(q, "idle", "refused")
  /\ UNCHANGED <<freeWorkers, hashing, limiterVars, setupVars>>

BeginLogin(q) ==
  LET k == KeyOf[q]
  IN /\ \/ /\ Answer(q, "idle", "refused")
           /\ TableFull(k)
           /\ entries' = Retained
        \/ /\ Answer(q, "idle", "refused")
           /\ ~TableFull(k) /\ Blocked(EntryOf(k))
           /\ entries' = Put(Retained, k, EntryOf(k))
        \/ /\ Goto(q, "idle", "lookup")
           /\ ~TableFull(k) /\ ~Blocked(EntryOf(k))
           /\ entries' = Put(Retained, k, [EntryOf(k) EXCEPT !.inFlight = @ + 1])
     /\ ResetGuesses
     /\ UNCHANGED <<freeWorkers, hashing, setupVars>>

\* LoginLimiter::finish, on the key of the attempt.
Finish(q, failed) ==
  entries' = IF KeyOf[q] \notin DOMAIN entries THEN entries
             ELSE [entries EXCEPT
                     ![KeyOf[q]].inFlight = IF @ > 0 THEN @ - 1 ELSE 0,
                     ![KeyOf[q]].failures = IF failed THEN @ + 1 ELSE @]

\* Mutant: an attempt that is dropped is not a failure.
DropUncounted(q) == Finish(q, FALSE)

\* LoginAttempt::drop, of an attempt nobody finished.
DropAttempt(q) == Finish(q, TRUE)

-----------------------------------------------------------------------------
(* login                                                                   *)

Lookup(q) ==
  /\ Goto(q, "lookup", "verify")
  /\ UNCHANGED <<freeWorkers, hashing, limiterVars, setupVars>>

\* try_acquire: without a permit the attempt is dropped, which counts as a
\* failure.
StartVerify(q) ==
  /\ \/ /\ Goto(q, "verify", "verifying")
        /\ freeWorkers > 0
        /\ freeWorkers' = freeWorkers - 1
        /\ hashing' = hashing \cup {q}
        /\ guesses' = [guesses EXCEPT ![KeyOf[q]] = @ + 1]
        /\ UNCHANGED entries
     \/ /\ Answer(q, "verify", "refused")
        /\ freeWorkers = 0
        /\ DropAttempt(q)
        /\ UNCHANGED <<freeWorkers, hashing, guesses>>
  /\ UNCHANGED setupVars

\* A right password needs a user; an unknown one is verified against a dummy.
VerifyRight(q) ==
  /\ Goto(q, "verifying", "session")
  /\ admins # {}
  /\ hashing' = hashing \ {q}
  /\ freeWorkers' = freeWorkers + 1
  /\ Finish(q, FALSE)
  /\ guesses' = [guesses EXCEPT ![KeyOf[q]] = IF @ > 0 THEN @ - 1 ELSE 0]
  /\ UNCHANGED setupVars

VerifyWrong(q) ==
  /\ Answer(q, "verifying", "refused")
  /\ hashing' = hashing \ {q}
  /\ freeWorkers' = freeWorkers + 1
  /\ Finish(q, TRUE)
  /\ UNCHANGED <<guesses, setupVars>>

\* A session lasts seven days: it expires at some fraction of a second.
StoreSession(q) ==
  sessions' \in IF q = Followed THEN {{e} : e \in LastSecond} ELSE {sessions}

\* The row may be stored although its token is never told.
InsertSession(q) ==
  /\ \/ Answer(q, "session", "token") /\ StoreSession(q)
     \/ Answer(q, "session", "refused") /\ (StoreSession(q) \/ UNCHANGED sessions)
  /\ UNCHANGED <<freeWorkers, hashing, limiterVars, admins, claimed, writer, clock>>

\* A statement fails or the handler is dropped while the attempt is under
\* way: the permit comes back, and the hashing thread, if any, runs on.
DropLogin(q) ==
  /\ pc[q] \in {"lookup", "verify", "verifying"}
  /\ Answer(q, pc[q], "refused")
  /\ freeWorkers' = IF pc[q] = "verifying" THEN freeWorkers + 1 ELSE freeWorkers
  /\ DropAttempt(q)
  /\ UNCHANGED <<hashing, guesses, setupVars>>

\* The thread of a dropped handler ends.
EndHashing(q) ==
  /\ q \in hashing /\ pc[q] = "done"
  /\ hashing' = hashing \ {q}
  /\ UNCHANGED <<pc, answer, freeWorkers, limiterVars, setupVars>>

-----------------------------------------------------------------------------
(* setup                                                                   *)

\* The token and the form of the credentials are checked, not the peer.
BeginSetup(q) ==
  /\ \/ Goto(q, "idle", "hash")
     \/ Answer(q, "idle", "refused")
  /\ UNCHANGED <<freeWorkers, hashing, limiterVars, setupVars>>

StartHash(q) ==
  /\ \/ /\ Goto(q, "hash", "hashing")
        /\ freeWorkers > 0
        /\ freeWorkers' = freeWorkers - 1
        /\ hashing' = hashing \cup {q}
     \/ /\ Answer(q, "hash", "refused")
        /\ freeWorkers = 0
        /\ UNCHANGED <<freeWorkers, hashing>>
  /\ UNCHANGED <<limiterVars, setupVars>>

EndHash(q) ==
  /\ Goto(q, "hashing", "claim")
  /\ hashing' = hashing \ {q}
  /\ freeWorkers' = freeWorkers + 1
  /\ UNCHANGED <<limiterVars, setupVars>>

\* Mutant: the claim is made outside the transaction.
ClaimOnPool == claimed' = TRUE

\* The claim is published only with the user, at the commit.
ClaimInTransaction == UNCHANGED claimed

\* UPDATE setup_state, the first statement of the transaction.
ClaimSetup(q) ==
  /\ writer = None
  /\ \/ /\ Goto(q, "claim", "insert_user")
        /\ ~claimed /\ admins = {}
        /\ writer' = q
        /\ ClaimInTransaction
     \/ /\ Answer(q, "claim", "refused")
        /\ claimed \/ admins # {}
        /\ UNCHANGED <<claimed, writer>>
  /\ UNCHANGED <<admins, freeWorkers, hashing, limiterVars, sessionVars>>

\* INSERT INTO users and COMMIT.
CreateAdmin(q) ==
  /\ Answer(q, "insert_user", "created")
  /\ claimed' = TRUE
  /\ admins' = admins \cup {q}
  /\ writer' = None
  /\ UNCHANGED <<freeWorkers, hashing, limiterVars, sessionVars>>

\* A statement fails or the handler is dropped: the transaction rolls back.
DropSetup(q) ==
  /\ pc[q] \in {"hash", "hashing", "claim", "insert_user"}
  /\ Answer(q, pc[q], "refused")
  /\ freeWorkers' = IF pc[q] = "hashing" THEN freeWorkers + 1 ELSE freeWorkers
  /\ writer' = IF writer = q THEN None ELSE writer
  /\ UNCHANGED <<hashing, limiterVars, claimed, admins, sessionVars>>

-----------------------------------------------------------------------------
(* current_user and logout, called with the token that Followed was told   *)

\* authenticated_user, one SELECT.
Authenticated ==
  \E e \in sessions : TextAfter(e, clock)

CurrentUser(c) ==
  /\ answer[Followed] = "token"
  /\ Answer(c, "idle", IF Authenticated THEN "user" ELSE "invalid_session")
  /\ UNCHANGED <<freeWorkers, hashing, limiterVars, setupVars>>

BeginLogout(c) ==
  /\ answer[Followed] = "token"
  /\ IF Authenticated THEN Goto(c, "idle", "delete") ELSE Answer(c, "idle", "invalid_session")
  /\ UNCHANGED <<freeWorkers, hashing, limiterVars, setupVars>>

\* The DELETE takes effect, fails, or takes effect unconfirmed.
DeleteSession(c) ==
  /\ \/ Answer(c, "delete", "no_content") /\ sessions' = {}
     \/ Answer(c, "delete", "failed") /\ sessions' \in {sessions, {}}
  /\ UNCHANGED <<freeWorkers, hashing, limiterVars, admins, claimed, writer, clock>>

Tick ==
  /\ sessions # {} /\ clock < Later
  /\ clock' = clock + 1
  /\ UNCHANGED <<entries, pc, answer, freeWorkers, hashing, guesses, admins, claimed, writer,
                 sessions>>

-----------------------------------------------------------------------------
Login(q) ==
  \/ RefuseForm(q) \/ BeginLogin(q) \/ Lookup(q)
  \/ StartVerify(q) \/ VerifyRight(q) \/ VerifyWrong(q)
  \/ InsertSession(q) \/ DropLogin(q)

Setup(q) ==
  \/ BeginSetup(q) \/ StartHash(q) \/ EndHash(q) \/ ClaimSetup(q) \/ CreateAdmin(q)
  \/ DropSetup(q)

Call(c) == CurrentUser(c) \/ BeginLogout(c) \/ DeleteSession(c)

Terminated ==
  /\ hashing = {} /\ \A q \in Logins \cup Setups : pc[q] = "done"
  /\ \A c \in Calls : pc[c] = "done" \/ answer[Followed] # "token"
  /\ UNCHANGED vars

Next ==
  \/ \E q \in Logins : Login(q)
  \/ \E q \in Setups : Setup(q)
  \/ \E c \in Calls : Call(c)
  \/ \E q \in Requests : EndHashing(q)
  \/ Tick
  \/ \E k \in Keys : Elapse(k)
  \/ Terminated

Spec == Init /\ [][Next]_vars

-----------------------------------------------------------------------------
Attempts(k) ==
  {q \in Logins : KeyOf[q] = k /\ pc[q] \in {"lookup", "verify", "verifying"}}

\* The form of every state; failures and attempts of an entry stay within the
\* limit, and the hashing permits are out exactly to the hashing requests.
TypeOK ==
  /\ DOMAIN entries \subseteq Keys
  /\ \A k \in DOMAIN entries :
       entries[k] \in [failures : 0 .. Limit, inFlight : 0 .. Limit, elapsed : BOOLEAN]
  /\ pc \in [Requests -> {"idle", "lookup", "verify", "verifying", "session", "hash",
                          "hashing", "claim", "insert_user", "delete", "done"}]
  /\ answer \in [Requests -> Answers \cup {None}]
  /\ freeWorkers = Workers - Cardinality({q \in Requests : pc[q] \in {"verifying", "hashing"}})
  /\ hashing \subseteq Requests
  /\ guesses \in [Keys -> Nat]
  /\ admins \subseteq Setups
  /\ claimed \in BOOLEAN
  /\ writer \in Setups \cup {None}
  /\ sessions \in {{}} \cup {{e} : e \in LastSecond} /\ clock \in 0 .. Later

\* The limiter counts exactly the attempts that are under way: their entry
\* is not forgotten while one of them is, although its window passes, and
\* no way out of the handler leaves one counted for ever.
InFlightExact ==
  \A k \in Keys :
    IF k \in DOMAIN entries THEN entries[k].inFlight = Cardinality(Attempts(k))
    ELSE Attempts(k) = {}

\* Within a window at most Limit passwords are tried that do not turn out to
\* be right: attempts under way and attempts nobody waited for included.
GuessesBounded ==
  \A k \in Keys : guesses[k] <= Limit

\* The table of the limiter never exceeds its bound.
EntriesBounded == Cardinality(DOMAIN entries) <= MaxEntries

\* What the limiter needs to be trusted with the count: entries of the right
\* form, exact and no more of them than the table has room for, although
\* attempts overlap, are dropped and outlive their window.
LimiterInv == TypeOK /\ InFlightExact /\ EntriesBounded

\* However many setups run at once and whichever fails, at most one creates
\* a user, and the setup is claimed exactly when that user exists: a setup
\* that fails after its claim can be repeated.
SingleAdmin ==
  /\ Cardinality(admins) <= 1
  /\ claimed <=> admins # {}

\* A session opens the door from its login until the second in which it
\* expires, and not after that second; once a logout is confirmed it never
\* opens it again, and until a logout is asked for nothing else closes it.
SessionsEnd ==
  [][\A c \in Calls :
       LET Left(a) == \E d \in Calls : answer[d] = a
       IN pc[c] = "idle" /\ pc'[c] # "idle" =>
            IF answer'[c] = "invalid_session"
            THEN clock # 0 \/ Left("no_content") \/ Left("failed")
            ELSE clock # Later /\ ~Left("no_content")]_vars
=============================================================================

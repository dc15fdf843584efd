------------------------------- MODULE Accounts --------------------------------
(***************************************************************************)
(* Who may do what on the hub: the accounts and sessions of the database   *)
(* (store/users.go), the requests that set up, sign in and administer      *)
(* (server/api_auth.go, api_users.go, the auth wrapper of server.go), the  *)
(* limiter of failed attempts and the pending Microsoft sign-ins, both in  *)
(* memory (auth/limiter.go, entra/entra.go).                               *)
(*                                                                         *)
(* Each request is a goroutine, and each statement or transaction of the   *)
(* database, each call of the limiter or of the provider is one step of    *)
(* it: accounts change between any two.  All attempts come from one        *)
(* address, the limiter's key.  Hashing and the verification of an ID      *)
(* token have an outcome and no state.                                     *)
(***************************************************************************)
EXTENDS Integers, Sequences, FiniteSets

CONSTANTS
  Requests,      \* HTTP requests under way
  Emails,
  MaxFailures, Lockout,    \* the limiter
  SessionTTL, LoginTTL,
  None,
  MaxUsers, MaxSessions, MaxStarts, MaxTime, MaxRestarts,
  MaxWork        \* bounds; the last counts the set-ups, sign-ins and writes

ASSUME AccountsAssumption ==
  /\ {MaxFailures, Lockout} \subseteq Nat \ {0}
  /\ {SessionTTL, LoginTTL, MaxUsers, MaxSessions, MaxStarts, MaxTime, MaxRestarts, MaxWork} \subseteq Nat
  /\ IsFiniteSet(Requests) /\ Requests # {}
  /\ None \notin Emails /\ None \notin Nat

Ids == 1..MaxUsers
Tokens == 1..MaxSessions
States == 1..MaxStarts
Roles == {"admin", "viewer"}
Providers == {"local", "entra"}

NoUser == [email |-> None, role |-> "viewer", provider |-> "entra"]
\* owner, via and state are history: who signed in, how, and by which sign-in;
\* stale, that the account was removed before the session was opened.
NoSession == [user |-> None, expires |-> 0, owner |-> None, via |-> "local", state |-> None, stale |-> FALSE]
Idle == [pc |-> "idle", user |-> None, owner |-> None, via |-> "local", state |-> None, stale |-> FALSE]

VARIABLES
  now,
  users,      \* per id, a row or NoUser
  sessions,   \* per token, a row or NoSession
  limiter,    \* Limiter.entries of the address; n = 0 when there is none
  pending,    \* Provider.pending: when each sign-in started, or None
  started,    \* sign-ins started
  entra,      \* whether the settings hold an app registration
  req,        \* what each request is at
  guesses,    \* history: the failures since the last success, the last Lockout of time
  restarts, work   \* counters of the bounds

vars == <<now, users, sessions, limiter, pending, started, entra, req, guesses, restarts, work>>

Live == {i \in Ids : users[i] # NoUser}
Row(email, role, provider) == [email |-> email, role |-> role, provider |-> provider]

At(r, pc) == req[r].pc = pc
Done(r) == req' = [req EXCEPT ![r] = Idle]

Work == work < MaxWork /\ work' = work + 1

-----------------------------------------------------------------------------
(* The store. *)

\* INTEGER PRIMARY KEY: the next id follows the greatest one in the table.
NextId(i) == (\A j \in Live : j < i) /\ (i = 1 \/ i - 1 \in Live)

Taken(email) == \E j \in Live : users[j].email = email

LocalAdmins == {i \in Live : users[i].role = "admin" /\ users[i].provider = "local"}

\* Mutant: an administrator of the tenant counts as another way in.
LastAdmin(i) == i \in LocalAdmins /\ \A j \in Live \ {i} : users[j].role # "admin"

\* guardLastLocalAdmin.
LastLocalAdmin(i) == i \in LocalAdmins /\ LocalAdmins \ {i} = {}

\* SessionUser: the session has not expired; its account is still there.
Valid(t) == sessions[t] # NoSession /\ sessions[t].expires > now

\* Mutant: the sessions of a removed account stay.
SessionsKept(i) == sessions

\* DeleteUser's sessions, in the transaction that deletes the account.
SignedOut(i) == [t \in Tokens |-> IF sessions[t].user = i THEN NoSession ELSE sessions[t]]

-----------------------------------------------------------------------------
(* The limiter. *)

NoEntry == [n |-> 0, at |-> 0]

\* Mutant: the entry stays after the lockout.
AllowedKept(allowed, entry) ==
  /\ allowed = (limiter.n < MaxFailures \/ now - limiter.at >= Lockout)
  /\ entry = limiter

\* Allowed forgets the key when its lockout is over.
Allowed(allowed, entry) ==
  IF limiter.n < MaxFailures THEN allowed = TRUE /\ entry = limiter
  ELSE IF now - limiter.at >= Lockout THEN allowed = TRUE /\ entry = NoEntry
  ELSE allowed = FALSE /\ entry = limiter

\* Mutant: only the failure that locks is stamped.
FailStampsOnce ==
  [n |-> limiter.n + 1, at |-> IF limiter.n + 1 = MaxFailures THEN now ELSE limiter.at]

\* Fail stamps every failure from the one that locks on.
Fail == [n |-> limiter.n + 1, at |-> IF limiter.n + 1 >= MaxFailures THEN now ELSE limiter.at]

-----------------------------------------------------------------------------
(* Setting up and signing in with a password. *)

\* handleSetup counts the accounts ...
Setup(r) ==
  /\ Work /\ At(r, "idle") /\ Live = {}
  /\ req' = [req EXCEPT ![r].pc = "hash"]
  /\ UNCHANGED <<now, users, sessions, limiter, pending, started, entra, guesses, restarts>>

\* ... and creates a local administrator after hashing the password; the e-mail
\* is unique.
CreateUser(r, e) ==
  /\ At(r, "hash")
  /\ IF Taken(e) THEN Done(r) /\ UNCHANGED users
     ELSE \E i \in Ids :
            /\ NextId(i) /\ users' = [users EXCEPT ![i] = Row(e, "admin", "local")]
            /\ req' = [req EXCEPT ![r] = [Idle EXCEPT !.pc = "session", !.user = i, !.owner = e]]
  /\ UNCHANGED <<now, sessions, limiter, pending, started, entra, guesses, restarts, work>>

\* handleLogin: the limiter is asked ...
LetIn(r) ==
  /\ Work /\ At(r, "idle")
  /\ \E allowed \in BOOLEAN, entry \in {limiter, NoEntry} :
       /\ Allowed(allowed, entry) /\ limiter' = entry
       /\ IF allowed THEN req' = [req EXCEPT ![r].pc = "login"] ELSE UNCHANGED req
  /\ UNCHANGED <<now, users, sessions, pending, started, entra, guesses, restarts>>

\* ... the account is read and the password verified: only a local account has
\* one ...
Verify(r) ==
  /\ At(r, "login")
  /\ \/ req' = [req EXCEPT ![r].pc = "wrong"]
     \/ \E i \in Live :
          /\ users[i].provider = "local"
          /\ req' = [req EXCEPT ![r] = [Idle EXCEPT !.pc = "right", !.user = i, !.owner = users[i].email]]
  /\ UNCHANGED <<now, users, sessions, limiter, pending, started, entra, guesses, restarts, work>>

\* ... and the limiter hears of the outcome.
Wrong(r) ==
  /\ At(r, "wrong") /\ Done(r)
  /\ limiter' = Fail /\ guesses' = Append(guesses, now)
  /\ UNCHANGED <<now, users, sessions, pending, started, entra, restarts, work>>

Right(r) ==
  /\ At(r, "right")
  /\ limiter' = NoEntry /\ guesses' = <<>>
  /\ req' = [req EXCEPT ![r].pc = "session"]
  /\ UNCHANGED <<now, users, sessions, pending, started, entra, restarts, work>>

\* setSession: the foreign key refuses an account that is gone.
CreateSession(r) ==
  /\ At(r, "session") /\ Done(r)
  /\ IF req[r].user \notin Live THEN UNCHANGED sessions
     ELSE \E t \in Tokens :
            /\ sessions[t] = NoSession
            /\ \A u \in 1..(t - 1) : sessions[u] # NoSession
            /\ sessions' = [sessions EXCEPT ![t] =
                 [user |-> req[r].user, expires |-> now + SessionTTL, owner |-> req[r].owner,
                  via |-> req[r].via, state |-> req[r].state, stale |-> req[r].stale]]
  /\ UNCHANGED <<now, users, limiter, pending, started, entra, guesses, restarts, work>>

Logout(t) ==
  /\ Valid(t)
  /\ sessions' = [sessions EXCEPT ![t] = NoSession]
  /\ UNCHANGED <<now, users, limiter, pending, started, entra, req, guesses, restarts, work>>

-----------------------------------------------------------------------------
(* Signing in with Microsoft. *)

\* Start forgets the sign-ins that took too long and remembers this one.
EntraStart ==
  /\ Work /\ entra /\ started < MaxStarts /\ started' = started + 1
  /\ pending' = [s \in States |-> IF s = started + 1 THEN now
                                  ELSE IF pending[s] # None /\ now - pending[s] > LoginTTL THEN None
                                  ELSE pending[s]]
  /\ UNCHANGED <<now, users, sessions, limiter, entra, req, guesses, restarts>>

\* Mutant: the state is removed when the sign-in has ended.
StateKept(s) == pending

\* The state goes before anything else.
StateTaken(s) == [pending EXCEPT ![s] = None]

\* The browser comes back, perhaps twice: Finish takes the state, which must be
\* known and recent ...
Finish(r, s) ==
  /\ At(r, "idle") /\ s <= started
  /\ pending' = StateTaken(s)
  /\ IF pending[s] # None /\ now - pending[s] <= LoginTTL
     THEN req' = [req EXCEPT ![r].pc = "exchange", ![r].state = s] ELSE UNCHANGED req
  /\ UNCHANGED <<now, users, sessions, limiter, started, entra, guesses, restarts, work>>

\* ... exchanges the code for the address of a person of the tenant, or fails;
\* that address must be the one of an Entra account: the allow list.
Identified(r) ==
  /\ At(r, "exchange")
  /\ \/ Done(r)
     \/ \E i \in Live :
          /\ users[i].provider = "entra"
          /\ req' = [req EXCEPT ![r] = [Idle EXCEPT !.pc = "session", !.user = i, !.via = "entra",
                                                    !.owner = users[i].email, !.state = req[r].state]]
  /\ UNCHANGED <<now, users, sessions, limiter, pending, started, entra, guesses, restarts, work>>

-----------------------------------------------------------------------------
(* Administration. *)

\* The wrapper lets a write through for an administrator's session; the handler
\* runs after it and does not look again.
Authorize(r, t) ==
  /\ Work /\ At(r, "idle") /\ Valid(t) /\ users[sessions[t].user].role = "admin"
  /\ req' = [req EXCEPT ![r].pc = "admin"]
  /\ UNCHANGED <<now, users, sessions, limiter, pending, started, entra, guesses, restarts>>

\* handleAddUser: the row is the allow list.
AddUser(r, e, role) ==
  /\ At(r, "admin") /\ Done(r)
  /\ IF Taken(e) THEN UNCHANGED users
     ELSE \E i \in Ids : NextId(i) /\ users' = [users EXCEPT ![i] = Row(e, role, "entra")]
  /\ UNCHANGED <<now, sessions, limiter, pending, started, entra, guesses, restarts, work>>

\* SetUserRole, one transaction; an id that is not there changes nothing.
SetUserRole(r, i, role) ==
  /\ At(r, "admin") /\ Done(r)
  /\ IF i \notin Live \/ (role # "admin" /\ LastLocalAdmin(i)) THEN UNCHANGED users
     ELSE users' = [users EXCEPT ![i].role = role]
  /\ UNCHANGED <<now, sessions, limiter, pending, started, entra, guesses, restarts, work>>

\* DeleteUser, one transaction.
DeleteUser(r, i) ==
  /\ At(r, "admin")
  /\ IF i \notin Live \/ LastLocalAdmin(i) THEN Done(r) /\ UNCHANGED <<users, sessions>>
     ELSE /\ users' = [users EXCEPT ![i] = NoUser]
          /\ sessions' = SignedOut(i)
          /\ req' = [q \in Requests |-> IF q = r THEN Idle
                                        ELSE [req[q] EXCEPT !.stale = @ \/ req[q].user = i]]
  /\ UNCHANGED <<now, limiter, pending, started, entra, guesses, restarts, work>>

\* handlePutEntraSettings.
PutEntra(r, on) ==
  /\ At(r, "admin") /\ Done(r) /\ entra' = on
  /\ UNCHANGED <<now, users, sessions, limiter, pending, started, guesses, restarts, work>>

\* A statement fails: the handler answers 500.
StoreFails(r) ==
  /\ req[r].pc \in {"hash", "login", "session", "exchange", "admin"} /\ Done(r)
  /\ UNCHANGED <<now, users, sessions, limiter, pending, started, entra, guesses, restarts, work>>

-----------------------------------------------------------------------------
\* PurgeSessions, every hour.
PurgeSessions ==
  /\ \E t \in Tokens : sessions[t] # NoSession /\ ~Valid(t)
  /\ sessions' = [t \in Tokens |-> IF Valid(t) THEN sessions[t] ELSE NoSession]
  /\ UNCHANGED <<now, users, limiter, pending, started, entra, req, guesses, restarts, work>>

\* A restart forgets the requests, the limiter and the pending sign-ins.
Restart ==
  /\ restarts < MaxRestarts /\ restarts' = restarts + 1
  /\ req' = [r \in Requests |-> Idle] /\ limiter' = NoEntry /\ guesses' = <<>>
  /\ pending' = [s \in States |-> None]
  /\ UNCHANGED <<now, users, sessions, started, entra, work>>

Old(t) == t <= now + 1 - Lockout

\* The clock; failures leave the history as they age.
Tick ==
  /\ now < MaxTime /\ now' = now + 1
  /\ \E m \in 0..Len(guesses) :
       /\ \A i \in 1..m : Old(guesses[i])
       /\ \A i \in (m + 1)..Len(guesses) : ~Old(guesses[i])
       /\ guesses' = SubSeq(guesses, m + 1, Len(guesses))
  /\ UNCHANGED <<users, sessions, limiter, pending, started, entra, req, restarts, work>>

Init ==
  /\ now = 0 /\ users = [i \in Ids |-> NoUser] /\ sessions = [t \in Tokens |-> NoSession]
  /\ limiter = NoEntry /\ pending = [s \in States |-> None] /\ started = 0 /\ entra = FALSE
  /\ req = [r \in Requests |-> Idle] /\ guesses = <<>> /\ restarts = 0 /\ work = 0

SignIn(r) == Setup(r) \/ (\E e \in Emails : CreateUser(r, e)) \/ LetIn(r) \/ Verify(r) \/ Wrong(r)
             \/ Right(r) \/ CreateSession(r) \/ (\E s \in States : Finish(r, s)) \/ Identified(r)

Administer(r) == \/ \E t \in Tokens : Authorize(r, t)
                 \/ \E e \in Emails, role \in Roles : AddUser(r, e, role)
                 \/ \E i \in Ids : DeleteUser(r, i) \/ \E role \in Roles : SetUserRole(r, i, role)
                 \/ \E on \in BOOLEAN : PutEntra(r, on)

Next == (\E r \in Requests : SignIn(r) \/ Administer(r) \/ StoreFails(r))
        \/ (\E t \in Tokens : Logout(t)) \/ EntraStart \/ PurgeSessions \/ Restart \/ Tick

Spec == Init /\ [][Next]_vars

-----------------------------------------------------------------------------
(* Properties. *)

User == [email : Emails \cup {None}, role : Roles, provider : Providers]
Session == [user : Ids \cup {None}, expires : 0..(MaxTime + SessionTTL), owner : Emails \cup {None},
            via : Providers, state : States \cup {None}, stale : BOOLEAN]
Request == [pc : {"idle", "hash", "login", "wrong", "right", "session", "exchange", "admin"},
            user : Ids \cup {None}, owner : Emails \cup {None}, via : Providers,
            state : States \cup {None}, stale : BOOLEAN]

\* The entry of the limiter counts no further than the failures that lock and
\* those of the attempts let in before.
TypeOK ==
  /\ users \in [Ids -> User] /\ sessions \in [Tokens -> Session] /\ req \in [Requests -> Request]
  /\ limiter \in [n : 0..(MaxFailures + Cardinality(Requests) - 1), at : 0..MaxTime]
  /\ guesses \in Seq(0..MaxTime) /\ now \in 0..MaxTime
  /\ pending \in [States -> (0..MaxTime) \cup {None}] /\ started \in 0..MaxStarts
  /\ entra \in BOOLEAN /\ restarts \in 0..MaxRestarts /\ work \in 0..MaxWork

\* "The last local admin cannot be removed or demoted" (users.go:25), whatever
\* two set-ups or two administrators do at once: once there is an account there
\* is a local administrator, the way in when Microsoft is down.
LocalAdminStays == Live # {} => LocalAdmins # {}

\* A session acts for the account of the person who signed in, by the provider
\* of that account: a removed person is signed out at once (users.go:140), even
\* when the id is given to another.  Excepted is a session opened for an id
\* whose account was removed after the sign-in had read it.
ActsForItsOwner ==
  \A t \in Tokens : sessions[t] # NoSession =>
    /\ sessions[t].user \in Live
    /\ ~sessions[t].stale => /\ users[sessions[t].user].email = sessions[t].owner
                             /\ users[sessions[t].user].provider = sessions[t].via

\* A state opens one session at most (entra.go:184).
OneSessionPerState ==
  \A t, u \in Tokens : t # u /\ sessions[t].state # None => sessions[t].state # sessions[u].state

SessionsAreTheirs == ActsForItsOwner /\ OneSessionPerState

\* Between two successes no Lockout of time sees more failures than the limit
\* and the attempts that were let in before it was reached.
GuessesBounded == Len(guesses) <= MaxFailures + Cardinality(Requests) - 1
=============================================================================

--------------------------- MODULE AccountsProofs ----------------------------
(***************************************************************************)
(* Proofs about Accounts: types; the local administrator stays; sessions   *)
(* act for the person who signed in, one per sign-in; failures are bounded. *)
(*                                                                          *)
(* LimiterInv: the entry of the limiter counts every recent failure, and    *)
(* with the attempts under way stays below the limit.                       *)
(* AdminInv: an administrative request is one of a hub that has accounts,   *)
(* and an account has an address.                                           *)
(* OwnerInv: a request about to open a session knows the account as it is,  *)
(* unless the account was removed since.                                    *)
(* StateInv: a sign-in is pending, with one request, or has ended.          *)
(***************************************************************************)
EXTENDS Accounts, FiniteSetTheorems, SequenceTheorems, TLAPS

InFlight == {r \in Requests : req[r].pc \in {"login", "wrong"}}

LimiterInv ==
  /\ limiter.n + Cardinality(InFlight) <= MaxFailures - 1 + Cardinality(Requests)
  /\ Len(guesses) <= limiter.n
  /\ \A i \in 1..Len(guesses) :
       guesses[i] \in (now - Lockout + 1)..now /\ (limiter.n >= MaxFailures => guesses[i] <= limiter.at)

AdminInv ==
  /\ LocalAdminStays
  /\ \A i \in Live : users[i].email # None
  /\ \A r \in Requests : req[r].pc = "admin" => Live # {}

Knows(r) ==
  req[r].pc \in {"right", "session"} /\ ~req[r].stale =>
    /\ req[r].user \in Live
    /\ users[req[r].user].email = req[r].owner /\ users[req[r].user].provider = req[r].via

OwnerInv == ActsForItsOwner /\ \A r \in Requests : Knows(r)

StateInv ==
  /\ OneSessionPerState
  /\ \A s \in States : pending[s] # None => s <= started
  /\ \A r \in Requests : req[r].state # None =>
       /\ req[r].state <= started /\ pending[req[r].state] = None
       /\ \A q \in Requests : q # r => req[q].state # req[r].state
       /\ \A t \in Tokens : sessions[t].state # req[r].state
  /\ \A t \in Tokens : sessions[t].state # None =>
       sessions[t].state <= started /\ pending[sessions[t].state] = None

-----------------------------------------------------------------------------
(* Types. *)

\* What the constants are.
LEMMA Constants ==
  /\ MaxFailures \in Nat /\ MaxFailures >= 1 /\ Lockout \in Nat /\ Lockout >= 1
  /\ SessionTTL \in Nat /\ LoginTTL \in Nat /\ MaxUsers \in Nat /\ MaxSessions \in Nat
  /\ MaxStarts \in Nat /\ MaxTime \in Nat /\ MaxRestarts \in Nat /\ MaxWork \in Nat
  /\ Cardinality(Requests) \in Nat /\ Cardinality(Requests) >= 1
  /\ None \notin Ids /\ None \notin States /\ None \notin 0..MaxTime
<1>1. /\ MaxFailures \in Nat \ {0} /\ Lockout \in Nat \ {0}
      /\ SessionTTL \in Nat /\ LoginTTL \in Nat /\ MaxUsers \in Nat /\ MaxSessions \in Nat
      /\ MaxStarts \in Nat /\ MaxTime \in Nat /\ MaxRestarts \in Nat /\ MaxWork \in Nat
      /\ None \notin Nat
  BY AccountsAssumption
<1>2. Cardinality(Requests) \in Nat /\ Cardinality(Requests) # 0
  BY AccountsAssumption, FS_CardinalityType, FS_EmptySet
<1> QED
  BY <1>1, <1>2 DEF Ids, States

\* An account, a session and a request have their types.
LEMMA TypesHold ==
  ASSUME TypeOK
  PROVE  /\ \A i \in Ids : users[i] \in User
         /\ \A t \in Tokens : sessions[t] \in Session
         /\ \A r \in Requests : req[r] \in Request
         /\ DOMAIN users = Ids /\ DOMAIN sessions = Tokens /\ DOMAIN req = Requests
  BY DEF TypeOK

\* The empty values are typed.
LEMMA Plain ==
  /\ NoUser \in User /\ NoSession \in Session /\ Idle \in Request
  /\ NoEntry \in [n : 0..(MaxFailures + Cardinality(Requests) - 1), at : 0..MaxTime]
  BY Constants DEF NoUser, NoSession, Idle, NoEntry, User, Session, Request, Roles, Providers

Steps == {"idle", "hash", "login", "wrong", "right", "session", "exchange", "admin"}

\* What the steps do to a request.
LEMMA RequestTyped ==
  ASSUME TypeOK, NEW r \in Requests
  PROVE  /\ [req EXCEPT ![r] = Idle] \in [Requests -> Request]
         /\ \A p \in Steps : [req EXCEPT ![r].pc = p] \in [Requests -> Request]
         /\ \A p \in Steps, s \in States : [req EXCEPT ![r].pc = p, ![r].state = s] \in [Requests -> Request]
         /\ req \in [Requests -> Request]
<1>1. req \in [Requests -> Request] /\ req[r] \in Request
  BY DEF TypeOK
<1>2. [req EXCEPT ![r] = Idle] \in [Requests -> Request]
  BY <1>1, Plain
<1>3. ASSUME NEW p \in Steps PROVE [req EXCEPT ![r].pc = p] \in [Requests -> Request]
  <2>1. [req[r] EXCEPT !.pc = p] \in Request
    BY <1>1 DEF Request, Steps
  <2> QED BY <1>1, <2>1
<1>4. ASSUME NEW p \in Steps, NEW s \in States
      PROVE  [req EXCEPT ![r].pc = p, ![r].state = s] \in [Requests -> Request]
  <2>1. [req[r] EXCEPT !.pc = p] \in Request
    BY <1>1 DEF Request, Steps
  <2>2. [[req[r] EXCEPT !.pc = p] EXCEPT !.state = s] \in Request
    BY <2>1 DEF Request
  <2> QED BY <1>1, <2>2
<1> QED
  BY <1>1, <1>2, <1>3, <1>4

\* A request that creates an account goes on typed (CreateUser).
LEMMA CreatedTyped ==
  ASSUME TypeOK, NEW r \in Requests, NEW p \in Steps, NEW i \in Ids, NEW e \in Emails \cup {None}
  PROVE  [req EXCEPT ![r] = [Idle EXCEPT !.pc = p, !.user = i, !.owner = e]] \in [Requests -> Request]
<1>1. [Idle EXCEPT !.pc = p, !.user = i, !.owner = e] \in Request
  BY DEF Request, Idle, Providers, Steps
<1> QED
  BY <1>1 DEF TypeOK

\* A request that Microsoft identified goes on typed (entra callback).
LEMMA IdentifiedTyped ==
  ASSUME TypeOK, NEW r \in Requests, NEW i \in Ids, NEW e \in Emails \cup {None}, NEW s \in States \cup {None}
  PROVE  [req EXCEPT ![r] = [Idle EXCEPT !.pc = "session", !.user = i, !.via = "entra", !.owner = e, !.state = s]]
           \in [Requests -> Request]
<1>1. [Idle EXCEPT !.pc = "session", !.user = i, !.via = "entra", !.owner = e, !.state = s] \in Request
  BY DEF Request, Idle, Providers
<1> QED
  BY <1>1 DEF TypeOK

\* Work is counted up to its bound.
LEMMA WorkTyped ==
  ASSUME TypeOK, Work
  PROVE  work' \in 0..MaxWork
BY Constants DEF TypeOK, Work

\* A row of the table has an address.
LEMMA RowTyped ==
  ASSUME TypeOK, NEW i \in Live
  PROVE  users[i] \in User
  BY TypesHold DEF Live

\* The attempts under way are no more than the requests.
LEMMA InFlightFinite ==
  /\ IsFiniteSet(InFlight) /\ Cardinality(InFlight) \in Nat
  /\ Cardinality(InFlight) <= Cardinality(Requests)
  /\ \A r \in InFlight : Cardinality(InFlight) >= 1
<1>1. InFlight \subseteq Requests /\ IsFiniteSet(Requests)
  BY AccountsAssumption DEF InFlight
<1>2. IsFiniteSet(InFlight) /\ Cardinality(InFlight) <= Cardinality(Requests)
  BY <1>1, FS_Subset
<1>3. Cardinality(InFlight) \in Nat
  BY <1>2, FS_CardinalityType
<1>4. ASSUME NEW r \in InFlight PROVE Cardinality(InFlight) # 0
  BY <1>2, <1>4, FS_EmptySet
<1> QED
  BY <1>2, <1>3, <1>4

\* Every step keeps every variable typed; the entry needs LimiterInv.
LEMMA TypesStay ==
  ASSUME TypeOK, LimiterInv, [Next]_vars
  PROVE  TypeOK'
<1> USE Constants
<1>1. ASSUME NEW r \in Requests, SignIn(r) PROVE TypeOK'
  <2>1. CASE Setup(r)
    <3>1. req' \in [Requests -> Request]
      BY <2>1, RequestTyped DEF Setup, Steps
    <3> QED BY <2>1, <3>1, WorkTyped DEF Setup, TypeOK
  <2>2. ASSUME NEW e \in Emails, CreateUser(r, e) PROVE TypeOK'
    <3>1. req' \in [Requests -> Request]
      <4>1. CASE Done(r)
        BY <4>1, RequestTyped DEF Done
      <4>2. ASSUME NEW i \in Ids,
                   req' = [req EXCEPT ![r] = [Idle EXCEPT !.pc = "session", !.user = i, !.owner = e]]
            PROVE  req' \in [Requests -> Request]
        <5>1. "session" \in Steps
          BY DEF Steps
        <5> QED BY <4>2, <5>1, CreatedTyped
      <4> QED BY <2>2, <4>1, <4>2 DEF CreateUser
    <3>2. Row(e, "admin", "local") \in User
      BY DEF Row, User, Roles, Providers
    <3>3. users' \in [Ids -> User]
      BY <2>2, <3>2 DEF CreateUser, TypeOK
    <3> QED BY <2>2, <3>1, <3>3 DEF CreateUser, TypeOK
  <2>3. CASE LetIn(r)
    <3>1. req' \in [Requests -> Request]
      <4>1. "login" \in Steps
        BY DEF Steps
      <4> QED BY <2>3, <4>1, RequestTyped DEF LetIn
    <3>2. limiter' \in {limiter, NoEntry}
      BY <2>3 DEF LetIn
    <3> QED BY <2>3, <3>1, <3>2, WorkTyped, Plain DEF LetIn, TypeOK
  <2>4. CASE Verify(r)
    <3>1. req' \in [Requests -> Request]
      <4>1. ASSUME NEW i \in Live PROVE users[i].email \in Emails \cup {None} /\ i \in Ids
        BY <4>1, RowTyped DEF User, Live
      <4>2. "wrong" \in Steps /\ "right" \in Steps
        BY DEF Steps
      <4>3. ASSUME NEW i \in Live,
                   req' = [req EXCEPT ![r] = [Idle EXCEPT !.pc = "right", !.user = i, !.owner = users[i].email]]
            PROVE  req' \in [Requests -> Request]
        BY <4>1, <4>2, <4>3, CreatedTyped
      <4>4. [req EXCEPT ![r].pc = "wrong"] \in [Requests -> Request]
        BY <4>2, RequestTyped
      <4> QED BY <2>4, <4>3, <4>4 DEF Verify
    <3> QED BY <2>4, <3>1 DEF Verify, TypeOK
  <2>5. CASE Wrong(r)
    <3>1. limiter' \in [n : 0..(MaxFailures + Cardinality(Requests) - 1), at : 0..MaxTime]
      <4>1. Cardinality(InFlight) \in Nat /\ Cardinality(InFlight) >= 1
        BY <2>5, InFlightFinite DEF Wrong, At, InFlight
      <4>2. limiter.n + 1 <= MaxFailures + Cardinality(Requests) - 1
        BY <4>1 DEF LimiterInv, TypeOK
      <4> QED BY <2>5, <4>2 DEF Wrong, Fail, TypeOK
    <3>2. guesses' \in Seq(0..MaxTime)
      BY <2>5, AppendProperties DEF Wrong, TypeOK
    <3>3. req' \in [Requests -> Request]
      BY <2>5, RequestTyped, Plain DEF Wrong, Done, TypeOK
    <3> QED BY <2>5, <3>1, <3>2, <3>3 DEF Wrong, TypeOK
  <2>6. CASE Right(r)
    <3>1. guesses' \in Seq(0..MaxTime)
      BY <2>6, EmptySeq DEF Right
    <3>2. req' \in [Requests -> Request]
      BY <2>6, RequestTyped DEF Right, Steps
    <3> QED BY <2>6, <3>1, <3>2, Plain DEF Right, TypeOK
  <2>7. CASE CreateSession(r)
    <3>1. req' \in [Requests -> Request]
      BY <2>7, Plain DEF CreateSession, Done, TypeOK
    <3>2. [user |-> req[r].user, expires |-> now + SessionTTL, owner |-> req[r].owner,
           via |-> req[r].via, state |-> req[r].state, stale |-> req[r].stale] \in Session
      BY TypesHold DEF Request, Session, TypeOK
    <3>3. sessions' \in [Tokens -> Session]
      BY <2>7, <3>2 DEF CreateSession, TypeOK
    <3> QED BY <2>7, <3>1, <3>3 DEF CreateSession, TypeOK
  <2>8. ASSUME NEW s \in States, Finish(r, s) PROVE TypeOK'
    <3>1. req' \in [Requests -> Request]
      <4>1. "exchange" \in Steps
        BY DEF Steps
      <4> QED BY <2>8, <4>1, RequestTyped DEF Finish
    <3>2. pending' \in [States -> (0..MaxTime) \cup {None}]
      BY <2>8 DEF Finish, StateTaken, TypeOK
    <3> QED BY <2>8, <3>1, <3>2 DEF Finish, TypeOK
  <2>9. CASE Identified(r)
    <3>1. req' \in [Requests -> Request]
      <4>1. ASSUME NEW i \in Live PROVE users[i].email \in Emails \cup {None} /\ i \in Ids
        BY <4>1, RowTyped DEF User, Live
      <4>2. req[r].state \in States \cup {None}
        BY TypesHold DEF Request
      <4>3. CASE Done(r)
        BY <4>3, RequestTyped DEF Done
      <4>4. ASSUME NEW i \in Live,
                   req' = [req EXCEPT ![r] = [Idle EXCEPT !.pc = "session", !.user = i, !.via = "entra",
                                              !.owner = users[i].email, !.state = req[r].state]]
            PROVE  req' \in [Requests -> Request]
        BY <4>1, <4>2, <4>4, IdentifiedTyped
      <4> QED BY <2>9, <4>3, <4>4 DEF Identified
    <3> QED BY <2>9, <3>1 DEF Identified, TypeOK
  <2> QED BY <1>1, <2>1, <2>2, <2>3, <2>4, <2>5, <2>6, <2>7, <2>8, <2>9 DEF SignIn
<1>2. ASSUME NEW r \in Requests, Administer(r) PROVE TypeOK'
  <2>1. ASSUME NEW t \in Tokens, Authorize(r, t) PROVE TypeOK'
    <3>1. req' \in [Requests -> Request]
      BY <2>1, RequestTyped DEF Authorize, Steps
    <3> QED BY <2>1, <3>1, WorkTyped DEF Authorize, TypeOK
  <2>2. ASSUME NEW e \in Emails, NEW role \in Roles, AddUser(r, e, role) PROVE TypeOK'
    <3>1. users' \in [Ids -> User]
      BY <2>2 DEF AddUser, Row, TypeOK, User, Providers
    <3> QED BY <2>2, <3>1, Plain DEF AddUser, Done, TypeOK
  <2>3. ASSUME NEW i \in Ids, DeleteUser(r, i) PROVE TypeOK'
    <3>1. req' \in [Requests -> Request]
      <4>1. ASSUME NEW q \in Requests PROVE [req[q] EXCEPT !.stale = @ \/ req[q].user = i] \in Request
        BY TypesHold DEF Request
      <4> QED BY <2>3, <4>1, Plain, RequestTyped DEF DeleteUser, Done
    <3>2. users' \in [Ids -> User]
      BY <2>3, Plain DEF DeleteUser, TypeOK
    <3>3. sessions' \in [Tokens -> Session]
      BY <2>3, Plain DEF DeleteUser, SignedOut, TypeOK
    <3> QED BY <2>3, <3>1, <3>2, <3>3 DEF DeleteUser, TypeOK
  <2>4. ASSUME NEW i \in Ids, NEW role \in Roles, SetUserRole(r, i, role) PROVE TypeOK'
    <3>1. users' \in [Ids -> User]
      <4>1. [users[i] EXCEPT !.role = role] \in User
        BY TypesHold DEF User
      <4> QED BY <2>4, <4>1 DEF SetUserRole, TypeOK
    <3> QED BY <2>4, <3>1, Plain DEF SetUserRole, Done, TypeOK
  <2>5. ASSUME NEW on \in BOOLEAN, PutEntra(r, on) PROVE TypeOK'
    BY <2>5, Plain DEF PutEntra, Done, TypeOK
  <2> QED BY <1>2, <2>1, <2>2, <2>3, <2>4, <2>5 DEF Administer
<1>3. ASSUME NEW r \in Requests, StoreFails(r) PROVE TypeOK'
  BY <1>3, Plain DEF StoreFails, Done, TypeOK
<1>4. ASSUME NEW t \in Tokens, Logout(t) PROVE TypeOK'
  BY <1>4, Plain DEF Logout, TypeOK
<1>5. CASE EntraStart
  <2>1. pending' \in [States -> (0..MaxTime) \cup {None}]
    BY <1>5 DEF EntraStart, TypeOK
  <2> QED BY <1>5, <2>1, WorkTyped DEF EntraStart, TypeOK
<1>6. CASE PurgeSessions
  <2>1. sessions' \in [Tokens -> Session]
    BY <1>6, Plain DEF PurgeSessions, TypeOK
  <2> QED BY <1>6, <2>1 DEF PurgeSessions, TypeOK
<1>7. CASE Restart
  <2>1. guesses' \in Seq(0..MaxTime)
    BY <1>7, EmptySeq DEF Restart
  <2> QED BY <1>7, <2>1, Plain DEF Restart, TypeOK
<1>8. CASE Tick
  <2>1. guesses \in Seq(0..MaxTime) /\ Len(guesses) \in Nat
    BY LenProperties DEF TypeOK
  <2>2. PICK m \in 0..Len(guesses) : guesses' = SubSeq(guesses, m + 1, Len(guesses))
    BY <1>8 DEF Tick
  <2>3. guesses' \in Seq(0..MaxTime)
    <3>1. m + 1 \in 1..(Len(guesses) + 1) /\ Len(guesses) \in m..Len(guesses)
      BY <2>1, <2>2
    <3> QED BY <2>1, <2>2, <3>1, SubSeqProperties
  <2> QED BY <1>8, <2>3 DEF Tick, TypeOK
<1>9. CASE UNCHANGED vars
  BY <1>9 DEF vars, TypeOK
<1> QED BY <1>1, <1>2, <1>3, <1>4, <1>5, <1>6, <1>7, <1>8, <1>9 DEF Next

-----------------------------------------------------------------------------
(* The limiter. *)

\* A step of r in which it is not let in leaves no more attempts under way.
LEMMA FewerInFlight ==
  ASSUME NEW r \in Requests, DOMAIN req = Requests,
         \A q \in Requests \ {r} : req'[q].pc = req[q].pc,
         req[r].pc \in {"login", "wrong"} \/ req'[r].pc \notin {"login", "wrong"}
  PROVE  /\ Cardinality(InFlight') \in Nat /\ Cardinality(InFlight') <= Cardinality(InFlight)
         /\ r \in InFlight /\ r \notin InFlight' => Cardinality(InFlight') + 1 <= Cardinality(InFlight)
<1>1. InFlight' \subseteq InFlight
  BY DEF InFlight
<1>2. IsFiniteSet(InFlight) /\ Cardinality(InFlight) \in Nat
  BY InFlightFinite
<1>3. IsFiniteSet(InFlight') /\ Cardinality(InFlight') \in Nat /\ Cardinality(InFlight') <= Cardinality(InFlight)
  BY <1>1, <1>2, FS_Subset, FS_CardinalityType
<1>4. r \in InFlight /\ r \notin InFlight' => Cardinality(InFlight') # Cardinality(InFlight)
  BY <1>1, <1>2, FS_Subset
<1> QED
  BY <1>2, <1>3, <1>4

\* A step that leaves the limiter and the attempts under way alone.
LEMMA LimiterKept ==
  ASSUME LimiterInv, UNCHANGED <<limiter, guesses, now>>, TypeOK,
         Cardinality(InFlight') \in Nat, Cardinality(InFlight') <= Cardinality(InFlight)
  PROVE  LimiterInv'
BY Constants, InFlightFinite DEF LimiterInv, TypeOK

\* Every other step is one of a single request, and lets nobody in.
LEMMA OtherRequests ==
  ASSUME TypeOK, NEW r \in Requests,
         \/ Setup(r) \/ Verify(r) \/ CreateSession(r) \/ Identified(r) \/ StoreFails(r)
         \/ \E e \in Emails : CreateUser(r, e)
         \/ \E s \in States : Finish(r, s)
         \/ Administer(r)
  PROVE  /\ \A q \in Requests \ {r} : req'[q].pc = req[q].pc
         /\ req[r].pc \in {"login", "wrong"} \/ req'[r].pc \notin {"login", "wrong"}
<1> DEFINE Goal == /\ \A q \in Requests \ {r} : req'[q].pc = req[q].pc
                   /\ req[r].pc \in {"login", "wrong"} \/ req'[r].pc \notin {"login", "wrong"}
<1>0. DOMAIN req = Requests /\ \A q \in Requests : req[q] \in Request
  BY TypesHold
<1>1. Done(r) => Goal
  BY <1>0 DEF Done, Idle
<1>2. CASE Setup(r)
  BY <1>0, <1>2 DEF Setup, Request
<1>3. CASE Verify(r)
  <2>1. req[r].pc = "login" /\ \A q \in Requests \ {r} : req'[q] = req[q]
    BY <1>0, <1>3 DEF Verify, At
  <2> QED BY <2>1
<1>4. ASSUME NEW e \in Emails, CreateUser(r, e) PROVE Goal
  BY <1>0, <1>1, <1>4 DEF CreateUser, Idle
<1>5. CASE CreateSession(r) \/ StoreFails(r)
  BY <1>1, <1>5 DEF CreateSession, StoreFails
<1>6. CASE Identified(r)
  BY <1>0, <1>1, <1>6 DEF Identified, Idle
<1>7. ASSUME NEW s \in States, Finish(r, s) PROVE Goal
  <2>1. CASE UNCHANGED req
    BY <1>7, <2>1 DEF Finish, At
  <2>2. CASE req' = [req EXCEPT ![r].pc = "exchange", ![r].state = s]
    BY <1>0, <2>2 DEF Request
  <2> QED BY <1>7, <2>1, <2>2 DEF Finish
<1>8. ASSUME NEW t \in Tokens, Authorize(r, t) PROVE Goal
  BY <1>0, <1>8 DEF Authorize, Request
<1>9. ASSUME NEW i \in Ids, DeleteUser(r, i) PROVE Goal
  <2>1. CASE Done(r)
    BY <1>1, <2>1
  <2>2. CASE req' = [q \in Requests |-> IF q = r THEN Idle ELSE [req[q] EXCEPT !.stale = @ \/ req[q].user = i]]
    BY <1>0, <2>2 DEF Idle, Request
  <2> QED BY <1>9, <2>1, <2>2 DEF DeleteUser
<1>10. ASSUME Administer(r), \A t \in Tokens : ~Authorize(r, t), \A i \in Ids : ~DeleteUser(r, i) PROVE Goal
  BY <1>1, <1>10 DEF Administer, AddUser, SetUserRole, PutEntra
<1> QED BY <1>2, <1>3, <1>4, <1>5, <1>6, <1>7, <1>8, <1>9, <1>10

\* The limiter forgets no failure of its lockout, and lets in no more than its limit.
LEMMA LimiterStays ==
  ASSUME TypeOK, LimiterInv, [Next]_vars
  PROVE  LimiterInv'
<1> USE Constants
<1>0. /\ limiter.n \in Nat /\ limiter.at \in Nat /\ now \in Nat /\ Len(guesses) \in Nat
      /\ DOMAIN req = Requests /\ guesses \in Seq(Nat)
      /\ \A i \in 1..Len(guesses) : guesses[i] \in Nat
  BY TypesHold, LenProperties DEF TypeOK
<1>1. ASSUME NEW r \in Requests, LetIn(r) PROVE LimiterInv'
  <2>1. PICK allowed \in BOOLEAN, entry \in {limiter, NoEntry} :
          /\ Allowed(allowed, entry) /\ limiter' = entry
          /\ IF allowed THEN req' = [req EXCEPT ![r].pc = "login"] ELSE UNCHANGED req
    BY <1>1 DEF LetIn
  <2>2. InFlight' \subseteq Requests /\ UNCHANGED <<guesses, now>>
    BY <1>1 DEF LetIn, InFlight
  <2>3. Cardinality(InFlight') \in Nat /\ Cardinality(InFlight') <= Cardinality(Requests)
    BY <2>2, AccountsAssumption, FS_Subset, FS_CardinalityType
  <2>4. CASE limiter.n < MaxFailures
    <3>1. limiter' = limiter
      BY <2>1, <2>4 DEF Allowed
    <3> QED BY <1>0, <2>2, <2>3, <2>4, <3>1 DEF LimiterInv
  <2>5. CASE limiter.n >= MaxFailures /\ now - limiter.at >= Lockout
    <3>1. limiter' = NoEntry
      BY <1>0, <2>1, <2>5 DEF Allowed
    <3>2. Len(guesses) = 0
      <4>1. ASSUME Len(guesses) # 0 PROVE FALSE
        <5>1. guesses[1] \in (now - Lockout + 1)..now /\ guesses[1] <= limiter.at
          BY <1>0, <2>5, <4>1 DEF LimiterInv
        <5> QED BY <1>0, <2>5, <5>1
      <4> QED BY <4>1
    <3>3. limiter'.n = 0
      BY <3>1 DEF NoEntry
    <3>4. Len(guesses') = 0
      BY <2>2, <3>2
    <3> QED BY <2>3, <3>3, <3>4 DEF LimiterInv
  <2>6. CASE limiter.n >= MaxFailures /\ ~(now - limiter.at >= Lockout)
    <3>1. limiter' = limiter /\ req' = req
      BY <1>0, <2>1, <2>6 DEF Allowed
    <3>2. InFlight' = InFlight
      BY <3>1 DEF InFlight
    <3> QED BY <2>2, <3>1, <3>2 DEF LimiterInv
  <2> QED BY <1>0, <2>4, <2>5, <2>6
<1>2. ASSUME NEW r \in Requests, Wrong(r) PROVE LimiterInv'
  <2>1. /\ \A q \in Requests \ {r} : req'[q].pc = req[q].pc
        /\ req[r].pc = "wrong" /\ req'[r].pc = "idle"
    BY <1>0, <1>2 DEF Wrong, Done, At, Idle
  <2>2. r \in InFlight /\ r \notin InFlight'
    BY <2>1 DEF InFlight
  <2>3. Cardinality(InFlight') \in Nat /\ Cardinality(InFlight') + 1 <= Cardinality(InFlight)
    BY <1>0, <2>1, <2>2, FewerInFlight
  <2>4. limiter'.n = limiter.n + 1 /\ now' = now
    BY <1>2 DEF Wrong, Fail
  <2>5. limiter.n + 1 >= MaxFailures => limiter'.at = now
    BY <1>2 DEF Wrong, Fail
  <2>6. guesses' = Append(guesses, now)
    BY <1>2 DEF Wrong
  <2>7. /\ Len(guesses') = Len(guesses) + 1 /\ guesses'[Len(guesses) + 1] = now
        /\ \A i \in 1..Len(guesses) : guesses'[i] = guesses[i]
    BY <1>0, <2>6, AppendProperties
  <2>8. limiter'.n + Cardinality(InFlight') <= MaxFailures - 1 + Cardinality(Requests)
    BY <1>0, <2>3, <2>4, InFlightFinite DEF LimiterInv
  <2>9. ASSUME NEW i \in 1..Len(guesses')
        PROVE  guesses'[i] \in (now' - Lockout + 1)..now' /\ (limiter'.n >= MaxFailures => guesses'[i] <= limiter'.at)
    <3>1. CASE i = Len(guesses) + 1
      BY <1>0, <2>4, <2>5, <2>7, <3>1
    <3>2. CASE i \in 1..Len(guesses)
      <4>1. guesses'[i] = guesses[i] /\ guesses[i] \in (now - Lockout + 1)..now
        BY <2>7, <3>2 DEF LimiterInv
      <4> QED BY <1>0, <2>4, <2>5, <4>1
    <3> QED BY <1>0, <2>7, <3>1, <3>2
  <2> QED BY <1>0, <2>4, <2>7, <2>8, <2>9 DEF LimiterInv
<1>3. ASSUME NEW r \in Requests, Right(r) PROVE LimiterInv'
  <2>1. limiter'.n = 0 /\ Len(guesses') = 0
    BY <1>3, EmptySeq DEF Right, NoEntry
  <2>2. InFlight' \subseteq Requests
    BY DEF InFlight, Right
  <2>3. Cardinality(InFlight') \in Nat /\ Cardinality(InFlight') <= Cardinality(Requests)
    BY <2>2, AccountsAssumption, FS_Subset, FS_CardinalityType
  <2> QED BY <2>1, <2>3 DEF LimiterInv
<1>4. ASSUME NEW r \in Requests,
             \/ Setup(r) \/ Verify(r) \/ CreateSession(r) \/ Identified(r) \/ StoreFails(r)
             \/ \E e \in Emails : CreateUser(r, e)
             \/ \E s \in States : Finish(r, s)
             \/ Administer(r)
      PROVE  LimiterInv'
  <2>1. UNCHANGED <<limiter, guesses, now>>
    BY <1>4 DEF Setup, Verify, CreateSession, Identified, StoreFails, CreateUser, Finish, Administer,
                Authorize, AddUser, SetUserRole, DeleteUser, PutEntra
  <2>2. /\ \A q \in Requests \ {r} : req'[q].pc = req[q].pc
        /\ req[r].pc \in {"login", "wrong"} \/ req'[r].pc \notin {"login", "wrong"}
    BY <1>4, OtherRequests
  <2> QED BY <1>0, <2>1, <2>2, FewerInFlight, LimiterKept
<1>5. ASSUME UNCHANGED <<limiter, guesses, now, req>> PROVE LimiterInv'
  BY <1>5 DEF LimiterInv, InFlight
<1>6. CASE Restart
  <2>1. limiter'.n = 0 /\ Len(guesses') = 0
    BY <1>6, EmptySeq DEF Restart, NoEntry
  <2>2. InFlight' \subseteq Requests
    BY DEF InFlight
  <2>3. Cardinality(InFlight') \in Nat /\ Cardinality(InFlight') <= Cardinality(Requests)
    BY <2>2, AccountsAssumption, FS_Subset, FS_CardinalityType
  <2> QED BY <2>1, <2>3 DEF LimiterInv
<1>7. CASE Tick
  <2>1. now' = now + 1 /\ UNCHANGED <<limiter, req>>
    BY <1>7 DEF Tick
  <2>2. PICK m \in 0..Len(guesses) :
          /\ \A i \in (m + 1)..Len(guesses) : ~Old(guesses[i])
          /\ guesses' = SubSeq(guesses, m + 1, Len(guesses))
    BY <1>7 DEF Tick
  <2>3. /\ Len(guesses') <= Len(guesses) /\ Len(guesses') = Len(guesses) - m
        /\ \A i \in 1..Len(guesses') : guesses'[i] = guesses[m + i]
    <3>1. /\ Len(guesses') = IF m + 1 <= Len(guesses) THEN Len(guesses) - (m + 1) + 1 ELSE 0
          /\ \A i \in 1..(Len(guesses) - (m + 1) + 1) : guesses'[i] = guesses[(m + 1) + i - 1]
      BY <1>0, <2>2, SubSeqProperties
    <3> QED BY <1>0, <2>2, <3>1
  <2>4. ASSUME NEW i \in 1..Len(guesses')
        PROVE  guesses'[i] \in (now' - Lockout + 1)..now' /\ (limiter'.n >= MaxFailures => guesses'[i] <= limiter'.at)
    <3>1. m + i \in 1..Len(guesses) /\ m + i \in (m + 1)..Len(guesses) /\ guesses'[i] = guesses[m + i]
      BY <1>0, <2>2, <2>3
    <3>2. ~(guesses[m + i] <= now + 1 - Lockout)
      BY <2>2, <3>1 DEF Old
    <3>3. guesses[m + i] \in (now - Lockout + 1)..now /\ (limiter.n >= MaxFailures => guesses[m + i] <= limiter.at)
      BY <3>1 DEF LimiterInv
    <3> QED BY <1>0, <2>1, <3>1, <3>2, <3>3
  <2>5. InFlight' = InFlight
    BY <2>1 DEF InFlight
  <2>6. /\ limiter'.n + Cardinality(InFlight') <= MaxFailures - 1 + Cardinality(Requests)
        /\ Len(guesses') <= limiter'.n
    BY <1>0, <2>1, <2>3, <2>5 DEF LimiterInv
  <2> QED BY <2>4, <2>6 DEF LimiterInv
<1> QED BY <1>1, <1>2, <1>3, <1>4, <1>5, <1>6, <1>7
        DEF Next, SignIn, Logout, EntraStart, PurgeSessions, vars

-----------------------------------------------------------------------------
(* The local administrator. *)

\* Any other step: the accounts are as they were, and an administrative request
\* that is new is one of a hub that has accounts.
LEMMA AdminKept ==
  ASSUME AdminInv, UNCHANGED users, \A q \in Requests : req'[q].pc = "admin" => Live # {}
  PROVE  AdminInv'
BY DEF AdminInv, LocalAdminStays, LocalAdmins, Live

\* No write leaves the accounts without a local administrator (users.go).
LEMMA AdminStays ==
  ASSUME TypeOK, AdminInv, ActsForItsOwner, [Next]_vars
  PROVE  AdminInv'
<1> USE Constants
<1>0. /\ DOMAIN req = Requests /\ DOMAIN users = Ids /\ Live \subseteq Ids
      /\ \A q \in Requests : req[q].pc = "admin" => Live # {}
      /\ Idle.pc # "admin" /\ NoUser.role # "admin" /\ NoUser.email = None
  BY TypesHold DEF AdminInv, Idle, NoUser, Live
<1>1. ASSUME NEW r \in Requests, SignIn(r), UNCHANGED users PROVE AdminInv'
  <2> DEFINE NoNew == \A q \in Requests : req'[q].pc = "admin" => req[q].pc = "admin"
  <2>1. Done(r) => NoNew
    BY <1>0 DEF Done
  <2>2. ASSUME Setup(r) \/ LetIn(r) PROVE NoNew
    BY <1>0, <2>2, TypesHold DEF Setup, LetIn, Request
  <2>3. ASSUME Verify(r) PROVE NoNew
    <3>1. /\ \A q \in Requests \ {r} : req'[q] = req[q]
          /\ req'[r].pc \in {"wrong", "right"}
      <4>1. ASSUME req' = [req EXCEPT ![r].pc = "wrong"]
            PROVE  (\A q \in Requests \ {r} : req'[q] = req[q]) /\ req'[r].pc = "wrong"
        BY <1>0, <4>1, TypesHold DEF Request
      <4>2. ASSUME NEW i \in Live,
                   req' = [req EXCEPT ![r] = [Idle EXCEPT !.pc = "right", !.user = i, !.owner = users[i].email]]
            PROVE  (\A q \in Requests \ {r} : req'[q] = req[q]) /\ req'[r].pc = "right"
        BY <1>0, <4>2 DEF Idle
      <4> QED BY <2>3, <4>1, <4>2 DEF Verify
    <3> QED BY <3>1
  <2>4. ASSUME Wrong(r) \/ CreateSession(r) PROVE NoNew
    BY <2>1, <2>4 DEF Wrong, CreateSession
  <2>5. ASSUME Right(r) PROVE NoNew
    BY <1>0, <2>5, TypesHold DEF Right, Request
  <2>6. ASSUME NEW e \in Emails, CreateUser(r, e) PROVE NoNew
    <3>1. ASSUME ~Done(r)
          PROVE  (\A q \in Requests \ {r} : req'[q] = req[q]) /\ req'[r].pc = "session"
      <4>1. PICK i \in Ids : req' = [req EXCEPT ![r] = [Idle EXCEPT !.pc = "session", !.user = i, !.owner = e]]
        BY <2>6, <3>1 DEF CreateUser
      <4> QED BY <1>0, <4>1 DEF Idle
    <3> QED BY <2>1, <3>1
  <2>7. ASSUME NEW s \in States, Finish(r, s) PROVE NoNew
    <3>1. ASSUME req' = [req EXCEPT ![r].pc = "exchange", ![r].state = s] PROVE NoNew
      BY <1>0, <3>1, TypesHold DEF Request
    <3> QED BY <2>7, <3>1 DEF Finish
  <2>8. ASSUME Identified(r) PROVE NoNew
    <3>1. ASSUME ~Done(r)
          PROVE  (\A q \in Requests \ {r} : req'[q] = req[q]) /\ req'[r].pc = "session"
      BY <1>0, <2>8, <3>1 DEF Identified, Idle
    <3> QED BY <2>1, <3>1
  <2>9. NoNew
    BY <1>1, <2>2, <2>3, <2>4, <2>5, <2>6, <2>7, <2>8 DEF SignIn
  <2> QED BY <1>0, <1>1, <2>9, AdminKept
<1>2. ASSUME NEW r \in Requests, NEW e \in Emails, NEW i \in Ids, NEW role \in Roles, NEW p \in Providers,
             users' = [users EXCEPT ![i] = Row(e, role, p)], NextId(i),
             (p = "local" /\ role = "admin") \/ Live # {}
      PROVE  AdminInv'
  <2>0. i \notin Live
    <3>1. \A j \in Live : j < i
      BY <1>2 DEF NextId
    <3>2. ~(i < i)
      BY DEF Ids
    <3> QED BY <3>1, <3>2
  <2>1. i \notin Live /\ e # None /\ Row(e, role, p).email = e
    BY <2>0, <1>2, AccountsAssumption DEF Row
  <2>2. Live' = Live \cup {i}
    BY <1>0, <1>2, <2>1 DEF Live
  <2>3. \A j \in Live' : users'[j].email # None
    BY <1>0, <1>2, <2>1, <2>2 DEF AdminInv
  <2>4. LocalAdmins \subseteq LocalAdmins' /\ (p = "local" /\ role = "admin" => i \in LocalAdmins')
    BY <1>0, <1>2, <2>1, <2>2 DEF LocalAdmins, Row
  <2>5. LocalAdmins' # {}
    BY <1>2, <2>4 DEF AdminInv, LocalAdminStays
  <2> QED BY <2>2, <2>3, <2>5 DEF AdminInv, LocalAdminStays
<1>3. ASSUME NEW r \in Requests, NEW e \in Emails, CreateUser(r, e), ~UNCHANGED users PROVE AdminInv'
  <2>1. "admin" \in Roles /\ "local" \in Providers
    BY DEF Roles, Providers
  <2> QED BY <1>2, <1>3, <2>1 DEF CreateUser
<1>4. ASSUME NEW r \in Requests, NEW t \in Tokens, Authorize(r, t) PROVE AdminInv'
  <2>1. sessions[t].user \in Live
    BY <1>4 DEF Authorize, Valid, ActsForItsOwner
  <2> QED BY <1>0, <1>4, <2>1, AdminKept DEF Authorize
<1>5. ASSUME NEW r \in Requests, NEW e \in Emails, NEW role \in Roles, AddUser(r, e, role) PROVE AdminInv'
  <2>1. Live # {} /\ "entra" \in Providers
    BY <1>0, <1>5 DEF AddUser, At, Providers
  <2>2. CASE UNCHANGED users
    BY <1>0, <1>5, <2>1, <2>2, AdminKept
  <2> QED BY <1>2, <1>5, <2>1, <2>2 DEF AddUser
<1>6. ASSUME NEW r \in Requests, NEW i \in Ids, DeleteUser(r, i) PROVE AdminInv'
  <2>1. CASE UNCHANGED users
    <3>1. Live # {}
      BY <1>0, <1>6 DEF DeleteUser, At
    <3> QED BY <2>1, <3>1, AdminKept
  <2>2. CASE users' = [users EXCEPT ![i] = NoUser] /\ i \in Live /\ ~LastLocalAdmin(i)
    <3>1. LocalAdmins' = LocalAdmins \ {i} /\ Live' = Live \ {i}
      BY <1>0, <2>2 DEF LocalAdmins, Live
    <3>2. LocalAdmins' # {}
      BY <2>2, <3>1 DEF LastLocalAdmin, AdminInv, LocalAdminStays
    <3>3. Live' # {} /\ \A j \in Live' : users'[j].email # None
      BY <1>0, <2>2, <3>1, <3>2 DEF AdminInv, LocalAdmins
    <3> QED BY <3>2, <3>3 DEF AdminInv, LocalAdminStays
  <2> QED BY <1>6, <2>1, <2>2 DEF DeleteUser
<1>7. ASSUME NEW r \in Requests, NEW i \in Ids, NEW role \in Roles, SetUserRole(r, i, role) PROVE AdminInv'
  <2>1. CASE UNCHANGED users
    <3>1. Live # {}
      BY <1>0, <1>7 DEF SetUserRole, At
    <3> QED BY <2>1, <3>1, AdminKept
  <2>2. CASE users' = [users EXCEPT ![i].role = role] /\ i \in Live /\ (role = "admin" \/ ~LastLocalAdmin(i))
    <3>1. /\ users'[i].email = users[i].email /\ users'[i].provider = users[i].provider /\ users'[i].role = role
          /\ \A j \in Ids \ {i} : users'[j] = users[j]
      BY <1>0, <2>2, TypesHold DEF User
    <3>2. users'[i] # NoUser
      BY <1>0, <2>2, <3>1 DEF AdminInv
    <3>3. Live' = Live
      BY <1>0, <2>2, <3>1, <3>2 DEF Live
    <3>4. \A j \in Live' : users'[j].email # None
      BY <1>0, <3>1, <3>3 DEF AdminInv
    <3>5. LocalAdmins \ {i} \subseteq LocalAdmins'
      BY <1>0, <3>1, <3>3 DEF LocalAdmins
    <3>6. LocalAdmins' # {}
      <4>1. CASE LocalAdmins \ {i} # {}
        BY <3>5, <4>1
      <4>2. CASE LocalAdmins = {i}
        <5>1. role = "admin"
          BY <2>2, <4>2 DEF LastLocalAdmin
        <5> QED BY <3>1, <3>3, <4>2, <5>1 DEF LocalAdmins
      <4> QED BY <2>2, <4>1, <4>2 DEF AdminInv, LocalAdminStays
    <3> QED BY <3>3, <3>4, <3>6, <2>2 DEF AdminInv, LocalAdminStays
  <2> QED BY <1>7, <2>1, <2>2 DEF SetUserRole
<1>8. ASSUME UNCHANGED users, \A q \in Requests : req'[q].pc = "admin" => req[q].pc = "admin" PROVE AdminInv'
  BY <1>0, <1>8, AdminKept
<1>9. ASSUME NEW r \in Requests, SignIn(r) PROVE AdminInv'
  BY <1>1, <1>3, <1>9
     DEF SignIn, Setup, LetIn, Verify, Wrong, Right, CreateSession, Finish, Identified
<1>10. ASSUME NEW r \in Requests, Administer(r) PROVE AdminInv'
  <2>1. ASSUME NEW on \in BOOLEAN, PutEntra(r, on) PROVE AdminInv'
    BY <1>0, <1>8, <2>1 DEF PutEntra, Done
  <2> QED BY <1>4, <1>5, <1>6, <1>7, <1>10, <2>1 DEF Administer
<1>11. ASSUME NEW r \in Requests, StoreFails(r) PROVE AdminInv'
  BY <1>0, <1>8, <1>11 DEF StoreFails, Done
<1>12. CASE Restart
  BY <1>0, <1>8, <1>12 DEF Restart
<1>13. CASE Tick \/ PurgeSessions \/ EntraStart \/ (\E t \in Tokens : Logout(t)) \/ UNCHANGED vars
  BY <1>8, <1>13 DEF Tick, PurgeSessions, EntraStart, Logout, vars
<1> QED BY <1>9, <1>10, <1>11, <1>12, <1>13 DEF Next

-----------------------------------------------------------------------------
(* The owners of the sessions. *)

\* What the steps of a request that leave the tables alone must give.
LEMMA OwnerKept ==
  ASSUME OwnerInv, UNCHANGED <<users, sessions>>, \A q \in Requests : req'[q] = req[q] \/ Knows(q)'
  PROVE  OwnerInv'
<1>1. ActsForItsOwner'
  BY DEF OwnerInv, ActsForItsOwner, Live
<1>2. \A q \in Requests : req'[q] = req[q] => Knows(q)'
  BY DEF OwnerInv, Knows, Live
<1> QED BY <1>1, <1>2 DEF OwnerInv

\* A row that is added is nobody's yet.
LEMMA OwnerAdded ==
  ASSUME TypeOK, AdminInv, OwnerInv, NEW i \in Ids, NEW u, NextId(i), u.email # None,
         users' = [users EXCEPT ![i] = u], UNCHANGED sessions,
         \A q \in Requests : req'[q] = req[q] \/ Knows(q)'
  PROVE  OwnerInv'
<1>1. i \notin Live
  <2>1. \A j \in Live : j < i
    BY DEF NextId
  <2>2. ~(i < i)
    BY DEF Ids
  <2> QED BY <2>1, <2>2
<1>2. NoUser.email = None /\ DOMAIN users = Ids
  BY TypesHold DEF NoUser
<1>3. Live' = Live \cup {i} /\ \A j \in Live : users'[j] = users[j]
  BY <1>1, <1>2 DEF Live
<1>4. ActsForItsOwner'
  BY <1>3 DEF OwnerInv, ActsForItsOwner
<1>5. \A q \in Requests : req'[q] = req[q] => Knows(q)'
  BY <1>3 DEF OwnerInv, Knows
<1> QED BY <1>4, <1>5 DEF OwnerInv

\* Sessions that are gone had the others as they were.
LEMMA OwnerFewer ==
  ASSUME OwnerInv, UNCHANGED users, \A t \in Tokens : sessions'[t] \in {sessions[t], NoSession},
         \A q \in Requests : req'[q] = req[q] \/ Knows(q)'
  PROVE  OwnerInv'
<1>1. ActsForItsOwner'
  BY DEF OwnerInv, ActsForItsOwner, Live
<1>2. \A q \in Requests : req'[q] = req[q] => Knows(q)'
  BY DEF OwnerInv, Knows, Live
<1> QED BY <1>1, <1>2 DEF OwnerInv

\* A request and a session know whose account they act for, unless it was removed.
LEMMA OwnerStays ==
  ASSUME TypeOK, AdminInv, OwnerInv, [Next]_vars
  PROVE  OwnerInv'
<1> USE Constants
<1>0. /\ DOMAIN req = Requests /\ DOMAIN users = Ids /\ DOMAIN sessions = Tokens /\ Live \subseteq Ids
      /\ \A q \in Requests : req[q] \in Request
      /\ Idle.pc = "idle" /\ ~Idle.stale /\ NoUser.email = None
      /\ \A t \in Tokens : sessions[t] \in Session
  BY TypesHold DEF Idle, NoUser, Live
<1>1. ASSUME NEW r \in Requests, Done(r) PROVE \A q \in Requests : req'[q] = req[q] \/ Knows(q)'
  BY <1>0, <1>1 DEF Done, Knows
<1>2. ASSUME NEW r \in Requests, SignIn(r) PROVE OwnerInv'
  <2>1. CASE Setup(r)
    <3>1. \A q \in Requests : req'[q] = req[q] \/ Knows(q)'
      BY <1>0, <2>1 DEF Setup, Request, Knows
    <3> QED BY <2>1, <3>1, OwnerKept DEF Setup
  <2>2. ASSUME NEW e \in Emails, CreateUser(r, e) PROVE OwnerInv'
    <3>1. CASE Done(r) /\ UNCHANGED users
      BY <1>1, <2>2, <3>1, OwnerKept DEF CreateUser
    <3>2. ASSUME NEW i \in Ids, NextId(i), users' = [users EXCEPT ![i] = Row(e, "admin", "local")],
                 req' = [req EXCEPT ![r] = [Idle EXCEPT !.pc = "session", !.user = i, !.owner = e]]
          PROVE  OwnerInv'
      <4>1. Row(e, "admin", "local").email = e /\ e # None
        BY AccountsAssumption DEF Row
      <4>2. users'[i] = Row(e, "admin", "local") /\ users'[i].provider = "local" /\ i \in Live'
        BY <1>0, <3>2, <4>1 DEF Row, Live
      <4>3. req'[r].user = i /\ req'[r].owner = e /\ req'[r].via = "local"
        BY <1>0, <3>2 DEF Idle
      <4>4. \A q \in Requests : req'[q] = req[q] \/ Knows(q)'
        BY <1>0, <3>2, <4>1, <4>2, <4>3 DEF Knows
      <4> QED BY <2>2, <3>2, <4>1, <4>4, OwnerAdded DEF CreateUser
    <3> QED BY <2>2, <3>1, <3>2 DEF CreateUser
  <2>3. CASE LetIn(r)
    <3>1. \A q \in Requests : req'[q] = req[q] \/ Knows(q)'
      BY <1>0, <2>3 DEF LetIn, Request, Knows
    <3> QED BY <2>3, <3>1, OwnerKept DEF LetIn
  <2>4. CASE Verify(r)
    <3>1. ASSUME req' = [req EXCEPT ![r].pc = "wrong"]
          PROVE  \A q \in Requests : req'[q] = req[q] \/ Knows(q)'
      BY <1>0, <3>1 DEF Request, Knows
    <3>2. ASSUME NEW i \in Live, users[i].provider = "local", UNCHANGED users,
                 req' = [req EXCEPT ![r] = [Idle EXCEPT !.pc = "right", !.user = i, !.owner = users[i].email]]
          PROVE  \A q \in Requests : req'[q] = req[q] \/ Knows(q)'
      <4>1. req'[r].user = i /\ req'[r].owner = users[i].email /\ req'[r].via = "local"
        BY <1>0, <3>2 DEF Idle
      <4>2. Knows(r)'
        BY <3>2, <4>1 DEF Knows, Live
      <4> QED BY <1>0, <3>2, <4>2
    <3> QED BY <2>4, <3>1, <3>2, OwnerKept DEF Verify
  <2>5. CASE Wrong(r)
    BY <1>1, <2>5, OwnerKept DEF Wrong
  <2>6. CASE Right(r)
    <3>1. /\ req[r].pc = "right" /\ \A q \in Requests \ {r} : req'[q] = req[q]
          /\ UNCHANGED <<req[r].user, req[r].owner, req[r].via, req[r].stale>> /\ UNCHANGED users
      BY <1>0, <2>6 DEF Right, At, Request
    <3>2. Knows(r) /\ Live' = Live
      BY <3>1 DEF OwnerInv, Live
    <3>3. Knows(r)'
      BY <3>1, <3>2 DEF Knows
    <3> QED BY <2>6, <3>1, <3>3, OwnerKept DEF Right
  <2>7. CASE CreateSession(r)
    <3>1. CASE UNCHANGED sessions
      BY <1>1, <2>7, <3>1, OwnerKept DEF CreateSession
    <3>2. CASE ~UNCHANGED sessions
      <4>1. PICK t \in Tokens :
              /\ sessions[t] = NoSession
              /\ sessions' = [sessions EXCEPT ![t] =
                   [user |-> req[r].user, expires |-> now + SessionTTL, owner |-> req[r].owner,
                    via |-> req[r].via, state |-> req[r].state, stale |-> req[r].stale]]
        BY <2>7, <3>2 DEF CreateSession
      <4>2. /\ req[r].user \in Live /\ UNCHANGED users /\ Live' = Live /\ Knows(r) /\ req[r].pc = "session"
        BY <2>7, <3>2 DEF CreateSession, Live, OwnerInv, At
      <4>3. /\ sessions'[t].user = req[r].user /\ sessions'[t].owner = req[r].owner
            /\ sessions'[t].via = req[r].via /\ sessions'[t].stale = req[r].stale
            /\ \A u \in Tokens \ {t} : sessions'[u] = sessions[u]
        BY <1>0, <4>1
      <4>4. ActsForItsOwner'
        BY <4>2, <4>3 DEF OwnerInv, ActsForItsOwner, Knows
      <4>5. \A q \in Requests : Knows(q)'
        <5>1. \A q \in Requests : req'[q] = req[q] \/ Knows(q)'
          BY <1>1, <2>7 DEF CreateSession
        <5> QED BY <4>2, <5>1 DEF OwnerInv, Knows
      <4> QED BY <4>4, <4>5 DEF OwnerInv
    <3> QED BY <3>1, <3>2
  <2>8. ASSUME NEW s \in States, Finish(r, s) PROVE OwnerInv'
    <3>1. ASSUME req' = [req EXCEPT ![r].pc = "exchange", ![r].state = s]
          PROVE  \A q \in Requests : req'[q] = req[q] \/ Knows(q)'
      BY <1>0, <3>1 DEF Request, Knows
    <3> QED BY <2>8, <3>1, OwnerKept DEF Finish
  <2>9. CASE Identified(r)
    <3>1. ASSUME NEW i \in Live, users[i].provider = "entra", UNCHANGED users,
                 req' = [req EXCEPT ![r] = [Idle EXCEPT !.pc = "session", !.user = i, !.via = "entra",
                                            !.owner = users[i].email, !.state = req[r].state]]
          PROVE  \A q \in Requests : req'[q] = req[q] \/ Knows(q)'
      <4>1. req'[r].user = i /\ req'[r].owner = users[i].email /\ req'[r].via = "entra"
        BY <1>0, <3>1 DEF Idle
      <4>2. Knows(r)'
        BY <3>1, <4>1 DEF Knows, Live
      <4> QED BY <1>0, <3>1, <4>2
    <3> QED BY <1>1, <2>9, <3>1, OwnerKept DEF Identified
  <2> QED BY <1>2, <2>1, <2>2, <2>3, <2>4, <2>5, <2>6, <2>7, <2>8, <2>9 DEF SignIn
<1>3. ASSUME NEW r \in Requests, NEW t \in Tokens, Authorize(r, t) PROVE OwnerInv'
  <2>1. \A q \in Requests : req'[q] = req[q] \/ Knows(q)'
    BY <1>0, <1>3 DEF Authorize, Request, Knows
  <2> QED BY <1>3, <2>1, OwnerKept DEF Authorize
<1>4. ASSUME NEW r \in Requests, NEW e \in Emails, NEW role \in Roles, AddUser(r, e, role) PROVE OwnerInv'
  <2>1. Row(e, role, "entra").email # None
    BY AccountsAssumption DEF Row
  <2>2. CASE UNCHANGED users
    BY <1>1, <1>4, <2>2, OwnerKept DEF AddUser
  <2> QED BY <1>1, <1>4, <2>1, <2>2, OwnerAdded DEF AddUser
<1>5. ASSUME NEW r \in Requests, NEW i \in Ids, DeleteUser(r, i) PROVE OwnerInv'
  <2>1. CASE Done(r) /\ UNCHANGED <<users, sessions>>
    BY <1>1, <1>5, <2>1, OwnerKept
  <2>2. CASE /\ users' = [users EXCEPT ![i] = NoUser] /\ sessions' = SignedOut(i)
             /\ req' = [q \in Requests |-> IF q = r THEN Idle
                                           ELSE [req[q] EXCEPT !.stale = @ \/ req[q].user = i]]
    <3>1. Live' = Live \ {i} /\ \A j \in Live \ {i} : users'[j] = users[j]
      BY <1>0, <2>2 DEF Live
    <3>2. /\ \A t \in Tokens : sessions[t].user = i => sessions'[t] = NoSession
          /\ \A t \in Tokens : sessions[t].user # i => sessions'[t] = sessions[t]
      BY <2>2 DEF SignedOut
    <3>3. ActsForItsOwner'
      BY <3>1, <3>2 DEF OwnerInv, ActsForItsOwner
    <3>4. ASSUME NEW q \in Requests \ {r} PROVE Knows(q)'
      <4>1. /\ UNCHANGED <<req[q].pc, req[q].user, req[q].owner, req[q].via>>
            /\ ~req'[q].stale => ~req[q].stale /\ req[q].user # i
        <5>1. req'[q] = [req[q] EXCEPT !.stale = @ \/ req[q].user = i]
          BY <2>2, <3>4
        <5>2. req[q] \in Request
          BY <1>0, <3>4
        <5> QED BY <5>1, <5>2 DEF Request
      <4>2. Knows(q)
        BY <3>4 DEF OwnerInv
      <4> QED BY <3>1, <4>1, <4>2 DEF Knows
    <3>5. Knows(r)'
      BY <1>0, <2>2 DEF Knows
    <3> QED BY <3>3, <3>4, <3>5 DEF OwnerInv
  <2> QED BY <1>5, <2>1, <2>2 DEF DeleteUser
<1>6. ASSUME NEW r \in Requests, NEW i \in Ids, NEW role \in Roles, SetUserRole(r, i, role) PROVE OwnerInv'
  <2>1. CASE UNCHANGED users
    BY <1>1, <1>6, <2>1, OwnerKept DEF SetUserRole
  <2>2. CASE users' = [users EXCEPT ![i].role = role] /\ i \in Live
    <3>1. \A j \in Ids : users'[j].email = users[j].email /\ users'[j].provider = users[j].provider
      BY <1>0, <2>2, TypesHold DEF User
    <3>2. \A j \in Live : users'[j] # NoUser
      BY <1>0, <3>1 DEF AdminInv
    <3>3. Live \subseteq Live'
      BY <1>0, <3>2 DEF Live
    <3>4. UNCHANGED sessions /\ \A q \in Requests : req'[q] = req[q] \/ Knows(q)'
      BY <1>1, <1>6 DEF SetUserRole
    <3>5. ActsForItsOwner'
      BY <1>0, <3>1, <3>3, <3>4 DEF OwnerInv, ActsForItsOwner
    <3>6. \A q \in Requests : req'[q] = req[q] => Knows(q)'
      BY <1>0, <3>1, <3>3 DEF OwnerInv, Knows
    <3> QED BY <3>4, <3>5, <3>6 DEF OwnerInv
  <2> QED BY <1>6, <2>1, <2>2 DEF SetUserRole
<1>7. ASSUME NEW r \in Requests, Administer(r) PROVE OwnerInv'
  <2>1. ASSUME NEW on \in BOOLEAN, PutEntra(r, on) PROVE OwnerInv'
    BY <1>1, <2>1, OwnerKept DEF PutEntra
  <2> QED BY <1>3, <1>4, <1>5, <1>6, <1>7, <2>1 DEF Administer
<1>8. ASSUME NEW r \in Requests, StoreFails(r) PROVE OwnerInv'
  BY <1>1, <1>8, OwnerKept DEF StoreFails
<1>9. ASSUME NEW t \in Tokens, Logout(t) PROVE OwnerInv'
  <2>1. \A u \in Tokens : sessions'[u] \in {sessions[u], NoSession}
    BY <1>0, <1>9 DEF Logout
  <2> QED BY <1>9, <2>1, OwnerFewer DEF Logout
<1>10. CASE PurgeSessions
  <2>1. \A u \in Tokens : sessions'[u] \in {sessions[u], NoSession}
    BY <1>10 DEF PurgeSessions
  <2> QED BY <1>10, <2>1, OwnerFewer DEF PurgeSessions
<1>11. CASE Restart
  <2>1. \A q \in Requests : Knows(q)'
    BY <1>0, <1>11 DEF Restart, Knows
  <2> QED BY <1>11, <2>1, OwnerKept DEF Restart
<1>12. CASE Tick \/ EntraStart \/ UNCHANGED vars
  BY <1>12, OwnerKept DEF Tick, EntraStart, vars
<1> QED BY <1>2, <1>7, <1>8, <1>9, <1>10, <1>11, <1>12 DEF Next

-----------------------------------------------------------------------------
(* The pending sign-ins. *)

\* A request or a session holds its sign-in alone, and nobody else can take it.
Holds(r) ==
  req[r].state # None =>
    /\ req[r].state <= started /\ pending[req[r].state] = None
    /\ \A q \in Requests : q # r => req[q].state # req[r].state
    /\ \A t \in Tokens : sessions[t].state # req[r].state

\* The steps that pass no sign-in on: every request keeps its own or drops it.
LEMMA StateKeptOrDropped ==
  ASSUME StateInv, UNCHANGED <<started, pending>>,
         \A q \in Requests : req'[q].state \in {req[q].state, None},
         \A t \in Tokens : sessions'[t].state \in {sessions[t].state, None}
  PROVE  StateInv'
<1>1. OneSessionPerState'
  BY DEF StateInv, OneSessionPerState
<1>2. \A s \in States : pending'[s] # None => s <= started'
  BY DEF StateInv
<1>3. ASSUME NEW r \in Requests PROVE Holds(r)'
  <2>1. Holds(r)
    BY DEF StateInv, Holds
  <2> QED BY <2>1 DEF Holds
<1>4. \A t \in Tokens : sessions'[t].state # None => sessions'[t].state <= started' /\ pending'[sessions'[t].state] = None
  BY DEF StateInv
<1> QED BY <1>1, <1>2, <1>3, <1>4 DEF StateInv, Holds

\* A Microsoft state is taken once (entra, Finish).
LEMMA StateStays ==
  ASSUME TypeOK, StateInv, [Next]_vars
  PROVE  StateInv'
<1> USE Constants
<1>0. /\ DOMAIN req = Requests /\ DOMAIN sessions = Tokens /\ DOMAIN pending = States
      /\ \A q \in Requests : req[q] \in Request
      /\ Idle.state = None /\ NoSession.state = None
      /\ started \in Nat /\ now \in 0..MaxTime
  BY TypesHold DEF Idle, NoSession, TypeOK
<1>1. ASSUME NEW r \in Requests, Done(r) PROVE \A q \in Requests : req'[q].state \in {req[q].state, None}
  BY <1>0, <1>1 DEF Done
<1>2. ASSUME NEW r \in Requests, SignIn(r), ~CreateSession(r), \A s \in States : ~Finish(r, s)
      PROVE  StateInv'
  <2> DEFINE Drops == \A q \in Requests : req'[q].state \in {req[q].state, None}
  <2>1. ASSUME Setup(r) \/ LetIn(r) \/ Right(r) PROVE Drops
    BY <1>0, <2>1 DEF Setup, LetIn, Right, Request
  <2>2. ASSUME NEW e \in Emails, CreateUser(r, e) PROVE Drops
    <3>1. ASSUME NEW i \in Ids, req' = [req EXCEPT ![r] = [Idle EXCEPT !.pc = "session", !.user = i, !.owner = e]]
          PROVE  Drops
      BY <1>0, <3>1 DEF Idle
    <3> QED BY <1>1, <2>2, <3>1 DEF CreateUser
  <2>3. ASSUME Verify(r) PROVE Drops
    <3>1. ASSUME req' = [req EXCEPT ![r].pc = "wrong"] PROVE Drops
      BY <1>0, <3>1 DEF Request
    <3>2. ASSUME NEW i \in Live,
                 req' = [req EXCEPT ![r] = [Idle EXCEPT !.pc = "right", !.user = i, !.owner = users[i].email]]
          PROVE  Drops
      BY <1>0, <3>2 DEF Idle
    <3> QED BY <2>3, <3>1, <3>2 DEF Verify
  <2>4. ASSUME Wrong(r) PROVE Drops
    BY <1>1, <2>4 DEF Wrong
  <2>5. ASSUME Identified(r) PROVE Drops
    <3>1. ASSUME NEW i \in Live,
                 req' = [req EXCEPT ![r] = [Idle EXCEPT !.pc = "session", !.user = i, !.via = "entra",
                                            !.owner = users[i].email, !.state = req[r].state]]
          PROVE  Drops
      BY <1>0, <3>1 DEF Idle
    <3> QED BY <1>1, <2>5, <3>1 DEF Identified
  <2>6. Drops
    BY <1>2, <2>1, <2>2, <2>3, <2>4, <2>5 DEF SignIn
  <2>7. UNCHANGED <<started, pending, sessions>>
    BY <1>2 DEF SignIn, Setup, CreateUser, LetIn, Verify, Wrong, Right, Identified
  <2> QED BY <2>6, <2>7, StateKeptOrDropped
<1>3. ASSUME NEW r \in Requests, CreateSession(r) PROVE StateInv'
  <2>1. \A q \in Requests : req'[q].state \in {req[q].state, None}
    BY <1>1, <1>3 DEF CreateSession
  <2>2. UNCHANGED <<started, pending>>
    BY <1>3 DEF CreateSession
  <2>3. CASE UNCHANGED sessions
    BY <2>1, <2>2, <2>3, StateKeptOrDropped
  <2>4. CASE ~UNCHANGED sessions
    <3>1. PICK t \in Tokens :
              sessions' = [sessions EXCEPT ![t] =
                   [user |-> req[r].user, expires |-> now + SessionTTL, owner |-> req[r].owner,
                    via |-> req[r].via, state |-> req[r].state, stale |-> req[r].stale]]
      BY <1>3, <2>4 DEF CreateSession
    <3>2. sessions'[t].state = req[r].state /\ \A u \in Tokens \ {t} : sessions'[u] = sessions[u]
      BY <1>0, <3>1
    <3>3. req'[r].state = None /\ \A q \in Requests \ {r} : req'[q] = req[q]
      BY <1>0, <1>3 DEF CreateSession, Done
    <3>4. Holds(r) /\ \A q \in Requests : Holds(q)
      BY DEF StateInv, Holds
    <3>5. OneSessionPerState'
      BY <3>2, <3>4 DEF StateInv, OneSessionPerState, Holds
    <3>6. ASSUME NEW q \in Requests PROVE Holds(q)'
      BY <2>2, <3>2, <3>3, <3>4 DEF Holds
    <3>7. ASSUME NEW u \in Tokens, sessions'[u].state # None
          PROVE  sessions'[u].state <= started' /\ pending'[sessions'[u].state] = None
      BY <2>2, <3>2, <3>4, <3>7 DEF StateInv, Holds
    <3> QED BY <2>2, <3>5, <3>6, <3>7 DEF StateInv, Holds
  <2> QED BY <2>3, <2>4
<1>4. ASSUME NEW r \in Requests, NEW s \in States, Finish(r, s) PROVE StateInv'
  <2>1. pending' = [pending EXCEPT ![s] = None] /\ s <= started /\ UNCHANGED <<started, sessions>>
    BY <1>4 DEF Finish, StateTaken
  <2>2. \A u \in States : pending'[u] \in {pending[u], None}
    BY <1>0, <2>1
  <2>3. \A q \in Requests : Holds(q)
    BY DEF StateInv, Holds
  <2>4. /\ OneSessionPerState'
        /\ \A u \in States : pending'[u] # None => u <= started'
    BY <2>1, <2>2 DEF StateInv, OneSessionPerState
  <2>5. ASSUME NEW t \in Tokens, sessions'[t].state # None
        PROVE  sessions'[t].state <= started' /\ pending'[sessions'[t].state] = None
    <3>1. sessions[t].state \in States
      BY <2>1, <2>5, TypesHold DEF Session
    <3> QED BY <2>1, <2>2, <2>5, <3>1 DEF StateInv
  <2>6. CASE UNCHANGED req
    <3>1. ASSUME NEW q \in Requests PROVE Holds(q)'
      <4>1. req[q].state \in States \cup {None}
        BY <1>0 DEF Request
      <4> QED BY <2>1, <2>2, <2>3, <2>6, <4>1 DEF Holds
    <3> QED BY <2>4, <2>5, <3>1 DEF StateInv, Holds
  <2>7. CASE req' = [req EXCEPT ![r].pc = "exchange", ![r].state = s] /\ pending[s] # None
    <3>1. req'[r].state = s /\ (\A q \in Requests \ {r} : req'[q] = req[q]) /\ pending'[s] = None /\ s # None
      BY <1>0, <2>1, <2>7 DEF Request
    <3>2. (\A q \in Requests : req[q].state # s) /\ (\A t \in Tokens : sessions[t].state # s)
      BY <2>3, <2>7, <3>1 DEF StateInv, Holds
    <3>3. ASSUME NEW q \in Requests PROVE Holds(q)'
      <4>1. req[q].state \in States \cup {None}
        BY <1>0 DEF Request
      <4> QED BY <2>1, <2>2, <2>3, <3>1, <3>2, <4>1 DEF Holds
    <3> QED BY <2>4, <2>5, <3>3 DEF StateInv, Holds
  <2> QED BY <1>4, <2>6, <2>7 DEF Finish
<1>5. ASSUME NEW r \in Requests, Administer(r) PROVE StateInv'
  <2>1. \A q \in Requests : req'[q].state \in {req[q].state, None}
    <3>1. ASSUME NEW t \in Tokens, Authorize(r, t) PROVE \A q \in Requests : req'[q].state \in {req[q].state, None}
      BY <1>0, <3>1 DEF Authorize, Request
    <3>2. ASSUME NEW i \in Ids, DeleteUser(r, i) PROVE \A q \in Requests : req'[q].state \in {req[q].state, None}
      <4>1. ASSUME req' = [q \in Requests |-> IF q = r THEN Idle ELSE [req[q] EXCEPT !.stale = @ \/ req[q].user = i]]
            PROVE  \A q \in Requests : req'[q].state \in {req[q].state, None}
        BY <1>0, <4>1 DEF Request
      <4> QED BY <1>1, <3>2, <4>1 DEF DeleteUser
    <3> QED BY <1>1, <1>5, <3>1, <3>2 DEF Administer, AddUser, SetUserRole, PutEntra
  <2>2. \A t \in Tokens : sessions'[t].state \in {sessions[t].state, None}
    BY <1>0, <1>5 DEF Administer, Authorize, AddUser, SetUserRole, DeleteUser, SignedOut, PutEntra
  <2>3. UNCHANGED <<started, pending>>
    BY <1>5 DEF Administer, Authorize, AddUser, SetUserRole, DeleteUser, PutEntra
  <2> QED BY <2>1, <2>2, <2>3, StateKeptOrDropped
<1>6. ASSUME NEW r \in Requests, StoreFails(r) PROVE StateInv'
  BY <1>1, <1>6, StateKeptOrDropped DEF StoreFails
<1>7. CASE PurgeSessions \/ (\E t \in Tokens : Logout(t)) \/ Tick \/ UNCHANGED vars
  <2>1. \A t \in Tokens : sessions'[t].state \in {sessions[t].state, None}
    BY <1>0, <1>7 DEF PurgeSessions, Logout, Tick, vars
  <2>2. UNCHANGED <<started, pending, req>>
    BY <1>7 DEF PurgeSessions, Logout, Tick, vars
  <2> QED BY <2>1, <2>2, StateKeptOrDropped
<1>8. CASE EntraStart
  <2>1. UNCHANGED <<req, sessions>> /\ started' = started + 1
    BY <1>8 DEF EntraStart
  <2>2. \A s \in States : s # started + 1 => pending'[s] \in {pending[s], None}
    BY <1>0, <1>8 DEF EntraStart
  <2>3. \A s \in States : s <= started => pending'[s] \in {pending[s], None}
    BY <1>0, <2>2 DEF States
  <2>4. \A s \in States : pending'[s] # None => s <= started'
    BY <1>0, <2>1, <2>2 DEF StateInv, States
  <2>5. \A q \in Requests : Holds(q)
    BY DEF StateInv, Holds
  <2>6. ASSUME NEW q \in Requests PROVE Holds(q)'
    <3>1. req[q].state \in States \cup {None}
      BY <1>0 DEF Request
    <3>2. req[q].state # None => pending'[req[q].state] = None
      BY <2>3, <2>5, <3>1 DEF Holds
    <3>3. req[q].state # None => req[q].state <= started + 1
      BY <1>0, <2>5, <3>1 DEF Holds, States
    <3> QED BY <2>1, <2>5, <3>2, <3>3 DEF Holds
  <2>7. ASSUME NEW t \in Tokens, sessions[t].state # None
        PROVE  sessions[t].state <= started + 1 /\ pending'[sessions[t].state] = None
    <3>1. sessions[t].state \in States /\ sessions[t].state <= started /\ pending[sessions[t].state] = None
      BY <2>7, TypesHold DEF Session, StateInv
    <3> QED BY <1>0, <2>3, <3>1 DEF States
  <2>8. OneSessionPerState'
    BY <2>1 DEF StateInv, OneSessionPerState
  <2> QED BY <2>1, <2>4, <2>6, <2>7, <2>8 DEF StateInv, Holds
<1>9. CASE Restart
  <2>1. UNCHANGED <<sessions, started>> /\ \A s \in States : pending'[s] = None
    BY <1>9 DEF Restart
  <2>2. \A q \in Requests : req'[q].state = None
    BY <1>0, <1>9 DEF Restart
  <2>3. ASSUME NEW t \in Tokens, sessions[t].state # None
        PROVE  sessions[t].state <= started /\ pending'[sessions[t].state] = None
    <3>1. sessions[t].state \in States
      BY <2>3, TypesHold DEF Session
    <3> QED BY <2>1, <2>3, <3>1 DEF StateInv
  <2>4. OneSessionPerState'
    BY <2>1 DEF StateInv, OneSessionPerState
  <2> QED BY <2>1, <2>2, <2>3, <2>4 DEF StateInv
<1> QED BY <1>2, <1>3, <1>4, <1>5, <1>6, <1>7, <1>8, <1>9 DEF Next

-----------------------------------------------------------------------------
(* The theorems. *)

IInv == TypeOK /\ LimiterInv /\ AdminInv /\ OwnerInv /\ StateInv

\* The parts of the invariant hold together, always.
LEMMA Inductive ==
  Spec => []IInv
<1> USE Constants
<1>1. Init => IInv
  <2> SUFFICES ASSUME Init PROVE IInv
    OBVIOUS
  <2>1. /\ \A i \in Ids : users[i] = NoUser
        /\ \A t \in Tokens : sessions[t] = NoSession
        /\ \A r \in Requests : req[r] = Idle
        /\ \A s \in States : pending[s] = None
        /\ guesses = <<>> /\ limiter = NoEntry
    BY DEF Init
  <2>2. guesses \in Seq(0..MaxTime) /\ Len(guesses) = 0
    BY <2>1, EmptySeq
  <2>3. TypeOK
    <3>1. users \in [Ids -> User] /\ sessions \in [Tokens -> Session] /\ req \in [Requests -> Request]
      BY Plain DEF Init
    <3>2. limiter \in [n : 0..(MaxFailures + Cardinality(Requests) - 1), at : 0..MaxTime]
      BY <2>1, Plain
    <3>3. /\ pending \in [States -> (0..MaxTime) \cup {None}] /\ started \in 0..MaxStarts /\ now \in 0..MaxTime
          /\ entra \in BOOLEAN /\ restarts \in 0..MaxRestarts /\ work \in 0..MaxWork
      <4>1. pending \in [States -> (0..MaxTime) \cup {None}]
        BY DEF Init
      <4>2. now = 0 /\ started = 0 /\ restarts = 0 /\ work = 0 /\ entra = FALSE
        BY DEF Init
      <4>3. started \in 0..MaxStarts /\ now \in 0..MaxTime /\ restarts \in 0..MaxRestarts /\ work \in 0..MaxWork
        BY <4>2
      <4> QED BY <4>1, <4>2, <4>3
    <3> QED BY <2>2, <3>1, <3>2, <3>3 DEF TypeOK
  <2>4. InFlight = {}
    BY <2>1 DEF InFlight, Idle
  <2>5. Cardinality(InFlight) = 0
    BY <2>4, FS_EmptySet
  <2>6. LimiterInv
    BY <2>1, <2>2, <2>5 DEF LimiterInv, NoEntry
  <2>7. Live = {}
    BY <2>1 DEF Live
  <2>8. AdminInv
    BY <2>1, <2>7 DEF AdminInv, LocalAdminStays, Idle
  <2>9. OwnerInv
    BY <2>1 DEF OwnerInv, ActsForItsOwner, Knows, Idle
  <2>10. StateInv
    BY <2>1 DEF StateInv, OneSessionPerState, Idle, NoSession
  <2> QED BY <2>3, <2>6, <2>8, <2>9, <2>10 DEF IInv
<1>2. IInv /\ [Next]_vars => IInv'
  BY TypesStay, LimiterStays, AdminStays, OwnerStays, StateStays DEF IInv, OwnerInv
<1> QED BY <1>1, <1>2, PTL DEF Spec

\* Every variable has its type, for any number of requests, addresses and
\* failures allowed; the entry of the limiter counts no further than the failures
\* that lock and those of the attempts let in before (auth/limiter.go:25-51).
THEOREM TypeCorrect == Spec => []TypeOK
<1>1. IInv => TypeOK
  BY DEF IInv
<1> QED BY <1>1, Inductive, PTL

\* Once the hub has an account it has a local administrator, whatever requests
\* are interleaved with the demotion or removal of another (users.go:99-162).
THEOREM LocalAdminAlways == Spec => []LocalAdminStays
<1>1. IInv => LocalAdminStays
  BY DEF IInv, AdminInv
<1> QED BY <1>1, Inductive, PTL

\* A session acts for the person who signed in, and a Microsoft sign-in opens one
\* at most (users.go:140-162, entra.go:184).
THEOREM SessionsAlwaysTheirs == Spec => []SessionsAreTheirs
<1>1. IInv => SessionsAreTheirs
  BY DEF IInv, OwnerInv, StateInv, SessionsAreTheirs
<1> QED BY <1>1, Inductive, PTL

\* Concurrent attempts exceed the limit of failures by at most the requests there
\* are, less one (auth/limiter.go:39, api_auth.go:66).
THEOREM GuessesAlwaysBounded == Spec => []GuessesBounded
<1>1. IInv => GuessesBounded
  <2> SUFFICES ASSUME IInv PROVE GuessesBounded
    OBVIOUS
  <2>1. Len(guesses) <= limiter.n /\ limiter.n \in Nat
        /\ limiter.n <= MaxFailures + Cardinality(Requests) - 1 /\ Len(guesses) \in Nat
    BY Constants, LenProperties DEF IInv, TypeOK, LimiterInv
  <2> QED BY <2>1, Constants DEF GuessesBounded
<1> QED BY <1>1, Inductive, PTL
=============================================================================

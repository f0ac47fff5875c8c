------------------------------ MODULE Accounts ------------------------------
(***************************************************************************)
(* Accounts: consumer identities with their password lock and sessions     *)
(* (internal/identity), the webmaster profiles linked to them, and the     *)
(* sessions of the webmaster API (internal/webmaster).                     *)
(*                                                                         *)
(* A login is several statements: the account is read and the password     *)
(* checked, then the outcome is recorded, then a session is inserted.      *)
(* Other requests run between them, so each is an action and the request   *)
(* carries what it has read.  Tokens and hashes are opaque: a session is   *)
(* the row its token finds, a password hash is the password it was made    *)
(* from and whether its parameters are the current ones.                   *)
(*                                                                         *)
(* net/http runs each request in its own goroutine, so between two         *)
(* statements of one request others run; what a request has read so far is *)
(* the record it carries.                                                  *)
(***************************************************************************)
EXTENDS Ordering, Naturals, Sequences, FiniteSets

CONSTANTS Clients,          \* requests served at the same time
          People,           \* persons, each with one e-mail address
          Passwords,        \* passwords they may choose or guess
          NoPassword,       \* of an account that does not exist
          Weak,             \* the ones HashPassword refuses for their length
          MaxFailures,      \* 5 in RecordLoginFailure
          SessionCap,       \* 8 in CreateSession
          WebmasterCap,     \* 10 in webmaster_bound_sessions
          MaxSessions,      \* bound: consumer sessions ever created
          MaxOpened,        \* bound: webmaster sessions ever created
          MaxGuesses        \* bound: wrong passwords tried

NoHash == [pw |-> NoPassword, current |-> FALSE]
Hashes == [pw : Passwords, current : BOOLEAN] \cup {NoHash}

ASSUME AccountAssumptions ==
    /\ NoPassword \notin Passwords /\ Weak \subseteq Passwords
    /\ IsFiniteSet(Clients)
    /\ MaxFailures \in 1..20        \* failed_login_count stops at 20
    /\ SessionCap \in Nat \ {0}
    /\ WebmasterCap \in Nat \ {0} /\ MaxSessions \in Nat /\ MaxOpened \in Nat /\ MaxGuesses \in Nat

VARIABLES request,      \* request[c]: the step c is at and what it has read
          consumer,     \* consumer[p]: the consumer_users row, hash NoHash if none
          profile,      \* profile[p]: hash of the webmaster_users row, NoHash if none
          sessions,     \* consumer_sessions in the order of session_id
          wmSessions,   \* webmaster_sessions, least recently seen first
          guesses,      \* wrong passwords the consumer login recorded since the
                        \* last success or unlock
          tried,        \* wrong passwords ever tried at either login (bounds the run)
          opened        \* webmaster sessions ever opened (their ids)
accountVars == <<consumer, profile, sessions, wmSessions, request, guesses, tried, opened>>

Idle == [step |-> "idle"]
NoRequests == request = [c \in Clients |-> Idle]
Ask(c, r) == request' = [request EXCEPT ![c] = r]
Respond(c) == Ask(c, Idle)

Exists(p) == consumer[p].hash # NoHash
LiveSessions(p) == {i \in DOMAIN sessions : sessions[i].user = p /\ sessions[i].live}
WebmasterSessionsOf(p) == Kept(wmSessions, {i \in DOMAIN wmSessions : wmSessions[i].user = p})

ConsumerRow == [hash : Hashes, fails : Nat, locked : BOOLEAN]
SessionRow == [user : People, live : BOOLEAN, csrf : Nat]
AccountTypeOK ==
    /\ consumer \in [People -> ConsumerRow]
    /\ profile \in [People -> Hashes]
    /\ \A i \in DOMAIN sessions : sessions[i] \in SessionRow
    /\ \A i \in DOMAIN wmSessions : wmSessions[i] \in [user : People, id : Nat, live : BOOLEAN]
    /\ guesses \in [People -> Nat]
    /\ tried \in 0..MaxGuesses
    /\ opened \in 0..MaxOpened

\* Accounts made before consumer identities have a pbkdf2 hash (migration 36).
AccountInit ==
    /\ consumer \in [People -> [hash : [pw : Passwords \ Weak, current : {FALSE}] \cup {NoHash},
                                fails : {0}, locked : {FALSE}]]
    /\ profile = [p \in People |-> consumer[p].hash]
    /\ sessions = <<>>
    /\ wmSessions = <<>>
    /\ NoRequests
    /\ guesses = [p \in People |-> 0]
    /\ tried = 0
    /\ opened = 0

\* HashPassword: argon2id with the current parameters.
HashPassword(pw) == [pw |-> pw, current |-> TRUE]
\* webmaster/auth HashPassword: pbkdf2, which identity calls out of date.
WebmasterHash(pw) == [pw |-> pw, current |-> FALSE]
\* VerifyPassword and whether the stored hash needs to be made again.
VerifyPassword(hash, pw) == hash.pw = pw
NeedsRehash(hash, pw) == VerifyPassword(hash, pw) /\ ~hash.current
\* webmaster/auth VerifyPassword reads both schemes.
WebmasterVerify(hash, pw) == hash.pw = pw

-----------------------------------------------------------------------------
(* Consumer accounts.                                                      *)

\* A second account for the e-mail is a conflict.
CreateUser(p, hash) == ~Exists(p) /\ consumer' = [consumer EXCEPT ![p] = [hash |-> hash, fails |-> 0, locked |-> FALSE]]
\* newSession: the tokens are drawn, then CreateSession runs.
newSession(c, p) == Ask(c, [step |-> "session", user |-> p])
Register(c, p) == \E pw \in Passwords \ Weak :
    /\ CreateUser(p, HashPassword(pw)) /\ newSession(c, p)
    /\ UNCHANGED <<profile, sessions, wmSessions, guesses, tried, opened>>
PostRegister(c) == request[c] = Idle /\ \E p \in People : Register(c, p)

\* Mutant of LoginAllowed: the lock is only looked at when the session is created.
LoginAnyTime(p) == Exists(p)
LoginAllowed(p) == Exists(p) /\ ~consumer[p].locked

\* Login up to the password check; what follows uses the row read here.
Login(c, p) == \E pw \in Passwords : LET hash == consumer[p].hash IN
    /\ LoginAllowed(p)
    /\ \/ /\ VerifyPassword(hash, pw)
          /\ Ask(c, [step |-> "success", user |-> p, pw |-> pw, rehash |-> NeedsRehash(hash, pw)])
          /\ UNCHANGED tried
       \/ /\ ~VerifyPassword(hash, pw) /\ tried < MaxGuesses
          /\ tried' = tried + 1
          /\ Ask(c, [step |-> "failure", user |-> p])
    /\ UNCHANGED <<consumer, profile, sessions, wmSessions, guesses, opened>>
PostLogin(c) == request[c] = Idle /\ \E p \in People : Login(c, p)

\* The count survives the lock, so the first failure after it locks again.
RecordLoginFailure(c) == LET p == request[c].user IN
    /\ request[c].step = "failure"
    /\ consumer' = [consumer EXCEPT
           ![p].fails = IF @ < 20 THEN @ + 1 ELSE 20,
           ![p].locked = consumer[p].locked \/ consumer[p].fails + 1 >= MaxFailures]
    /\ guesses' = [guesses EXCEPT ![p] = @ + 1]
    /\ Respond(c)
    /\ UNCHANGED <<profile, sessions, wmSessions, tried, opened>>

\* An out-of-date hash is replaced in both tables before the login counts.
UpdatePasswordHash(c) == LET p == request[c].user  hash == HashPassword(request[c].pw) IN
    /\ request[c].step = "success" /\ request[c].rehash
    /\ consumer' = [consumer EXCEPT ![p].hash = hash]
    /\ profile' = [profile EXCEPT ![p] = IF @ = NoHash THEN NoHash ELSE hash]
    /\ Ask(c, [request[c] EXCEPT !.rehash = FALSE])
    /\ UNCHANGED <<sessions, wmSessions, guesses, tried, opened>>

RecordLoginSuccess(c) == LET p == request[c].user IN
    /\ request[c].step = "success" /\ ~request[c].rehash
    /\ consumer' = [consumer EXCEPT ![p].fails = 0, ![p].locked = FALSE]
    /\ guesses' = [guesses EXCEPT ![p] = 0]
    /\ newSession(c, p)
    /\ UNCHANGED <<profile, sessions, wmSessions, tried, opened>>

\* Mutant of KeepNewest: revokes the sessions beyond the first eight, oldest first.
KeepOldest(all, p) ==
    LET live == {i \in DOMAIN all : all[i].user = p /\ all[i].live}
        Older(i) == {j \in live : j < i}
    IN  [i \in DOMAIN all |->
            IF i \in live /\ Cardinality(Older(i)) > SessionCap THEN [all[i] EXCEPT !.live = FALSE] ELSE all[i]]

\* ORDER BY created_at DESC, session_id DESC OFFSET 8 is revoked.
KeepNewest(all, p) ==
    LET live == {i \in DOMAIN all : all[i].user = p /\ all[i].live}
        Newer(i) == {j \in live : j > i}
    IN  [i \in DOMAIN all |->
            IF i \in live /\ Cardinality(Newer(i)) >= SessionCap THEN [all[i] EXCEPT !.live = FALSE] ELSE all[i]]

\* CreateSession, under the lock of the user row; refused while locked.
CreateSession(c) == LET p == request[c].user IN
    /\ request[c].step = "session"
    /\ \/ consumer[p].locked /\ UNCHANGED sessions
       \/ /\ ~consumer[p].locked
          /\ Len(sessions) < MaxSessions
          /\ sessions' = KeepNewest(Append(sessions, [user |-> p, live |-> TRUE, csrf |-> 0]), p)
    /\ Respond(c)
    /\ UNCHANGED <<consumer, profile, wmSessions, guesses, tried, opened>>

\* The row must be neither revoked nor expired.
AuthenticateSession(i) == sessions[i].live
\* RequireAuth: the request goes on with the session and the csrf hash it read.
RequireAuth(c) == \E i \in DOMAIN sessions :
    /\ request[c] = Idle /\ AuthenticateSession(i)
    /\ Ask(c, [step |-> "authenticated", user |-> sessions[i].user, session |-> i, csrf |-> sessions[i].csrf])
    /\ UNCHANGED <<consumer, profile, sessions, wmSessions, guesses, tried, opened>>

\* GET /csrf replaces the token; it needs the session to be live still.
RotateCSRF(i) ==
    \/ ~sessions[i].live /\ UNCHANGED sessions
    \/ /\ sessions[i].live /\ sessions[i].csrf < 1       \* bound: rotations
       /\ sessions' = [sessions EXCEPT ![i].csrf = @ + 1]
GetCSRF(c) ==
    /\ request[c].step = "authenticated" /\ RotateCSRF(request[c].session)
    /\ Respond(c)
    /\ UNCHANGED <<consumer, profile, wmSessions, guesses, tried, opened>>

\* RequireCSRF compares the header with the hash read by RequireAuth.
VerifyCSRF(c, header) == header = request[c].csrf

RevokeSession(p, i) == sessions[i].user = p /\ sessions' = [sessions EXCEPT ![i].live = FALSE]
\* POST /logout (the caller's own session) and /sessions/{id}/revoke.
PostRevoke(c) == \E i \in DOMAIN sessions, header \in 0..1 :
    /\ request[c].step = "authenticated"
    /\ VerifyCSRF(c, header) /\ RevokeSession(request[c].user, i)
    /\ Respond(c)
    /\ UNCHANGED <<consumer, profile, wmSessions, guesses, tried, opened>>

\* The portal reads the profile and goes on if there is one.
RequireConsumer(c) == LET p == request[c].user IN
    /\ request[c].step = "authenticated"
    /\ IF profile[p] = NoHash THEN Ask(c, [step |-> "profile", user |-> p]) ELSE Respond(c)
    /\ UNCHANGED <<consumer, profile, sessions, wmSessions, guesses, tried, opened>>

\* Otherwise it inserts one; a profile made meanwhile takes the consumer's hash.
EnsureWebmasterProfile(c) == LET p == request[c].user IN
    /\ request[c].step = "profile"
    /\ profile' = [profile EXCEPT ![p] = consumer[p].hash]
    /\ Respond(c)
    /\ UNCHANGED <<consumer, sessions, wmSessions, guesses, tried, opened>>

-----------------------------------------------------------------------------
(* The webmaster API's own accounts and sessions.                          *)

\* The insert trigger links the consumer of the same e-mail, or creates it
\* with the same hash.
WebmasterCreateUser(p, hash) ==
    /\ profile[p] = NoHash
    /\ profile' = [profile EXCEPT ![p] = hash]
    /\ consumer' = [consumer EXCEPT ![p].hash = IF @ = NoHash THEN hash ELSE @]
WebmasterNewSession(c, p) == Ask(c, [step |-> "wmSession", user |-> p])
WebmasterRegister(c, p) == \E pw \in Passwords \ Weak :
    /\ WebmasterCreateUser(p, WebmasterHash(pw)) /\ WebmasterNewSession(c, p)
    /\ UNCHANGED <<sessions, wmSessions, guesses, tried, opened>>
PostWebmasterRegister(c) == request[c] = Idle /\ \E p \in People : WebmasterRegister(c, p)

\* UserByEmail and the password check: the lock is not looked at and a wrong
\* password is answered without being recorded.
WebmasterLogin(c, p) == \E pw \in Passwords :
    /\ profile[p] # NoHash
    /\ \/ WebmasterVerify(profile[p], pw) /\ WebmasterNewSession(c, p) /\ UNCHANGED tried
       \/ /\ ~WebmasterVerify(profile[p], pw) /\ tried < MaxGuesses
          /\ tried' = tried + 1
          /\ Respond(c)
    /\ UNCHANGED <<consumer, profile, sessions, wmSessions, guesses, opened>>
PostWebmasterLogin(c) == request[c] = Idle /\ \E p \in People : WebmasterLogin(c, p)

\* Mutant of Evicted: the trigger stops one row late.
EvictedLate(seen, p) ==
    LET rows == {i \in DOMAIN seen : seen[i].user = p}
        own == {i \in rows : seen[i].live}
        over == IF Cardinality(own) > WebmasterCap THEN Cardinality(own) - WebmasterCap ELSE 0
        first == {i \in own : Cardinality({j \in own : j < i}) < over}
    IN  {seen[i].id : i \in (rows \ own) \cup first}

\* webmaster_bound_sessions: expired rows go, then the least recently seen
\* until fewer than ten are left.
Evicted(seen, p) ==
    LET rows == {i \in DOMAIN seen : seen[i].user = p}
        own == {i \in rows : seen[i].live}
        over == IF Cardinality(own) >= WebmasterCap THEN Cardinality(own) - WebmasterCap + 1 ELSE 0
        first == {i \in own : Cardinality({j \in own : j < i}) < over}
    IN  {seen[i].id : i \in (rows \ own) \cup first}

\* The trigger counts what its statement sees; no lock keeps another insert out.
WebmasterTrigger(c) ==
    /\ request[c].step = "wmSession"
    /\ Ask(c, [step |-> "wmInsert", user |-> request[c].user, evict |-> Evicted(wmSessions, request[c].user)])
    /\ UNCHANGED <<consumer, profile, sessions, wmSessions, guesses, tried, opened>>

WebmasterCreateSession(c) ==
    /\ request[c].step = "wmInsert"
    /\ opened < MaxOpened
    /\ opened' = opened + 1
    /\ wmSessions' = Append(Kept(wmSessions, {i \in DOMAIN wmSessions : wmSessions[i].id \notin request[c].evict}),
                            [user |-> request[c].user, id |-> opened + 1, live |-> TRUE])
    /\ Respond(c)
    /\ UNCHANGED <<consumer, profile, sessions, guesses, tried>>

\* last_seen_at moves the session to the end of the order.
Others(s) == Kept(wmSessions, {i \in DOMAIN wmSessions : wmSessions[i] # s})
UserBySession(s) == wmSessions' = Append(Others(s), s)
DeleteSession(s) == wmSessions' = Others(s)
\* RequireAuth of the webmaster API, and POST /logout after it.
WebmasterAuth == \E i \in DOMAIN wmSessions :
    /\ wmSessions[i].live
    /\ UserBySession(wmSessions[i]) \/ DeleteSession(wmSessions[i])
    /\ UNCHANGED <<consumer, profile, sessions, request, guesses, tried, opened>>

-----------------------------------------------------------------------------
(* Time, and requests that end early.                                      *)

UnlockTime(p) ==
    /\ consumer[p].locked
    /\ consumer' = [consumer EXCEPT ![p].locked = FALSE]
    /\ guesses' = [guesses EXCEPT ![p] = 0]
    /\ UNCHANGED <<profile, sessions, wmSessions, request, tried, opened>>

SessionExpires ==
    /\ \/ /\ \E i \in DOMAIN sessions : sessions[i].live /\ sessions' = [sessions EXCEPT ![i].live = FALSE]
          /\ UNCHANGED wmSessions
       \/ /\ \E i \in DOMAIN wmSessions : wmSessions[i].live /\ wmSessions' = [wmSessions EXCEPT ![i].live = FALSE]
          /\ UNCHANGED sessions
    /\ UNCHANGED <<consumer, profile, request, guesses, tried, opened>>

\* The database fails or the request is cancelled: what is committed stays.
RequestFails(c) ==
    /\ request[c] # Idle
    /\ Respond(c)
    /\ UNCHANGED <<consumer, profile, sessions, wmSessions, guesses, tried, opened>>

AccountNext ==
    \/ \E c \in Clients :
          \/ PostRegister(c) \/ PostLogin(c) \/ PostWebmasterRegister(c) \/ PostWebmasterLogin(c)
          \/ RecordLoginFailure(c) \/ UpdatePasswordHash(c) \/ RecordLoginSuccess(c) \/ CreateSession(c)
          \/ RequireAuth(c) \/ GetCSRF(c) \/ PostRevoke(c) \/ RequireConsumer(c) \/ EnsureWebmasterProfile(c)
          \/ WebmasterTrigger(c) \/ WebmasterCreateSession(c) \/ RequestFails(c)
    \/ WebmasterAuth \/ SessionExpires
    \/ \E p \in People : UnlockTime(p)

AccountSpec == AccountInit /\ [][AccountNext]_accountVars

-----------------------------------------------------------------------------
(* The lock bounds guessing at the consumer login although it is read long *)
(* before the failure is recorded: between two successes or unlocks that   *)
(* login takes MaxFailures wrong passwords for an account, and one more    *)
(* for every other request that had passed the lock by then.               *)
(* It says nothing of the webmaster login, which checks the same password  *)
(* without lock or count (webmaster/service.go:61-69): the wrong passwords *)
(* tried on an account at both logins together have no bound in the code.  *)
ConsumerGuessesBounded ==
    \A p \in People : guesses[p] < MaxFailures + Cardinality(Clients)

(* A user has SessionCap live consumer sessions at most, because the user  *)
(* row is locked while they are counted; webmaster sessions are counted    *)
(* without a lock, so each racing login may add one to WebmasterCap.       *)
SessionsBounded == \A p \in People :
    /\ Cardinality(LiveSessions(p)) <= SessionCap
    /\ Len(WebmasterSessionsOf(p)) < WebmasterCap + Cardinality(Clients)

(* The portal's accounts stay bounded under racing requests, in the wrong  *)
(* passwords of the consumer login and in the sessions of both logins      *)
(* (identity and webmaster, service.go and repository.go).                 *)
AccountsBounded == AccountTypeOK /\ ConsumerGuessesBounded /\ SessionsBounded
=============================================================================

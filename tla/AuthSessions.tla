---------------------------- MODULE AuthSessions ----------------------------
(***************************************************************************)
(* Application authentication (packages/app-auth and the routes that use   *)
(* it): the tables users and sessions, the process-local counters of       *)
(* failed logins, and the requests that log in, use, end or revoke         *)
(* sessions and administer users.  A request awaits the database or the    *)
(* password hash between any two of its steps, and time may pass there.    *)
(*                                                                         *)
(* A password is a model value; verifying it compares with the one whose   *)
(* hash the login has read.  One client address stands for all.            *)
(*                                                                         *)
(* Left out: the token and its hash, cookies, the CSRF and origin checks   *)
(* that come before every step here and change nothing, audit events, and  *)
(* the membership cache that deactivateUser empties.                       *)
(*                                                                         *)
(* A definition that follows a similar one with a name such as             *)
(* AdmitsAnyStatus is what the code does; the one before it has a bug and  *)
(* is there to see that a property notices.                                *)
(***************************************************************************)
EXTENDS Integers, FiniteSets

CONSTANTS
    Users,          \* rows users may ever have
    FirstAdmin,     \* the administrator that exists from the start
    Passwords,
    SessionIds,     \* rows sessions may ever have
    Requests,       \* requests that may be in progress
    None,
    MaxFailures,    \* FAILURES_BEFORE_LOCK
    LockTime,       \* LOCK_MS, in clock ticks
    IpFailures,     \* IP_MAX_FAILURES
    IpWindow,       \* IP_WINDOW_MS, in clock ticks
    IdleTime,       \* policy.idleTtlSeconds, in clock ticks
    FullTime,       \* policy.absTtlSeconds, in clock ticks
    TouchTime,      \* a session is touched when it was not for this long
    Latency,        \* longest time a request waits with a time it has read
    MaxClock        \* bound of the model: the clock stops here

ASSUME AuthAssumption ==
    /\ FirstAdmin \in Users
    /\ SessionIds \subseteq Nat \ {0}
    /\ {MaxFailures, LockTime, IpFailures, IpWindow} \subseteq Nat \ {0}
    /\ {IdleTime, FullTime} \subseteq Nat \ {0}
    /\ {TouchTime, Latency, MaxClock} \subseteq Nat
    /\ IsFiniteSet(Requests)
    /\ None \notin Users \cup Passwords \cup Nat

VARIABLES
    clock,
    users,      \* the table users
    sessions,   \* the table sessions
    bucket,     \* ipBuckets: the failures of the address, and when they lapse
    req,        \* the progress of each request
    lastUse,    \* history: when a request was last let in with each session
    streak,     \* history: wrong passwords per user since the last right one
    disturbed   \* history: requests overlapped, or one stopped half done

tables == <<users, sessions, bucket>>
history == <<lastUse, streak, disturbed>>
vars == <<clock, tables, req, history>>

Roles == {"admin", "developer"}

User == [status   : {"none", "active", "deactivated"},
         role     : Roles \cup {None},
         password : Passwords \cup {None},
         failed   : Nat,
         lockedUntil : Nat]          \* 0 for NULL

Session == [status : {"none", "live", "revoked"},
            user   : Users \cup {None},
            password  : Passwords \cup {None},  \* history: what it was opened with
            expiresAt : Nat,
            lastSeen  : Nat]

Labels == {"validate", "touch", "expire", "find", "verify", "failures", "count", "succeed",
           "rotate", "open", "revoke", "revokeAll", "insert", "retire", "reset"}

Kinds == {"login", "visit", "logout", "revokeAll", "create", "deactivate", "reset"}

ASSUME NoneAssumption == None \notin Labels \cup Kinds

\* What a request holds: the session it came with, the user it is about, the
\* password it brings, and what it has read: a time, and columns of the user.
Request == [kind : Kinds \cup {None}, at : Labels \cup {None},
            session : SessionIds \cup {None}, user : Users \cup {None},
            password : Passwords \cup {None}, now : Nat, row : User \cup {None},
            barred : BOOLEAN]       \* history: came with a deactivated user's session

Idle == [kind |-> None, at |-> None, session |-> None, user |-> None,
         password |-> None, now |-> 0, row |-> None, barred |-> FALSE]

Busy(r) == req[r].kind # None
At(r, label) == req[r].at = label
Goto(r, label) == req' = [req EXCEPT ![r].at = label]
End(r) == req' = [req EXCEPT ![r] = Idle]

NewUserLockUnset(role, password) == [status |-> "active", role |-> role, password |-> password,
                                     failed |-> 0, lockedUntil |-> None]
NewUser(role, password) == [status |-> "active", role |-> role, password |-> password,
                            failed |-> 0, lockedUntil |-> 0]

Init ==
    /\ clock = 0
    /\ \E p \in Passwords :
          users = [u \in Users |-> IF u = FirstAdmin THEN NewUser("admin", p)
                                   ELSE [status |-> "none", role |-> None, password |-> None,
                                         failed |-> 0, lockedUntil |-> 0]]
    /\ sessions = [s \in SessionIds |-> [status |-> "none", user |-> None, password |-> None,
                                         expiresAt |-> 0, lastSeen |-> 0]]
    /\ bucket = [count |-> 0, resetAt |-> 0]
    /\ req = [r \in Requests |-> Idle]
    /\ lastUse = [s \in SessionIds |-> 0]
    /\ streak = [u \in Users |-> 0]
    /\ disturbed = FALSE

Is(u, status) == u # None /\ users[u].status = status
Live(s) == s # None /\ sessions[s].status = "live"

\* Some requests stop, or others come while they are under way.
Alone == ~disturbed /\ \A r \in Requests : ~Busy(r)

\* A request comes, with the session of its cookie.
Begin(r, kind, s, u, p) ==
    /\ ~Busy(r)
    /\ s # None => sessions[s].status # "none"
    /\ req' = [req EXCEPT ![r] =
                 [Idle EXCEPT !.kind = kind, !.at = "validate", !.session = s, !.user = u,
                              !.password = p,
                              !.barred = s # None /\ Is(sessions[s].user, "deactivated")]]
    /\ disturbed' = (disturbed \/ \E other \in Requests : Busy(other))
    /\ UNCHANGED <<clock, tables, lastUse, streak>>

-----------------------------------------------------------------------------
(* validateToken                                                           *)

Expired(s) == sessions[s].expiresAt <= clock
IsIdle(s) == sessions[s].lastSeen + IdleTime <= clock

AdmitsAnyStatus(s) == Live(s) /\ ~Expired(s) /\ ~IsIdle(s)
Admits(s) == Live(s) /\ ~Expired(s) /\ ~IsIdle(s) /\ Is(sessions[s].user, "active")

\* What comes after requireUser or requireAdmin, kind by kind.
Privileged == {"create", "deactivate", "reset"}
MayGoOnAnyTarget(r) ==
    req[r].kind \in Privileged => users[sessions[req[r].session].user].role = "admin"
MayGoOn(r) ==
    LET actor == sessions[req[r].session].user IN
    /\ req[r].kind \in Privileged => users[actor].role = "admin"
    /\ req[r].kind = "deactivate" => req[r].user # actor

FirstStep == [logout |-> "revoke", revokeAll |-> "revokeAll", create |-> "insert",
              deactivate |-> "retire", reset |-> "reset"]

\* assertIpAllowed
IpAllowedOneMore == ~(bucket.resetAt > clock /\ bucket.count > IpFailures)
IpAllowed == ~(bucket.resetAt > clock /\ bucket.count >= IpFailures)

\* login, with the session it replaces or none.
StartLogin(r, prior) ==
    IF IpAllowed THEN req' = [req EXCEPT ![r].at = "find", ![r].session = prior, ![r].now = 0,
                                         ![r].barred = FALSE]
                 ELSE End(r)

LetIn(r) ==
    IF req[r].kind = "login" THEN StartLogin(r, req[r].session)
    ELSE IF req[r].kind = "visit" \/ ~MayGoOn(r) THEN End(r)
    ELSE req' = [req EXCEPT ![r].at = FirstStep[req[r].kind], ![r].now = 0]

TurnAway(r) == IF req[r].kind = "login" THEN StartLogin(r, None) ELSE End(r)

\* The row is read and judged at one time; a session that is to be touched or
\* revoked is written later.
Used(s, now) == lastUse' = [lastUse EXCEPT ![s] = IF now > @ THEN now ELSE @]
NeedsTouch(s) == clock - sessions[s].lastSeen > TouchTime
EndsIdle(r) == At(r, "validate") /\ Live(req[r].session) /\ ~Expired(req[r].session)
                                 /\ IsIdle(req[r].session)

Validate(r) ==
    /\ At(r, "validate")
    /\ LET s == req[r].session IN
       CASE EndsIdle(r) -> req' = [req EXCEPT ![r].at = "expire"] /\ UNCHANGED lastUse
         [] ~EndsIdle(r) /\ ~Admits(s) -> TurnAway(r) /\ UNCHANGED lastUse
         [] Admits(s) /\ NeedsTouch(s) ->
               req' = [req EXCEPT ![r].at = "touch", ![r].now = clock] /\ UNCHANGED lastUse
         [] OTHER -> LetIn(r) /\ Used(s, clock)
    /\ UNCHANGED <<tables, streak>>

TouchAtWrite(s, now) == sessions' = [sessions EXCEPT ![s].lastSeen = clock]
TouchReviving(s, now) == sessions' = [sessions EXCEPT ![s].lastSeen = now, ![s].status = "live"]
TouchSession(s, now) == sessions' = [sessions EXCEPT ![s].lastSeen = now]

Touch(r) ==
    /\ At(r, "touch")
    /\ TouchSession(req[r].session, req[r].now)
    /\ Used(req[r].session, req[r].now)
    /\ LetIn(r)
    /\ UNCHANGED <<users, bucket, streak>>

Revoked(chosen) == [s \in SessionIds |-> IF s \in chosen THEN [sessions[s] EXCEPT !.status = "revoked"]
                                                         ELSE sessions[s]]
LiveSessions(u) == {s \in SessionIds : Live(s) /\ sessions[s].user = u}

ExpireIdle(r) ==
    /\ At(r, "expire")
    /\ sessions' = Revoked({req[r].session})
    /\ TurnAway(r)
    /\ UNCHANGED <<users, bucket, lastUse, streak>>

-----------------------------------------------------------------------------
(* LocalPasswordAuthProvider.login                                         *)

Find(r) ==
    /\ At(r, "find")
    /\ LET u == req[r].user IN
       req' = [req EXCEPT ![r].at = "verify",
                          ![r].row = IF u = None \/ Is(u, "none") THEN None ELSE users[u]]
    /\ UNCHANGED <<tables, lastUse, streak>>

\* The first half of recordFailure, which awaits nothing.
CountForAddress ==
    bucket' = IF bucket.resetAt <= clock THEN [count |-> 1, resetAt |-> clock + IpWindow]
                                         ELSE [bucket EXCEPT !.count = @ + 1]

\* The password has been compared with the hash of the row found.
Verify(r) ==
    /\ At(r, "verify")
    /\ LET row == req[r].row IN
       IF row = None \/ row.password # req[r].password
       THEN /\ CountForAddress
            /\ IF row = None THEN End(r) /\ UNCHANGED streak
               ELSE /\ req' = [req EXCEPT ![r].at = "failures", ![r].now = clock, ![r].row = None]
                    /\ streak' = [streak EXCEPT ![req[r].user] = @ + 1]
       ELSE /\ UNCHANGED <<bucket, streak>>
            /\ IF row.lockedUntil > clock \/ row.status # "active" THEN End(r)
               ELSE req' = [req EXCEPT ![r].at = "succeed", ![r].row = None]
    /\ UNCHANGED <<users, sessions, lastUse>>

ReadFailures(r) ==
    /\ At(r, "failures")
    /\ req' = [req EXCEPT ![r].at = "count", ![r].row = users[req[r].user]]
    /\ UNCHANGED <<tables, lastUse, streak>>

LockFromOneMore(failed) == failed > MaxFailures
LockFrom(failed) == failed >= MaxFailures

CountFailure(r) ==
    /\ At(r, "count")
    /\ LET failed == req[r].row.failed + 1 IN
       users' = [users EXCEPT ![req[r].user].failed = failed,
                              ![req[r].user].lockedUntil =
                                  IF LockFrom(failed) THEN req[r].now + LockTime
                                                      ELSE req[r].row.lockedUntil]
    /\ End(r)
    /\ UNCHANGED <<sessions, bucket, lastUse, streak>>

\* recordSuccess; createSession begins as soon as it has returned.
Succeed(r) ==
    /\ At(r, "succeed")
    /\ users' = [users EXCEPT ![req[r].user].failed = 0, ![req[r].user].lockedUntil = 0]
    /\ streak' = [streak EXCEPT ![req[r].user] = 0]
    /\ req' = [req EXCEPT ![r].at = IF req[r].session = None THEN "open" ELSE "rotate",
                          ![r].now = clock]
    /\ UNCHANGED <<sessions, bucket, lastUse>>

Rotate(r) ==
    /\ At(r, "rotate")
    /\ sessions' = Revoked({req[r].session} \cap LiveSessions(req[r].user))
    /\ Goto(r, "open")
    /\ UNCHANGED <<users, bucket, lastUse, streak>>

Unused == {s \in SessionIds : sessions[s].status = "none"}

\* A new row, the first that is not there yet.
OpenSession(r) ==
    /\ At(r, "open")
    /\ \E s \in Unused :
          /\ \A t \in Unused : s <= t
          /\ sessions' = [sessions EXCEPT ![s] =
                            [status |-> "live", user |-> req[r].user, password |-> req[r].password,
                             expiresAt |-> req[r].now + FullTime, lastSeen |-> req[r].now]]
          /\ Used(s, req[r].now)
    /\ End(r)
    /\ UNCHANGED <<users, bucket, streak>>

-----------------------------------------------------------------------------
(* Ending sessions, and UserAdminService                                   *)

RevokeSession(r) ==
    /\ At(r, "revoke")
    /\ sessions' = Revoked({req[r].session} \cap {s \in SessionIds : Live(s)})
    /\ End(r)
    /\ UNCHANGED <<users, bucket, lastUse, streak>>

\* The caller, or the user just deactivated or reset.
TargetCaller(r) == sessions[req[r].session].user
Target(r) == IF req[r].kind = "revokeAll" THEN sessions[req[r].session].user ELSE req[r].user

RevokeAll(r) ==
    /\ At(r, "revokeAll")
    /\ sessions' = Revoked(LiveSessions(Target(r)))
    /\ End(r)
    /\ UNCHANGED <<users, bucket, lastUse, streak>>

\* The e-mail address is unique.
Insert(r) ==
    /\ At(r, "insert")
    /\ IF Is(req[r].user, "none")
       THEN \E role \in Roles : users' = [users EXCEPT ![req[r].user] = NewUser(role, req[r].password)]
       ELSE UNCHANGED users
    /\ End(r)
    /\ UNCHANGED <<sessions, bucket, lastUse, streak>>

Retire(r) ==
    /\ At(r, "retire")
    /\ IF Is(req[r].user, "none") THEN UNCHANGED users /\ End(r)
       ELSE users' = [users EXCEPT ![req[r].user].status = "deactivated"] /\ Goto(r, "revokeAll")
    /\ UNCHANGED <<sessions, bucket, lastUse, streak>>

ResetPassword(r) ==
    /\ At(r, "reset")
    /\ LET u == req[r].user IN
       IF Is(u, "none") THEN UNCHANGED <<users, streak>> /\ End(r)
       ELSE /\ users' = [users EXCEPT ![u].password = req[r].password, ![u].failed = 0,
                                      ![u].lockedUntil = 0]
            /\ streak' = [streak EXCEPT ![u] = 0]
            /\ Goto(r, "revokeAll")
    /\ UNCHANGED <<sessions, bucket, lastUse>>

-----------------------------------------------------------------------------
(* A login needs a row of sessions: the bound of the model on logins.  Its *)
(* cookie is the only one that may be missing where the request goes on.   *)
LoginsUnderWay == {r \in Requests : req[r].kind = "login"}
BeginLogin(r, s, u, p) ==
    /\ Cardinality(LoginsUnderWay) < Cardinality(Unused)
    /\ Begin(r, "login", s, u, p)
BeginVisit(r, s)         == Begin(r, "visit", s, None, None)
BeginLogout(r, s)        == Begin(r, "logout", s, None, None)
BeginRevokeAll(r, s)     == Begin(r, "revokeAll", s, None, None)
BeginCreate(r, s, u, p)  == Begin(r, "create", s, u, p)
BeginDeactivate(r, s, u) == Begin(r, "deactivate", s, u, None)
BeginReset(r, s, u, p)   == Begin(r, "reset", s, u, p)

\* A step of a request fails, and the request with it.
Fail(r) ==
    /\ Busy(r)
    /\ End(r)
    /\ disturbed' = (disturbed \/ req[r].at \notin {"validate", "find", "insert"})
    /\ UNCHANGED <<clock, tables, lastUse, streak>>

\* The counters of addresses are kept in the process.
Restart ==
    /\ req' = [r \in Requests |-> Idle]
    /\ bucket' = [count |-> 0, resetAt |-> 0]
    /\ disturbed' = (disturbed \/ \E r \in Requests : Busy(r))
    /\ UNCHANGED <<clock, users, sessions, lastUse, streak>>

Tick ==
    /\ clock < MaxClock
    /\ \A r \in Requests : At(r, "touch") \/ At(r, "failures") \/ At(r, "count")
                           \/ At(r, "rotate") \/ At(r, "open") => clock - req[r].now < Latency
    /\ clock' = clock + 1
    /\ UNCHANGED <<tables, req, history>>

Step(r) ==
    /\ \/ Validate(r) \/ Touch(r) \/ ExpireIdle(r)
       \/ Find(r) \/ Verify(r) \/ ReadFailures(r) \/ CountFailure(r)
       \/ Succeed(r) \/ Rotate(r) \/ OpenSession(r)
       \/ RevokeSession(r) \/ RevokeAll(r) \/ Insert(r) \/ Retire(r) \/ ResetPassword(r)
    /\ UNCHANGED <<clock, disturbed>>

Next ==
    \/ \E r \in Requests :
          \/ \E u \in Users \cup {None}, p \in Passwords, s \in SessionIds \cup {None} :
                BeginLogin(r, s, u, p)
          \/ \E s \in SessionIds :
                \/ BeginVisit(r, s) \/ BeginLogout(r, s) \/ BeginRevokeAll(r, s)
                \/ \E u \in Users : \/ BeginDeactivate(r, s, u)
                                    \/ \E p \in Passwords : \/ BeginCreate(r, s, u, p)
                                                            \/ BeginReset(r, s, u, p)
          \/ Step(r)
          \/ Fail(r)
    \/ Restart
    \/ Tick

Spec == Init /\ [][Next]_vars

-----------------------------------------------------------------------------
TypeOK ==
    /\ clock \in Nat
    /\ users \in [Users -> User]
    /\ sessions \in [SessionIds -> Session]
    /\ bucket \in [count : Nat, resetAt : Nat]
    /\ req \in [Requests -> Request]
    /\ lastUse \in [SessionIds -> Nat]
    /\ streak \in [Users -> Nat]
    /\ disturbed \in BOOLEAN

\* A session that was revoked never lives again, whatever a request that read
\* it before writes to it: the touch of validateToken comes after an await.
RevokedIsFinal ==
    [][\A s \in SessionIds : sessions[s].status = "revoked" => sessions'[s].status = "revoked"]_vars

\* The idle deadline is counted from the last use, give or take the time a
\* session goes untouched and the delay of a touch: touches are skipped while
\* the last is recent, and a late one writes an earlier time than is there.
Slack == IF TouchTime > Latency THEN TouchTime ELSE Latency
IdleCountsFromUse ==
    \A s \in SessionIds : Live(s) => /\ sessions[s].lastSeen <= lastUse[s]
                                     /\ lastUse[s] - sessions[s].lastSeen <= Slack

\* A request that comes with a session of a deactivated user gets nowhere,
\* also with a session that a login under way during the deactivation opened
\* after the user's sessions were revoked.
DeactivatedGetNowhere ==
    \A r \in Requests : req[r].barred => req[r].at \in {"validate", "expire"}

\* Between the check of the address's counter and its increment the password
\* is verified: only the logins under way together can exceed the limit.
FailuresPerWindow == bucket.count < IpFailures + Cardinality(Requests)

\* Where requests come one after the other and none stops half done: failures
\* are counted one by one and lock the account from MaxFailures on.
FailuresAreCounted ==
    Alone => \A u \in Users : /\ users[u].failed = streak[u]
                              /\ users[u].lockedUntil # 0 <=> streak[u] >= MaxFailures

\* Likewise: a session that lives belongs to an active user and was opened
\* with the password the user has now.
SessionsFitUsers ==
    Alone => \A s \in SessionIds : Live(s) =>
        /\ Is(sessions[s].user, "active")
        /\ sessions[s].password = users[sessions[s].user].password

\* Likewise: administrators deactivate each other but never themselves, so one
\* always remains.
SomeAdminRemains == Alone => \E u \in Users : Is(u, "active") /\ users[u].role = "admin"
=============================================================================

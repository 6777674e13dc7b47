------------------------- MODULE AuthSessionsProofs -------------------------
(***************************************************************************)
(* Proofs about AuthSessions, for any number of users, sessions and        *)
(* requests, however these overlap: types, the finality of revocation, the *)
(* accuracy of the idle deadline, the bar on deactivated users and the     *)
(* bound on failures per address.  And, where requests come one by one:    *)
(* the count of failures, the sessions users keep and the administrator    *)
(* who remains.                                                            *)
(***************************************************************************)
EXTENDS AuthSessions, FiniteSetTheorems, TLAPS

\* What a request at each label has read before it got there.
Fits(r) ==
    /\ req[r].at # None => req[r].kind # None
    /\ req[r].at = "verify" => \/ req[r].row = None
                               \/ req[r].row \in User /\ req[r].user \in Users
    /\ req[r].at \in {"failures", "count"} => req[r].user \in Users
    /\ req[r].at = "count" => req[r].row \in User

TypeInv == TypeOK /\ \A r \in Requests : Fits(r)

-----------------------------------------------------------------------------
LEMMA IdleRequest == Idle \in Request /\ Idle.at = None /\ Idle.kind = None /\ Idle.barred = FALSE
  BY DEF Idle, Request

LEMMA NoneIsNoLabel == \A label \in Labels \cup Kinds : label # None
  BY NoneAssumption

\* What a request becomes when it ends, changes its label or starts to log in.
LEMMA Ends ==
    ASSUME TypeInv, NEW r \in Requests, End(r)
    PROVE  req' \in [Requests -> Request] /\ req'[r] = Idle
           /\ \A q \in Requests \ {r} : req'[q] = req[q]
  BY IdleRequest DEF TypeInv, TypeOK, End

LEMMA LogsIn ==
    ASSUME TypeInv, NEW r \in Requests, NEW prior \in SessionIds \cup {None},
           req[r].kind # None, StartLogin(r, prior)
    PROVE  /\ req' \in [Requests -> Request]
           /\ \A q \in Requests \ {r} : req'[q] = req[q]
           /\ \/ req'[r] = Idle
              \/ /\ IpAllowed
                 /\ req'[r].at = "find" /\ req'[r].kind = req[r].kind
                 /\ req'[r].barred = FALSE
<1>1. CASE ~IpAllowed
  BY <1>1, Ends DEF StartLogin
<1>2. CASE IpAllowed
  BY <1>2 DEF StartLogin, TypeInv, TypeOK, Request, Labels
<1> QED BY <1>1, <1>2

LEMMA GoesOn ==
    ASSUME TypeInv, NEW r \in Requests, req[r].kind # None, LetIn(r)
    PROVE  /\ req' \in [Requests -> Request]
           /\ \A q \in Requests \ {r} : req'[q] = req[q]
           /\ \/ req'[r] = Idle
              \/ /\ IpAllowed
                 /\ req'[r].at = "find" /\ req'[r].kind = req[r].kind
                 /\ req'[r].barred = FALSE
              \/ /\ req'[r].at \in {"revoke", "revokeAll", "insert", "retire", "reset"}
                 /\ req'[r].kind = req[r].kind
                 /\ req'[r].barred = req[r].barred
<1>0. req[r] \in Request
  BY DEF TypeInv, TypeOK
<1>1. CASE req[r].kind = "login"
  BY <1>0, <1>1, LogsIn DEF LetIn, Request
<1>2. CASE req[r].kind # "login" /\ (req[r].kind = "visit" \/ ~MayGoOn(r))
  BY <1>2, Ends DEF LetIn
<1>3. CASE ~(req[r].kind = "login" \/ req[r].kind = "visit" \/ ~MayGoOn(r))
  <2>1. req' = [req EXCEPT ![r].at = FirstStep[req[r].kind], ![r].now = 0]
    BY <1>3 DEF LetIn
  <2>2. FirstStep[req[r].kind] \in {"revoke", "revokeAll", "insert", "retire", "reset"}
    BY <1>0, <1>3 DEF Request, Kinds, FirstStep
  <2> DEFINE row == [req[r] EXCEPT !.at = FirstStep[req[r].kind], !.now = 0]
  <2>3. row \in Request
    BY <1>0, <2>2 DEF Request, Labels
  <2>4. /\ row.at = FirstStep[req[r].kind] /\ row.kind = req[r].kind /\ row.user = req[r].user
        /\ row.barred = req[r].barred
    BY <1>0 DEF Request
  <2>5. req' = [req EXCEPT ![r] = row]
    BY <2>1 DEF TypeInv, TypeOK
  <2> HIDE DEF row
  <2>6. req \in [Requests -> Request]
    BY DEF TypeInv, TypeOK
  <2>7. req'[r] = row /\ req' \in [Requests -> Request] /\ \A q \in Requests \ {r} : req'[q] = req[q]
    BY <2>3, <2>5, <2>6
  <2> QED BY <2>2, <2>4, <2>7
<1> QED BY <1>1, <1>2, <1>3

LEMMA IsTurnedAway ==
    ASSUME TypeInv, NEW r \in Requests, req[r].kind # None, TurnAway(r)
    PROVE  /\ req' \in [Requests -> Request]
           /\ \A q \in Requests \ {r} : req'[q] = req[q]
           /\ \/ req'[r] = Idle
              \/ /\ IpAllowed
                 /\ req'[r].at = "find" /\ req'[r].kind = req[r].kind
                 /\ req'[r].barred = FALSE
<1>1. CASE req[r].kind = "login"
  BY <1>1, LogsIn DEF TurnAway
<1>2. CASE req[r].kind # "login"
  BY <1>2, Ends DEF TurnAway
<1> QED BY <1>1, <1>2

\* What validateToken comes to.
LEMMA ValidateOutcome ==
    ASSUME NEW r, Validate(r)
    PROVE  /\ At(r, "validate") /\ UNCHANGED <<tables, streak>>
           /\ \/ /\ EndsIdle(r) /\ UNCHANGED lastUse
                 /\ req' = [req EXCEPT ![r].at = "expire"]
              \/ TurnAway(r) /\ UNCHANGED lastUse
              \/ /\ Admits(req[r].session) /\ UNCHANGED lastUse
                 /\ req' = [req EXCEPT ![r].at = "touch", ![r].now = clock]
              \/ /\ Admits(req[r].session) /\ ~NeedsTouch(req[r].session)
                 /\ LetIn(r) /\ Used(req[r].session, clock)
<1> DEFINE s == req[r].session
<1>1. CASE EndsIdle(r)
  <2>1. ~Admits(s)
    BY <1>1 DEF EndsIdle, Admits
  <2> QED BY <1>1, <2>1 DEF Validate
<1>2. CASE ~EndsIdle(r) /\ ~Admits(s)
  BY <1>2 DEF Validate
<1>3. CASE ~EndsIdle(r) /\ Admits(s) /\ NeedsTouch(s)
  BY <1>3 DEF Validate
<1>4. CASE ~EndsIdle(r) /\ Admits(s) /\ ~NeedsTouch(s)
  BY <1>4 DEF Validate
<1> QED BY <1>1, <1>2, <1>3, <1>4

\* A session that is let in is there.
LEMMA AdmittedIsThere ==
    ASSUME TypeInv, NEW s \in SessionIds \cup {None}, Admits(s)
    PROVE  /\ s \in SessionIds /\ sessions[s].status = "live"
           /\ sessions[s].user \in Users /\ users[sessions[s].user].status = "active"
  BY DEF TypeInv, TypeOK, Session, Admits, Live, Is

-----------------------------------------------------------------------------
(* Types                                                                   *)

\* A step of one request keeps the invariant when the tables keep their types
\* and the request is in order afterwards.
LEMMA KeepsTypes ==
    ASSUME TypeInv, NEW r \in Requests,
           req' \in [Requests -> Request], \A q \in Requests \ {r} : req'[q] = req[q],
           Fits(r)',
           clock' \in Nat, users' \in [Users -> User], sessions' \in [SessionIds -> Session],
           bucket' \in [count : Nat, resetAt : Nat], lastUse' \in [SessionIds -> Nat],
           streak' \in [Users -> Nat], disturbed' \in BOOLEAN
    PROVE  TypeInv'
  BY DEF TypeInv, TypeOK, Fits

LEMMA IdleFits ==
    ASSUME NEW r, req'[r] = Idle
    PROVE  Fits(r)'
  BY IdleRequest, NoneIsNoLabel DEF Fits, Labels

LEMMA UsedKeepsType ==
    ASSUME TypeInv, NEW s, NEW n \in Nat, Used(s, n)
    PROVE  lastUse' \in [SessionIds -> Nat]
  BY DEF TypeInv, TypeOK, Used

LEMMA RevokedKeepsType ==
    ASSUME TypeInv, NEW chosen, sessions' = Revoked(chosen)
    PROVE  sessions' \in [SessionIds -> Session]
  BY DEF TypeInv, TypeOK, Session, Revoked

LEMMA BeginsInOrder ==
    ASSUME TypeInv, NEW r \in Requests, NEW kind \in Kinds, NEW s \in SessionIds \cup {None},
           NEW u \in Users \cup {None}, NEW p \in Passwords \cup {None}, Begin(r, kind, s, u, p)
    PROVE  TypeInv'
<1> DEFINE new == [Idle EXCEPT !.kind = kind, !.at = "validate", !.session = s, !.user = u,
                               !.password = p,
                               !.barred = s # None /\ Is(sessions[s].user, "deactivated")]
<1>1. new \in Request /\ new.at = "validate" /\ new.kind = kind
  <2>1. (s # None /\ Is(sessions[s].user, "deactivated")) \in BOOLEAN
    OBVIOUS
  <2>2. ASSUME NEW b \in BOOLEAN
        PROVE  [Idle EXCEPT !.kind = kind, !.at = "validate", !.session = s, !.user = u,
                            !.password = p, !.barred = b] \in Request
    BY IdleRequest DEF Request, Labels
  <2>3. new \in Request
    BY <2>1, <2>2
  <2> QED BY <2>3, IdleRequest DEF Request
<1>2. req' = [req EXCEPT ![r] = new]
  BY DEF Begin
<1>3. req' \in [Requests -> Request] /\ req'[r] = new /\ \A q \in Requests \ {r} : req'[q] = req[q]
  BY <1>1, <1>2 DEF TypeInv, TypeOK
<1>4. Fits(r)'
  BY <1>1, <1>3, NoneIsNoLabel DEF Fits
<1>5. /\ clock' \in Nat /\ users' \in [Users -> User] /\ sessions' \in [SessionIds -> Session]
      /\ bucket' \in [count : Nat, resetAt : Nat] /\ lastUse' \in [SessionIds -> Nat]
      /\ streak' \in [Users -> Nat] /\ disturbed' \in BOOLEAN
  BY DEF Begin, TypeInv, TypeOK, tables
<1> QED BY <1>3, <1>4, <1>5, KeepsTypes

\* A request has ended, or is at a label at which nothing it has read matters.
Elsewhere == {"find", "revoke", "revokeAll", "insert", "retire", "reset", "expire",
              "touch", "succeed", "rotate", "open"}
Moved(r) == \/ req'[r] = Idle
            \/ req'[r].kind # None /\ req'[r].at \in Elsewhere

LEMMA MovedFits ==
    ASSUME NEW r, Moved(r)
    PROVE  Fits(r)'
<1>1. CASE req'[r] = Idle
  BY <1>1, IdleFits
<1>2. CASE req'[r].kind # None /\ req'[r].at \in Elsewhere
  BY <1>2 DEF Fits, Elsewhere
<1> QED BY <1>1, <1>2 DEF Moved

LEMMA StepKeepsTypes ==
    ASSUME TypeInv, NEW r \in Requests, Step(r)
    PROVE  TypeInv'
<1>0. /\ req[r] \in Request /\ Fits(r)
      /\ clock' \in Nat /\ disturbed' \in BOOLEAN
  BY DEF TypeInv, TypeOK, Step
<1> DEFINE Rest == /\ users' \in [Users -> User] /\ sessions' \in [SessionIds -> Session]
                   /\ bucket' \in [count : Nat, resetAt : Nat]
                   /\ lastUse' \in [SessionIds -> Nat] /\ streak' \in [Users -> Nat]
           OnlyThis == /\ req' \in [Requests -> Request]
                       /\ \A q \in Requests \ {r} : req'[q] = req[q]
<1>b. ASSUME Rest, OnlyThis, Fits(r)' PROVE TypeInv'
  BY <1>0, <1>b, KeepsTypes
<1>a. ASSUME Rest, OnlyThis, Moved(r) PROVE TypeInv'
  BY <1>a, <1>b, MovedFits
<1>e. ASSUME Rest, End(r) PROVE TypeInv'
  BY <1>e, <1>a, Ends DEF Moved
<1>k. req[r].at # None => req[r].kind # None
  BY <1>0 DEF Fits
<1>1. CASE Validate(r)
  <2>0. req[r].kind # None /\ users' = users /\ sessions' = sessions /\ bucket' = bucket /\ streak' = streak
    BY <1>1, <1>k, NoneIsNoLabel DEF Validate, At, Labels, tables
  <2>r. /\ users \in [Users -> User] /\ sessions \in [SessionIds -> Session]
        /\ bucket \in [count : Nat, resetAt : Nat] /\ streak \in [Users -> Nat]
        /\ lastUse \in [SessionIds -> Nat] /\ clock \in Nat
    BY DEF TypeInv, TypeOK
  <2>1. CASE /\ UNCHANGED lastUse
             /\ req' = [req EXCEPT ![r].at = "expire"]
    <3>1. OnlyThis /\ req'[r].at = "expire" /\ req'[r].kind = req[r].kind
      BY <2>1, <1>0 DEF TypeInv, TypeOK, Request, Labels
    <3> QED BY <2>0, <2>1, <2>r, <3>1, <1>a DEF Moved, Elsewhere
  <2>2. CASE TurnAway(r) /\ UNCHANGED lastUse
    <3>1. OnlyThis /\ Moved(r)
      BY <2>0, <2>2, IsTurnedAway DEF Moved, Elsewhere
    <3> QED BY <2>0, <2>2, <2>r, <3>1, <1>a DEF Moved, Elsewhere
  <2>3. CASE UNCHANGED lastUse /\ req' = [req EXCEPT ![r].at = "touch", ![r].now = clock]
    <3>1. OnlyThis /\ req'[r].at = "touch" /\ req'[r].kind = req[r].kind
      BY <2>3, <2>r, <1>0 DEF TypeInv, TypeOK, Request, Labels
    <3> QED BY <2>0, <2>3, <2>r, <3>1, <1>a DEF Moved, Elsewhere
  <2>4. CASE LetIn(r) /\ Used(req[r].session, clock)
    <3>1. OnlyThis /\ Moved(r)
      BY <2>0, <2>4, GoesOn DEF Moved, Elsewhere
    <3>2. lastUse' \in [SessionIds -> Nat]
      BY <2>4, <2>r, UsedKeepsType
    <3> QED BY <2>0, <2>r, <3>1, <3>2, <1>a
  <2> QED BY <1>1, <2>1, <2>2, <2>3, <2>4, ValidateOutcome
<1>2. CASE Touch(r)
  <2>0. req[r].kind # None
    BY <1>2, <1>k, NoneIsNoLabel DEF Touch, At, Labels
  <2>1. OnlyThis /\ Moved(r)
    BY <2>0, <1>2, GoesOn DEF Touch, Moved, Elsewhere
  <2>2. lastUse' \in [SessionIds -> Nat]
    BY <1>2, <1>0, UsedKeepsType DEF Touch, Request
  <2>n. req[r].now \in Nat
    BY <1>0 DEF Request
  <2>s. sessions' \in [SessionIds -> Session]
    <3>1. /\ sessions \in [SessionIds -> Session]
          /\ sessions' = [sessions EXCEPT ![req[r].session].lastSeen = req[r].now]
      BY <1>2 DEF Touch, TouchSession, TypeInv, TypeOK
    <3>2. \A row \in Session : [row EXCEPT !.lastSeen = req[r].now] \in Session
      BY <2>n DEF Session
    <3> QED BY <3>1, <3>2
  <2>3. Rest
    BY <2>2, <2>s, <1>2 DEF Touch, TypeInv, TypeOK
  <2> QED BY <2>1, <2>3, <1>a
<1>3. CASE ExpireIdle(r)
  <2>0. req[r].kind # None
    BY <1>3, <1>k, NoneIsNoLabel DEF ExpireIdle, At, Labels
  <2>1. OnlyThis /\ Moved(r)
    BY <2>0, <1>3, IsTurnedAway DEF ExpireIdle, Moved, Elsewhere
  <2>2. Rest
    BY <1>3, RevokedKeepsType DEF ExpireIdle, TypeInv, TypeOK
  <2> QED BY <2>1, <2>2, <1>a
<1>4. CASE Find(r)
  <2>0. req[r].kind # None
    BY <1>4, <1>k, NoneIsNoLabel DEF Find, At, Labels
  <2> DEFINE found == IF req[r].user = None \/ Is(req[r].user, "none") THEN None ELSE users[req[r].user]
  <2>1. found = None \/ (found \in User /\ req[r].user \in Users)
    BY <1>0 DEF TypeInv, TypeOK, Request
  <2>2. req' = [req EXCEPT ![r].at = "verify", ![r].row = found]
    BY <1>4 DEF Find
  <2> HIDE DEF found
  <2>3. /\ OnlyThis /\ req'[r].at = "verify" /\ req'[r].row = found
        /\ req'[r].user = req[r].user /\ req'[r].kind = req[r].kind
    <3> DEFINE row == [req[r] EXCEPT !.at = "verify", !.row = found]
    <3>1. row \in Request
      BY <1>0, <2>1 DEF Request, Labels
    <3>2. row.at = "verify" /\ row.row = found /\ row.user = req[r].user /\ row.kind = req[r].kind
      BY <1>0 DEF Request
    <3>3. req' = [req EXCEPT ![r] = row] /\ req \in [Requests -> Request]
      BY <2>2 DEF TypeInv, TypeOK
    <3> HIDE DEF row
    <3> QED BY <3>1, <3>2, <3>3
  <2>4. Fits(r)'
    BY <2>0, <2>1, <2>3 DEF Fits
  <2>5. Rest
    BY <1>4 DEF Find, tables, TypeInv, TypeOK
  <2> QED BY <2>3, <2>4, <2>5, <1>b
<1>5. CASE Verify(r)
  <2>0. At(r, "verify") /\ req[r].kind # None
    BY <1>5, <1>k, NoneIsNoLabel DEF Verify, At, Labels
  <2>u. users' \in [Users -> User] /\ sessions' \in [SessionIds -> Session] /\ lastUse' \in [SessionIds -> Nat]
    BY <1>5 DEF Verify, TypeInv, TypeOK
  <2>1. CASE req[r].row = None
    <3>1. CountForAddress /\ End(r) /\ UNCHANGED streak
      BY <1>5, <2>1 DEF Verify
    <3>2. bucket' \in [count : Nat, resetAt : Nat] /\ streak' \in [Users -> Nat]
      BY <3>1, AuthAssumption DEF CountForAddress, TypeInv, TypeOK
    <3> QED BY <3>1, <3>2, <2>u, <1>e
  <2>2. CASE req[r].row # None /\ req[r].row.password # req[r].password
    <3>1. /\ CountForAddress
          /\ req' = [req EXCEPT ![r].at = "failures", ![r].now = clock, ![r].row = None]
          /\ streak' = [streak EXCEPT ![req[r].user] = @ + 1]
      BY <1>5, <2>2 DEF Verify
    <3>2. bucket' \in [count : Nat, resetAt : Nat]
      BY <3>1, AuthAssumption DEF CountForAddress, TypeInv, TypeOK
    <3>u. req[r].user \in Users
      BY <1>0, <2>0, <2>2 DEF Fits, At
    <3>t. streak' \in [Users -> Nat]
      BY <3>1, <3>u DEF TypeInv, TypeOK
    <3>3. /\ OnlyThis /\ req'[r].at = "failures" /\ req'[r].user = req[r].user
          /\ req'[r].kind = req[r].kind
      BY <3>1, <1>0 DEF TypeInv, TypeOK, Request, Labels
    <3>4. Fits(r)'
      BY <3>3, <2>0, <2>2, <1>0 DEF Fits, At
    <3> QED BY <3>2, <3>3, <3>4, <3>t, <2>u, <1>b
  <2>3. CASE req[r].row # None /\ req[r].row.password = req[r].password
    <3>1. /\ UNCHANGED <<bucket, streak>>
          /\ End(r) \/ req' = [req EXCEPT ![r].at = "succeed", ![r].row = None]
      BY <1>5, <2>3 DEF Verify
    <3>2. bucket' \in [count : Nat, resetAt : Nat] /\ streak' \in [Users -> Nat]
      BY <3>1 DEF TypeInv, TypeOK
    <3>3. CASE End(r)
      BY <3>2, <3>3, <2>u, <1>e
    <3>4. CASE req' = [req EXCEPT ![r].at = "succeed", ![r].row = None]
      <4>1. OnlyThis /\ req'[r].at = "succeed" /\ req'[r].kind = req[r].kind
        BY <3>4, <1>0 DEF TypeInv, TypeOK, Request, Labels
      <4> QED BY <4>1, <3>2, <2>u, <2>0, <1>a DEF Moved, Elsewhere
    <3> QED BY <3>1, <3>3, <3>4
  <2> QED BY <2>1, <2>2, <2>3
<1>6. CASE ReadFailures(r)
  <2>0. req[r].kind # None /\ req[r].user \in Users
    BY <1>6, <1>0, NoneIsNoLabel DEF ReadFailures, At, Labels, Fits
  <2>1. users[req[r].user] \in User
    BY <2>0 DEF TypeInv, TypeOK
  <2>2. /\ OnlyThis /\ req'[r].at = "count" /\ req'[r].row = users[req[r].user]
        /\ req'[r].kind = req[r].kind /\ req'[r].user = req[r].user
    BY <1>6, <1>0, <2>1 DEF ReadFailures, TypeInv, TypeOK, Request, Labels
  <2>3. Fits(r)'
    BY <2>0, <2>1, <2>2 DEF Fits
  <2>4. Rest
    BY <1>6 DEF ReadFailures, tables, TypeInv, TypeOK
  <2> QED BY <2>2, <2>3, <2>4, <1>b
<1>7. CASE CountFailure(r)
  <2>0. req[r].row \in User /\ req[r].user \in Users
    BY <1>7, <1>0 DEF CountFailure, At, Fits
  <2> DEFINE failed == req[r].row.failed + 1
             until == IF LockFrom(failed) THEN req[r].now + LockTime ELSE req[r].row.lockedUntil
  <2>n. failed \in Nat /\ until \in Nat
    BY <1>0, <2>0, AuthAssumption DEF User, Request
  <2>u. users' = [users EXCEPT ![req[r].user].failed = failed, ![req[r].user].lockedUntil = until]
    BY <1>7 DEF CountFailure
  <2> HIDE DEF failed, until
  <2>1. users' \in [Users -> User]
    <3>1. users \in [Users -> User]
      BY DEF TypeInv, TypeOK
    <3>2. \A row \in User : [[row EXCEPT !.failed = failed] EXCEPT !.lockedUntil = until] \in User
      BY <2>n DEF User
    <3> QED BY <2>0, <2>u, <3>1, <3>2
  <2>2. Rest
    BY <1>7, <2>1 DEF CountFailure, TypeInv, TypeOK
  <2> QED BY <1>7, <2>2, <1>e DEF CountFailure
<1>8. CASE Succeed(r)
  <2>0. req[r].kind # None
    BY <1>8, <1>k, NoneIsNoLabel DEF Succeed, At, Labels
  <2>1. /\ OnlyThis /\ req'[r].at \in {"open", "rotate"} /\ req'[r].kind = req[r].kind
    BY <1>8, <1>0 DEF Succeed, TypeInv, TypeOK, Request, Labels
  <2>2. Rest
    <3>1. users \in [Users -> User]
      BY DEF TypeInv, TypeOK
    <3>2. \A row \in User : [[row EXCEPT !.failed = 0] EXCEPT !.lockedUntil = 0] \in User
      BY DEF User
    <3>3. users' = [users EXCEPT ![req[r].user].failed = 0, ![req[r].user].lockedUntil = 0]
      BY <1>8 DEF Succeed
    <3>4. users' \in [Users -> User]
      BY <3>1, <3>2, <3>3
    <3> QED BY <1>8, <1>0, <3>4 DEF Succeed, TypeInv, TypeOK
  <2> QED BY <2>0, <2>1, <2>2, <1>a DEF Moved, Elsewhere
<1>9. CASE Rotate(r)
  <2>0. req[r].kind # None
    BY <1>9, <1>k, NoneIsNoLabel DEF Rotate, At, Labels
  <2>1. /\ OnlyThis /\ req'[r].at = "open" /\ req'[r].kind = req[r].kind
    BY <1>9, <1>0 DEF Rotate, Goto, TypeInv, TypeOK, Request, Labels
  <2>2. Rest
    BY <1>9, RevokedKeepsType DEF Rotate, TypeInv, TypeOK
  <2> QED BY <2>0, <2>1, <2>2, <1>a DEF Moved, Elsewhere
<1>10. CASE OpenSession(r)
  <2>1. PICK s \in Unused :
          /\ sessions' = [sessions EXCEPT ![s] =
                            [status |-> "live", user |-> req[r].user, password |-> req[r].password,
                             expiresAt |-> req[r].now + FullTime, lastSeen |-> req[r].now]]
          /\ Used(s, req[r].now)
    BY <1>10 DEF OpenSession
  <2>2. sessions' \in [SessionIds -> Session] /\ lastUse' \in [SessionIds -> Nat]
    BY <2>1, <1>0, UsedKeepsType, AuthAssumption DEF TypeInv, TypeOK, Session, Request, Unused
  <2>3. Rest
    BY <1>10, <2>2 DEF OpenSession, TypeInv, TypeOK
  <2> QED BY <1>10, <2>3, <1>e DEF OpenSession
<1>11. CASE RevokeSession(r) \/ RevokeAll(r)
  <2>1. Rest
    BY <1>11, RevokedKeepsType DEF RevokeSession, RevokeAll, TypeInv, TypeOK
  <2> QED BY <1>11, <2>1, <1>e DEF RevokeSession, RevokeAll
<1>12. CASE Insert(r)
  <2>1. \A role \in Roles : NewUser(role, req[r].password) \in User
    BY <1>0 DEF NewUser, User, Request
  <2>2. Rest
    BY <1>12, <1>0, <2>1 DEF Insert, TypeInv, TypeOK
  <2> QED BY <1>12, <2>2, <1>e DEF Insert
<1>13. CASE Retire(r) \/ ResetPassword(r)
  <2>0. req[r].kind # None
    BY <1>13, <1>k, NoneIsNoLabel DEF Retire, ResetPassword, At, Labels
  <2>u. users' \in [Users -> User] /\ streak' \in [Users -> Nat]
    <3> DEFINE u == req[r].user
               p == req[r].password
    <3>1. \/ UNCHANGED <<users, streak>>
          \/ users' = [users EXCEPT ![u].status = "deactivated"] /\ UNCHANGED streak
          \/ /\ users' = [users EXCEPT ![u].password = p, ![u].failed = 0, ![u].lockedUntil = 0]
             /\ streak' = [streak EXCEPT ![u] = 0]
      BY <1>13 DEF Retire, ResetPassword
    <3>2. p \in Passwords \cup {None}
      BY <1>0 DEF Request
    <3> HIDE DEF u, p
    <3>3. CASE users' = [users EXCEPT ![u].status = "deactivated"] /\ UNCHANGED streak
      <4>1. users \in [Users -> User] /\ streak \in [Users -> Nat]
        BY DEF TypeInv, TypeOK
      <4>2. \A row \in User : [row EXCEPT !.status = "deactivated"] \in User
        BY DEF User
      <4> QED BY <3>3, <4>1, <4>2
    <3>4. CASE /\ users' = [users EXCEPT ![u].password = p, ![u].failed = 0, ![u].lockedUntil = 0]
               /\ streak' = [streak EXCEPT ![u] = 0]
      <4>1. users \in [Users -> User] /\ streak' \in [Users -> Nat]
        BY <3>4 DEF TypeInv, TypeOK
      <4>2. CASE u \in Users
        <5>1. users[u] \in User
          BY <4>1, <4>2
        <5>2. [users[u] EXCEPT !.password = p, !.failed = 0, !.lockedUntil = 0] \in User
          BY <3>2, <5>1 DEF User
        <5>3. users' = [users EXCEPT ![u] = [users[u] EXCEPT !.password = p, !.failed = 0,
                                                             !.lockedUntil = 0]]
          BY <3>4, <4>1, <4>2, <5>1 DEF User
        <5> QED BY <4>1, <5>2, <5>3
      <4>3. CASE u \notin Users
        BY <3>4, <4>1, <4>3
      <4> QED BY <4>1, <4>2, <4>3
    <3> QED BY <3>1, <3>3, <3>4 DEF TypeInv, TypeOK
  <2>1. Rest
    BY <1>13, <2>u DEF Retire, ResetPassword, TypeInv, TypeOK
  <2>2. End(r) \/ Goto(r, "revokeAll")
    BY <1>13 DEF Retire, ResetPassword
  <2>3. CASE End(r)
    BY <2>1, <2>3, <1>e
  <2>4. CASE Goto(r, "revokeAll")
    <3>1. OnlyThis /\ req'[r].at = "revokeAll" /\ req'[r].kind = req[r].kind
      BY <2>4, <1>0 DEF Goto, TypeInv, TypeOK, Request, Labels
    <3> QED BY <3>1, <2>0, <2>1, <1>a DEF Moved, Elsewhere
  <2> QED BY <2>2, <2>3, <2>4
<1> QED
  BY <1>1, <1>2, <1>3, <1>4, <1>5, <1>6, <1>7, <1>8, <1>9, <1>10, <1>11, <1>12, <1>13 DEF Step

LEMMA TypeInit == Init => TypeInv
<1> SUFFICES ASSUME Init PROVE TypeInv
  OBVIOUS
<1>1. \A p \in Passwords : NewUser("admin", p) \in User
  BY DEF NewUser, User, Roles
<1>2. users \in [Users -> User]
  BY <1>1 DEF Init, User
<1>3. sessions \in [SessionIds -> Session]
  BY DEF Init, Session
<1>4. req \in [Requests -> Request] /\ \A r \in Requests : Fits(r)
  BY IdleRequest, NoneIsNoLabel DEF Init, Fits, Labels
<1>5. /\ clock \in Nat /\ bucket \in [count : Nat, resetAt : Nat] /\ lastUse \in [SessionIds -> Nat]
      /\ streak \in [Users -> Nat] /\ disturbed \in BOOLEAN
  BY DEF Init
<1> QED BY <1>2, <1>3, <1>4, <1>5 DEF TypeInv, TypeOK

\* What a step that is not a request's own work may be.
LEMMA NextCases ==
    ASSUME Next
    PROVE  \/ \E r \in Requests, kind \in Kinds, s \in SessionIds \cup {None},
                 u \in Users \cup {None}, p \in Passwords \cup {None} : Begin(r, kind, s, u, p)
           \/ \E r \in Requests : Step(r) \/ Fail(r)
           \/ Restart
           \/ Tick
<1>1. ASSUME NEW r \in Requests, NEW u \in Users \cup {None}, NEW p \in Passwords,
             NEW s \in SessionIds \cup {None}, BeginLogin(r, s, u, p)
      PROVE  Begin(r, "login", s, u, p)
  BY <1>1 DEF BeginLogin
<1>2. ASSUME NEW r \in Requests, NEW s \in SessionIds,
             \/ BeginVisit(r, s) \/ BeginLogout(r, s) \/ BeginRevokeAll(r, s)
             \/ \E u \in Users : \/ BeginDeactivate(r, s, u)
                                 \/ \E p \in Passwords : \/ BeginCreate(r, s, u, p)
                                                         \/ BeginReset(r, s, u, p)
      PROVE  \E kind \in Kinds, u \in Users \cup {None}, p \in Passwords \cup {None} :
                Begin(r, kind, s, u, p)
  BY <1>2 DEF BeginVisit, BeginLogout, BeginRevokeAll, BeginDeactivate, BeginCreate, BeginReset, Kinds
<1>3. "login" \in Kinds
  BY DEF Kinds
<1>4. ASSUME NEW r \in Requests, NEW u \in Users \cup {None}, NEW p \in Passwords,
             NEW s \in SessionIds \cup {None}, BeginLogin(r, s, u, p)
      PROVE  \E kind \in Kinds, t \in SessionIds \cup {None}, v \in Users \cup {None},
                q \in Passwords \cup {None} : Begin(r, kind, t, v, q)
  BY <1>1, <1>3, <1>4
<1>5. ASSUME NEW r \in Requests, NEW s \in SessionIds,
             \/ BeginVisit(r, s) \/ BeginLogout(r, s) \/ BeginRevokeAll(r, s)
             \/ \E u \in Users : \/ BeginDeactivate(r, s, u)
                                 \/ \E p \in Passwords : \/ BeginCreate(r, s, u, p)
                                                         \/ BeginReset(r, s, u, p)
      PROVE  \E kind \in Kinds, t \in SessionIds \cup {None}, v \in Users \cup {None},
                q \in Passwords \cup {None} : Begin(r, kind, t, v, q)
  BY <1>2, <1>5
<1> QED BY <1>4, <1>5 DEF Next

LEMMA TypeStep == TypeInv /\ [Next]_vars => TypeInv'
<1> SUFFICES ASSUME TypeInv, [Next]_vars PROVE TypeInv'
  OBVIOUS
<1>1. ASSUME NEW r \in Requests, NEW kind \in Kinds, NEW s \in SessionIds \cup {None},
             NEW u \in Users \cup {None}, NEW p \in Passwords \cup {None}, Begin(r, kind, s, u, p)
      PROVE  TypeInv'
  BY <1>1, BeginsInOrder
<1>2. ASSUME NEW r \in Requests, Step(r) PROVE TypeInv'
  BY <1>2, StepKeepsTypes
<1>3. ASSUME NEW r \in Requests, Fail(r) PROVE TypeInv'
  <2>1. Fits(r)'
    BY <1>3, Ends, IdleFits DEF Fail
  <2> QED BY <1>3, <2>1, Ends, KeepsTypes DEF Fail, TypeInv, TypeOK, tables
<1>4. CASE Restart
  <2>1. req' \in [Requests -> Request] /\ \A r \in Requests : req'[r] = Idle
    BY <1>4, IdleRequest DEF Restart
  <2>2. \A r \in Requests : Fits(r)'
    BY <2>1, IdleFits
  <2> QED BY <1>4, <2>1, <2>2 DEF Restart, TypeInv, TypeOK
<1>5. CASE Tick
  BY <1>5 DEF Tick, TypeInv, TypeOK, Fits, tables, history
<1>6. CASE UNCHANGED vars
  BY <1>6 DEF TypeInv, TypeOK, Fits, vars, tables, history
<1> QED BY <1>1, <1>2, <1>3, <1>4, <1>5, <1>6, NextCases

\* Every variable keeps its type, and a request at a label holds what it needs.
THEOREM TypeInvariant == Spec => []TypeInv
  BY TypeInit, TypeStep, PTL DEF Spec

-----------------------------------------------------------------------------
(* Revoked sessions stay revoked; rows only age                            *)

\* No step brings a row of users or sessions back.
RowsAge ==
    /\ \A u \in Users : users[u].status = "deactivated" => users'[u].status = "deactivated"
    /\ \A s \in SessionIds : sessions[s].status # "none" =>
          sessions'[s].status # "none" /\ sessions'[s].user = sessions[s].user
    /\ \A s \in SessionIds : sessions[s].status = "revoked" => sessions'[s].status = "revoked"

LEMMA StepAges ==
    ASSUME TypeInv, NEW r \in Requests, Step(r)
    PROVE  RowsAge
<1>0. users \in [Users -> User] /\ sessions \in [SessionIds -> Session] /\ req[r] \in Request
  BY DEF TypeInv, TypeOK
<1>1. CASE UNCHANGED <<users, sessions>>
  BY <1>1 DEF RowsAge
<1>2. ASSUME NEW chosen, sessions' = Revoked(chosen), users' = users PROVE RowsAge
  BY <1>0, <1>2 DEF RowsAge, Revoked, Session
<1>3. CASE Touch(r)
  BY <1>0, <1>3 DEF Touch, TouchSession, RowsAge, Session
<1>4. CASE CountFailure(r) \/ Succeed(r) \/ Retire(r) \/ ResetPassword(r)
  <2>1. sessions' = sessions
    BY <1>4 DEF CountFailure, Succeed, Retire, ResetPassword
  <2>2. ASSUME NEW u \in Users, users[u].status = "deactivated"
        PROVE  users'[u].status = "deactivated"
    <3>1. users \in [Users -> User] /\ users[u] \in User
      BY <1>0
    <3>2. CASE CountFailure(r) \/ Succeed(r)
      BY <2>2, <3>1, <3>2 DEF CountFailure, Succeed, User
    <3>3. CASE Retire(r)
      BY <2>2, <3>1, <3>3 DEF Retire, User
    <3>4. CASE ResetPassword(r)
      BY <2>2, <3>1, <3>4 DEF ResetPassword, User
    <3> QED BY <1>4, <3>2, <3>3, <3>4
  <2> QED BY <2>1, <2>2 DEF RowsAge
<1>5. CASE Insert(r)
  <2>1. sessions' = sessions
    BY <1>5 DEF Insert
  <2>2. ASSUME NEW u \in Users, users[u].status = "deactivated"
        PROVE  users'[u].status = "deactivated"
    BY <1>0, <1>5, <2>2 DEF Insert, Is
  <2> QED BY <2>1, <2>2 DEF RowsAge
<1>6. CASE OpenSession(r)
  <2>1. PICK s \in Unused :
          sessions' = [sessions EXCEPT ![s] =
                            [status |-> "live", user |-> req[r].user, password |-> req[r].password,
                             expiresAt |-> req[r].now + FullTime, lastSeen |-> req[r].now]]
    BY <1>6 DEF OpenSession
  <2> QED BY <1>0, <1>6, <2>1 DEF OpenSession, RowsAge, Unused
<1> QED BY <1>1, <1>2, <1>3, <1>4, <1>5, <1>6
        DEF Step, Validate, ExpireIdle, Find, Verify, ReadFailures, Rotate, RevokeSession, RevokeAll,
            tables

LEMMA NextAges ==
    ASSUME TypeInv, [Next]_vars
    PROVE  RowsAge
<1>1. ASSUME NEW r \in Requests, Step(r) PROVE RowsAge
  BY <1>1, StepAges
<1>2. CASE UNCHANGED <<users, sessions>>
  BY <1>2 DEF RowsAge
<1> QED BY <1>1, <1>2, NextCases DEF Begin, Fail, Restart, Tick, vars, tables

\* A session that was revoked never lives again, whatever requests are under
\* way: the touch of validateToken, written after an await, keeps the status.
THEOREM RevocationIsFinal == Spec => RevokedIsFinal
<1>1. TypeInv /\ [Next]_vars =>
        [\A s \in SessionIds : sessions[s].status = "revoked" => sessions'[s].status = "revoked"]_vars
  BY NextAges DEF RowsAge
<1> QED BY <1>1, TypeInvariant, PTL DEF Spec, RevokedIsFinal

-----------------------------------------------------------------------------
(* What a step does to its request                                         *)

\* The labels at which a request holds a time it has read.
Reads == {"touch", "failures", "count", "rotate", "open"}

LogsInNow(r) ==
    /\ IpAllowed /\ UNCHANGED bucket
    /\ req[r].at \in {"validate", "touch", "expire"}
    /\ req'[r].at = "find" /\ req'[r].barred = FALSE

Expires(r) ==
    /\ req[r].at = "validate" /\ req'[r] = [req[r] EXCEPT !.at = "expire"]

Touches(r) ==
    /\ req[r].at = "validate" /\ Admits(req[r].session)
    /\ req'[r] = [req[r] EXCEPT !.at = "touch", !.now = clock]

\* It turns to another step, with the time it holds or that of the clock.
TurnsTo(r) ==
    /\ req[r].at # "expire"
    /\ req[r].at = "validate" => Admits(req[r].session)
    /\ req'[r].at \notin {"validate", "expire", "touch", "find"}
    /\ req'[r].barred = req[r].barred
    /\ req'[r].at = "verify" => req[r].at = "find"
    /\ req'[r].at \in Reads => \/ req'[r].now = clock
                               \/ req[r].at \in Reads /\ req'[r].now = req[r].now

LEMMA StepOutcome ==
    ASSUME TypeInv, NEW r \in Requests, Step(r)
    PROVE  /\ \A q \in Requests \ {r} : req'[q] = req[q]
           /\ req'[r] = Idle \/ LogsInNow(r) \/ Expires(r) \/ Touches(r) \/ TurnsTo(r)
<1>0. req[r] \in Request /\ req \in [Requests -> Request]
  BY DEF TypeInv, TypeOK
<1>k. req[r].at # None => req[r].kind # None
  BY DEF TypeInv, Fits
<1> DEFINE Others == \A q \in Requests \ {r} : req'[q] = req[q]
           Outcome == req'[r] = Idle \/ LogsInNow(r) \/ Expires(r) \/ Touches(r) \/ TurnsTo(r)
<1>a. ASSUME TurnAway(r), UNCHANGED bucket, req[r].kind # None, req[r].at \in {"validate", "expire"}
      PROVE  Others /\ Outcome
  BY <1>a, IsTurnedAway DEF LogsInNow
<1>b. ASSUME LetIn(r), UNCHANGED bucket, req[r].kind # None,
             \/ req[r].at = "validate" /\ Admits(req[r].session)
             \/ req[r].at = "touch"
      PROVE  Others /\ Outcome
  <2>1. CASE req'[r] = Idle
    BY <1>b, <2>1, GoesOn
  <2>2. CASE IpAllowed /\ req'[r].at = "find" /\ req'[r].barred = FALSE
    BY <1>b, <2>2, GoesOn DEF LogsInNow
  <2>3. CASE /\ req'[r].at \in {"revoke", "revokeAll", "insert", "retire", "reset"}
             /\ req'[r].barred = req[r].barred
    BY <1>b, <2>3, GoesOn DEF TurnsTo, Reads
  <2> QED BY <1>b, <2>1, <2>2, <2>3, GoesOn
<1>e. ASSUME End(r) PROVE Others /\ Outcome
  BY <1>e, Ends
<1>1. CASE Validate(r)
  <2>0. req[r].at = "validate" /\ req[r].kind # None /\ bucket' = bucket
    BY <1>1, <1>k, NoneIsNoLabel DEF Validate, At, Labels, tables
  <2>1. CASE req' = [req EXCEPT ![r].at = "expire"]
    BY <1>0, <2>0, <2>1 DEF Expires
  <2>2. CASE TurnAway(r)
    BY <1>a, <2>0, <2>2
  <2>3. CASE Admits(req[r].session) /\ req' = [req EXCEPT ![r].at = "touch", ![r].now = clock]
    BY <1>0, <2>0, <2>3 DEF Touches
  <2>4. CASE Admits(req[r].session) /\ LetIn(r)
    BY <1>b, <2>0, <2>4
  <2> QED BY <1>1, <2>1, <2>2, <2>3, <2>4, ValidateOutcome
<1>2. CASE Touch(r)
  BY <1>2, <1>b, <1>k, NoneIsNoLabel DEF Touch, At, Labels
<1>3. CASE ExpireIdle(r)
  BY <1>3, <1>a, <1>k, NoneIsNoLabel DEF ExpireIdle, At, Labels
<1>4. CASE Find(r)
  <2>1. PICK row : req' = [req EXCEPT ![r].at = "verify", ![r].row = row]
    BY <1>4 DEF Find
  <2> QED BY <1>0, <1>4, <2>1 DEF Find, At, TurnsTo, Reads, Request
<1>5. CASE Verify(r)
  <2>1. \/ End(r)
        \/ req' = [req EXCEPT ![r].at = "failures", ![r].now = clock, ![r].row = None]
        \/ req' = [req EXCEPT ![r].at = "succeed", ![r].row = None]
    BY <1>5 DEF Verify
  <2>2. CASE End(r)
    BY <2>2, <1>e
  <2>3. CASE req' = [req EXCEPT ![r].at = "failures", ![r].now = clock, ![r].row = None]
    BY <1>0, <1>5, <2>3 DEF Verify, At, TurnsTo, Reads, Request
  <2>4. CASE req' = [req EXCEPT ![r].at = "succeed", ![r].row = None]
    BY <1>0, <1>5, <2>4 DEF Verify, At, TurnsTo, Reads, Request
  <2> QED BY <2>1, <2>2, <2>3, <2>4
<1>6. CASE ReadFailures(r)
  BY <1>0, <1>6 DEF ReadFailures, At, TurnsTo, Reads, Request
<1>7. CASE CountFailure(r) \/ OpenSession(r) \/ RevokeSession(r) \/ RevokeAll(r) \/ Insert(r)
  BY <1>7, <1>e DEF CountFailure, OpenSession, RevokeSession, RevokeAll, Insert
<1>8. CASE Succeed(r)
  BY <1>0, <1>8 DEF Succeed, At, TurnsTo, Reads, Request
<1>9. CASE Rotate(r)
  BY <1>0, <1>9 DEF Rotate, Goto, At, TurnsTo, Reads, Request
<1>10. CASE Retire(r) \/ ResetPassword(r)
  <2>1. (req[r].at = "retire" \/ req[r].at = "reset") /\ (End(r) \/ Goto(r, "revokeAll"))
    BY <1>10 DEF Retire, ResetPassword, At
  <2>2. CASE Goto(r, "revokeAll")
    BY <1>0, <2>1, <2>2 DEF Goto, TurnsTo, Reads, Request
  <2> QED BY <2>1, <2>2, <1>e
<1> QED
  BY <1>1, <1>2, <1>3, <1>4, <1>5, <1>6, <1>7, <1>8, <1>9, <1>10 DEF Step

-----------------------------------------------------------------------------
(* Deactivated users                                                       *)

\* A request that came with a deactivated user's session still has it.
BarredInv ==
    \A r \in Requests : req[r].barred =>
        /\ req[r].at \in {"validate", "expire"}
        /\ req[r].session \in SessionIds
        /\ sessions[req[r].session].status # "none"
        /\ sessions[req[r].session].user \in Users
        /\ users[sessions[req[r].session].user].status = "deactivated"

LEMMA BarredStep == TypeInv /\ BarredInv /\ [Next]_vars => BarredInv'
<1> SUFFICES ASSUME TypeInv, BarredInv, [Next]_vars, NEW q \in Requests, req'[q].barred
             PROVE  /\ req'[q].at \in {"validate", "expire"}
                    /\ req'[q].session \in SessionIds
                    /\ sessions'[req'[q].session].status # "none"
                    /\ sessions'[req'[q].session].user \in Users
                    /\ users'[sessions'[req'[q].session].user].status = "deactivated"
  BY DEF BarredInv
<1>0. RowsAge
  BY NextAges
<1>1. ASSUME req[q].barred, req'[q].session = req[q].session, req'[q].at \in {"validate", "expire"}
      PROVE  /\ req'[q].session \in SessionIds
             /\ sessions'[req'[q].session].status # "none"
             /\ sessions'[req'[q].session].user \in Users
             /\ users'[sessions'[req'[q].session].user].status = "deactivated"
  BY <1>0, <1>1 DEF RowsAge, BarredInv
<1>2. CASE req'[q] = req[q]
  BY <1>1, <1>2 DEF BarredInv
<1>3. req'[q] # Idle
  BY IdleRequest
<1>4. CASE \E r \in Requests, kind \in Kinds, s \in SessionIds \cup {None},
              u \in Users \cup {None}, p \in Passwords \cup {None} : Begin(r, kind, s, u, p)
  <2>1. PICK r \in Requests, kind \in Kinds, s \in SessionIds \cup {None},
             u \in Users \cup {None}, p \in Passwords \cup {None} : Begin(r, kind, s, u, p)
    BY <1>4
  <2> DEFINE barred == s # None /\ Is(sessions[s].user, "deactivated")
             new == [Idle EXCEPT !.kind = kind, !.at = "validate", !.session = s, !.user = u,
                                 !.password = p, !.barred = barred]
  <2>2. req' = [req EXCEPT ![r] = new] /\ UNCHANGED <<users, sessions>>
    BY <2>1 DEF Begin, tables
  <2>3. CASE q = r
    <3>1. req'[q] = new
      BY <2>2, <2>3 DEF TypeInv, TypeOK
    <3>2. new.at = "validate" /\ new.session = s /\ new.barred = barred
      BY IdleRequest DEF Request
    <3>3. s # None /\ Is(sessions[s].user, "deactivated")
      BY <3>1, <3>2
    <3>4. s \in SessionIds /\ sessions[s].status # "none" /\ sessions[s].user \in Users \cup {None}
      BY <2>1, <3>3 DEF Begin, TypeInv, TypeOK, Session
    <3> QED BY <2>2, <3>1, <3>2, <3>3, <3>4 DEF Is
  <2>4. CASE q # r
    BY <1>2, <2>2, <2>4 DEF TypeInv, TypeOK
  <2> QED BY <2>3, <2>4
<1>5. CASE \E r \in Requests : Step(r)
  <2>1. PICK r \in Requests : Step(r)
    BY <1>5
  <2>2. CASE q # r
    BY <1>2, <2>1, <2>2, StepOutcome
  <2>3. CASE q = r
    <3>0. req[q] \in Request
      BY DEF TypeInv, TypeOK
    <3>1. CASE Expires(q)
      <4>1. req'[q].session = req[q].session /\ req'[q].at = "expire" /\ req[q].barred
        BY <3>0, <3>1 DEF Expires, Request
      <4> QED BY <4>1, <1>1
    <3>2. CASE Touches(q) \/ TurnsTo(q)
      <4>1. req[q].barred
        BY <3>0, <3>2 DEF Touches, TurnsTo, Request
      <4>2. Admits(req[q].session)
        BY <3>2, <4>1 DEF Touches, TurnsTo, BarredInv
      <4> QED BY <3>0, <4>1, <4>2, AdmittedIsThere DEF BarredInv, Request
    <3>3. CASE LogsInNow(q)
      BY <3>3 DEF LogsInNow
    <3> QED BY <2>1, <2>3, <3>1, <3>2, <3>3, <1>3, StepOutcome
  <2> QED BY <2>2, <2>3
<1>6. CASE \E r \in Requests : Fail(r)
  BY <1>2, <1>3, <1>6, Ends DEF Fail
<1>7. CASE Restart
  BY <1>3, <1>7 DEF Restart
<1> QED BY <1>2, <1>4, <1>5, <1>6, <1>7, NextCases DEF Tick, vars

\* A request with a deactivated user's session gets no further than its
\* validation, however deactivations and logins overlap.
THEOREM DeactivatedBarred == Spec => []DeactivatedGetNowhere
<1>1. Init => BarredInv
  BY IdleRequest DEF Init, BarredInv
<1>2. BarredInv => DeactivatedGetNowhere
  BY DEF BarredInv, DeactivatedGetNowhere
<1> QED BY <1>1, <1>2, TypeInvariant, BarredStep, PTL DEF Spec

-----------------------------------------------------------------------------
(* Failures per address                                                    *)

\* Logins between the check of the address's counter and its increment.
Verifying == {r \in Requests : req[r].at \in {"find", "verify"}}
N == Cardinality(Requests)

BucketInv ==
    /\ bucket.count < IpFailures + N
    /\ bucket.resetAt > clock => bucket.count + Cardinality(Verifying) < IpFailures + N

LEMMA VerifyingFinite ==
    ASSUME NEW V \in SUBSET Requests
    PROVE  IsFiniteSet(V) /\ Cardinality(V) \in Nat /\ Cardinality(V) <= N /\ N \in Nat
  BY AuthAssumption, FS_Subset, FS_CardinalityType DEF N

\* Fewer verify, and nothing else the invariant looks at has changed but time.
LEMMA FewerVerify ==
    ASSUME TypeInv, BucketInv, Verifying' \subseteq Verifying, bucket' = bucket,
           clock' \in Nat, clock' >= clock
    PROVE  BucketInv'
<1>1. IsFiniteSet(Verifying) /\ Cardinality(Verifying) \in Nat /\ Cardinality(Verifying') \in Nat
  BY VerifyingFinite DEF Verifying
<1>2. Cardinality(Verifying') <= Cardinality(Verifying)
  BY <1>1, FS_Subset
<1>3. N \in Nat /\ N' = N
  BY VerifyingFinite DEF N
<1> QED BY <1>1, <1>2, <1>3, AuthAssumption DEF BucketInv, TypeInv, TypeOK

LEMMA StepKeepsBucket ==
    ASSUME TypeInv, BucketInv, NEW r \in Requests, Step(r)
    PROVE  BucketInv'
<1>0. clock' = clock /\ clock \in Nat /\ bucket \in [count : Nat, resetAt : Nat]
  BY DEF Step, TypeInv, TypeOK
<1>n. N \in Nat /\ N' = N /\ IpFailures \in Nat \ {0} /\ IpWindow \in Nat \ {0}
  BY VerifyingFinite, AuthAssumption DEF N
<1>1. CASE LogsInNow(r)
  <2>1. Cardinality(Verifying') \in Nat /\ Cardinality(Verifying') <= N
    BY VerifyingFinite DEF Verifying
  <2>2. ~(bucket.resetAt > clock /\ bucket.count >= IpFailures) /\ bucket' = bucket
    BY <1>1 DEF LogsInNow, IpAllowed
  <2> QED BY <1>0, <1>n, <2>1, <2>2 DEF BucketInv
<1>2. CASE ~LogsInNow(r) /\ ~Verify(r)
  <2>1. bucket' = bucket
    BY <1>2 DEF Step, Validate, Touch, ExpireIdle, Find, ReadFailures, CountFailure, Succeed, Rotate,
                OpenSession, RevokeSession, RevokeAll, Insert, Retire, ResetPassword, tables
  <2>2. req'[r].at \in {"find", "verify"} => req[r].at \in {"find", "verify"}
    <3>0. req[r] \in Request
      BY DEF TypeInv, TypeOK
    <3>1. req'[r] = Idle \/ Expires(r) \/ Touches(r) => req'[r].at \notin {"find", "verify"}
      BY <3>0, IdleRequest, NoneIsNoLabel DEF Expires, Touches, Request, Labels
    <3> QED BY <3>1, <1>2, StepOutcome DEF TurnsTo
  <2>3. Verifying' \subseteq Verifying
    BY <2>2, StepOutcome DEF Verifying
  <2> QED BY <1>0, <2>1, <2>3, FewerVerify
<1>3. CASE Verify(r)
  <2>0. r \in Verifying
    BY <1>3 DEF Verify, At, Verifying
  <2>1. req'[r].at \notin {"find", "verify"}
    <3>0. req[r] \in Request /\ req[r].at = "verify"
      BY <1>3 DEF TypeInv, TypeOK, Verify, At
    <3>1. req'[r] = Idle => req'[r].at \notin {"find", "verify"}
      BY IdleRequest, NoneIsNoLabel DEF Labels
    <3> QED BY <3>0, <3>1, StepOutcome DEF LogsInNow, Expires, Touches, TurnsTo
  <2>2. Verifying' = Verifying \ {r}
    BY <2>0, <2>1, StepOutcome DEF Verifying
  <2>3. /\ IsFiniteSet(Verifying) /\ Cardinality(Verifying) \in Nat /\ Cardinality(Verifying) <= N
        /\ Cardinality(Verifying') = Cardinality(Verifying) - 1 /\ Cardinality(Verifying') \in Nat
    <3>0. Cardinality(Verifying') \in Nat
      BY VerifyingFinite DEF Verifying
    <3>1. IsFiniteSet(Verifying) /\ Cardinality(Verifying) \in Nat /\ Cardinality(Verifying) <= N
      BY VerifyingFinite DEF Verifying
    <3>2. Cardinality(Verifying \ {r}) = Cardinality(Verifying) - 1
      BY <2>0, <3>1, FS_RemoveElement
    <3> QED BY <2>2, <3>0, <3>1, <3>2
  <2>4. CASE bucket' = bucket
    BY <1>0, <2>2, <2>4, FewerVerify
  <2>5. CASE CountForAddress /\ bucket.resetAt <= clock
    <3>1. bucket'.count = 1
      BY <2>5 DEF CountForAddress
    <3> QED BY <1>0, <1>n, <2>3, <3>1 DEF BucketInv
  <2>6. CASE CountForAddress /\ ~(bucket.resetAt <= clock)
    <3>1. bucket'.count = bucket.count + 1 /\ bucket'.resetAt = bucket.resetAt
      BY <1>0, <2>6 DEF CountForAddress
    <3> QED BY <1>0, <1>n, <2>3, <2>6, <3>1 DEF BucketInv
  <2> QED BY <1>3, <2>4, <2>5, <2>6 DEF Verify
<1> QED BY <1>1, <1>2, <1>3

LEMMA BucketStep == TypeInv /\ BucketInv /\ [Next]_vars => BucketInv'
<1> SUFFICES ASSUME TypeInv, BucketInv, [Next]_vars PROVE BucketInv'
  OBVIOUS
<1>0. clock \in Nat
  BY DEF TypeInv, TypeOK
<1>1. ASSUME NEW r \in Requests, NEW kind \in Kinds, NEW s \in SessionIds \cup {None},
             NEW u \in Users \cup {None}, NEW p \in Passwords \cup {None}, Begin(r, kind, s, u, p)
      PROVE  BucketInv'
  <2>1. req'[r].at = "validate" /\ \A q \in Requests \ {r} : req'[q] = req[q]
    BY <1>1, IdleRequest DEF Begin, TypeInv, TypeOK, Request
  <2>2. Verifying' \subseteq Verifying /\ bucket' = bucket /\ clock' = clock
    BY <1>1, <2>1 DEF Verifying, Begin, tables
  <2> QED BY <1>0, <2>2, FewerVerify
<1>2. ASSUME NEW r \in Requests, Fail(r) PROVE BucketInv'
  <2>1. Verifying' \subseteq Verifying
    BY <1>2, Ends, IdleRequest, NoneIsNoLabel DEF Verifying, Fail, Labels
  <2> QED BY <1>0, <1>2, <2>1, FewerVerify DEF Fail, tables
<1>3. CASE Restart
  <2>1. bucket'.count = 0 /\ bucket'.resetAt = 0
    BY <1>3 DEF Restart
  <2>2. N' = N /\ N \in Nat /\ clock' = clock
    BY <1>3, VerifyingFinite DEF N, Restart
  <2> QED BY <1>0, <2>1, <2>2, AuthAssumption DEF BucketInv
<1>4. CASE Tick
  <2>1. Verifying' \subseteq Verifying /\ bucket' = bucket /\ clock' = clock + 1
    BY <1>4 DEF Tick, Verifying, tables
  <2> QED BY <1>0, <2>1, FewerVerify
<1>5. CASE UNCHANGED vars
  <2>1. Verifying' \subseteq Verifying /\ bucket' = bucket /\ clock' = clock
    BY <1>5 DEF vars, Verifying, tables
  <2> QED BY <1>0, <2>1, FewerVerify
<1> QED BY <1>1, <1>2, <1>3, <1>4, <1>5, NextCases, StepKeepsBucket

\* Within a window an address has no more failures counted than the limit and
\* one for each other request: those that verify a password side by side.
THEOREM FailuresBounded == Spec => []FailuresPerWindow
<1>1. Init => BucketInv
  BY VerifyingFinite, AuthAssumption DEF Init, BucketInv
<1>2. BucketInv => FailuresPerWindow
  BY DEF BucketInv, FailuresPerWindow, N
<1> QED BY <1>1, <1>2, TypeInvariant, BucketStep, PTL DEF Spec

-----------------------------------------------------------------------------
(* The idle deadline                                                       *)

\* The time a request holds is a recent one.
HoldsTime(r) ==
    /\ req[r].at \in Reads => req[r].now <= clock /\ clock <= req[r].now + Latency
    /\ req[r].at = "touch" => /\ req[r].session \in SessionIds
                              /\ sessions[req[r].session].status # "none"

UseKnown(s) ==
    /\ lastUse[s] <= clock
    /\ sessions[s].status = "none" => lastUse[s] = 0
    /\ sessions[s].status = "live" => /\ sessions[s].lastSeen <= lastUse[s]
                                      /\ lastUse[s] - sessions[s].lastSeen <= Slack

IdleInv == (\A r \in Requests : HoldsTime(r)) /\ (\A s \in SessionIds : UseKnown(s))

LEMMA SlackCovers ==
    Slack \in Nat /\ TouchTime \in Nat /\ Latency \in Nat /\ TouchTime <= Slack /\ Latency <= Slack
  BY AuthAssumption DEF Slack

LEMMA IdleHolds ==
    ASSUME NEW r, req'[r] = Idle
    PROVE  HoldsTime(r)'
  BY IdleRequest, NoneIsNoLabel DEF HoldsTime, Reads, Labels

LEMMA StepHoldsTime ==
    ASSUME TypeInv, IdleInv, NEW r \in Requests, Step(r), NEW q \in Requests
    PROVE  HoldsTime(q)'
<1>0. /\ clock' = clock /\ clock \in Nat /\ RowsAge /\ req[q] \in Request
      /\ Latency \in Nat
  BY StepAges, AuthAssumption DEF Step, TypeInv, TypeOK
<1>1. CASE req'[q] = req[q]
  BY <1>0, <1>1 DEF IdleInv, HoldsTime, RowsAge
<1>2. CASE q = r
  <2>1. CASE req'[q] = Idle
    BY <2>1, IdleHolds
  <2>2. CASE LogsInNow(q) \/ Expires(q)
    BY <1>0, <2>2 DEF LogsInNow, Expires, HoldsTime, Reads, Request
  <2>3. CASE Touches(q)
    <3>1. req[q].session \in SessionIds /\ sessions[req[q].session].status = "live"
      BY <1>0, <2>3, AdmittedIsThere DEF Touches, Request
    <3>2. req'[q].session = req[q].session /\ req'[q].now = clock
      BY <1>0, <2>3 DEF Touches, Request
    <3> QED BY <1>0, <3>1, <3>2 DEF HoldsTime, RowsAge
  <2>4. CASE TurnsTo(q)
    BY <1>0, <2>4 DEF TurnsTo, HoldsTime, IdleInv
  <2> QED BY <1>2, <2>1, <2>2, <2>3, <2>4, StepOutcome
<1> QED BY <1>1, <1>2, StepOutcome

LEMMA StepKnowsUse ==
    ASSUME TypeInv, IdleInv, NEW r \in Requests, Step(r), NEW s \in SessionIds
    PROVE  UseKnown(s)'
<1>0. /\ clock' = clock /\ clock \in Nat /\ req[r] \in Request
      /\ sessions \in [SessionIds -> Session] /\ lastUse \in [SessionIds -> Nat]
      /\ UseKnown(s) /\ HoldsTime(r)
      /\ sessions[s].lastSeen \in Nat /\ lastUse[s] \in Nat /\ req[r].now \in Nat
  BY DEF Step, TypeInv, TypeOK, IdleInv, Session, Request
<1>1. CASE sessions' = sessions /\ lastUse' = lastUse
  BY <1>0, <1>1 DEF UseKnown
<1>2. ASSUME NEW chosen, sessions' = Revoked(chosen), lastUse' = lastUse,
             \A t \in chosen : t \in SessionIds /\ sessions[t].status = "live"
      PROVE  UseKnown(s)'
  BY <1>0, <1>2 DEF UseKnown, Revoked, Session
<1>3. CASE Validate(r)
  <2>1. sessions' = sessions
    BY <1>3 DEF Validate, tables
  <2>2. CASE Admits(req[r].session) /\ ~NeedsTouch(req[r].session) /\ Used(req[r].session, clock)
    <3>1. req[r].session \in SessionIds /\ sessions[req[r].session].status = "live"
      BY <1>0, <2>2, AdmittedIsThere DEF Request
    <3>2. CASE s = req[r].session
      <4>1. lastUse'[s] = clock
        BY <1>0, <2>2, <3>2 DEF Used, UseKnown
      <4>2. clock - sessions[s].lastSeen <= TouchTime
        BY <1>0, <2>2, <3>2, SlackCovers DEF NeedsTouch
      <4> QED BY <1>0, <2>1, <3>1, <3>2, <4>1, <4>2, SlackCovers DEF UseKnown
    <3>3. CASE s # req[r].session
      BY <1>0, <2>1, <2>2, <3>3 DEF Used, UseKnown
    <3> QED BY <3>2, <3>3
  <2> QED BY <1>1, <1>3, <2>1, <2>2, ValidateOutcome
<1>4. CASE Touch(r)
  <2>0. /\ req[r].at = "touch" /\ req[r].now <= clock /\ clock <= req[r].now + Latency
        /\ req[r].session \in SessionIds /\ sessions[req[r].session].status # "none"
    BY <1>0, <1>4 DEF Touch, At, HoldsTime, Reads
  <2>1. /\ sessions' = [sessions EXCEPT ![req[r].session].lastSeen = req[r].now]
        /\ Used(req[r].session, req[r].now)
    BY <1>4 DEF Touch, TouchSession
  <2>2. CASE s = req[r].session
    <3>1. sessions'[s].lastSeen = req[r].now /\ sessions'[s].status = sessions[s].status
      BY <1>0, <2>1, <2>2 DEF Session
    <3>2. lastUse'[s] = IF req[r].now > lastUse[s] THEN req[r].now ELSE lastUse[s]
      BY <1>0, <2>1, <2>2 DEF Used
    <3> QED BY <1>0, <2>0, <2>2, <3>1, <3>2, SlackCovers DEF UseKnown
  <2>3. CASE s # req[r].session
    <3>1. sessions'[s] = sessions[s] /\ lastUse'[s] = lastUse[s]
      BY <1>0, <2>1, <2>3 DEF Used
    <3> QED BY <1>0, <3>1 DEF UseKnown
  <2> QED BY <2>2, <2>3
<1>5. CASE OpenSession(r)
  <2>0. req[r].at = "open" /\ req[r].now <= clock /\ clock <= req[r].now + Latency
    BY <1>0, <1>5 DEF OpenSession, At, HoldsTime, Reads
  <2>1. PICK t \in Unused :
          /\ sessions' = [sessions EXCEPT ![t] =
                            [status |-> "live", user |-> req[r].user, password |-> req[r].password,
                             expiresAt |-> req[r].now + FullTime, lastSeen |-> req[r].now]]
          /\ Used(t, req[r].now)
    BY <1>5 DEF OpenSession
  <2>2. CASE s = t
    <3>1. lastUse[s] = 0 /\ lastUse'[s] = req[r].now
      BY <1>0, <2>1, <2>2 DEF Unused, UseKnown, Used
    <3>2. sessions'[s].status = "live" /\ sessions'[s].lastSeen = req[r].now
      BY <1>0, <2>1, <2>2
    <3> QED BY <1>0, <2>0, <3>1, <3>2, SlackCovers DEF UseKnown
  <2>3. CASE s # t
    <3>1. sessions'[s] = sessions[s] /\ lastUse'[s] = lastUse[s]
      BY <1>0, <2>1, <2>3 DEF Used
    <3> QED BY <1>0, <3>1 DEF UseKnown
  <2> QED BY <2>2, <2>3
<1>6. CASE ExpireIdle(r) \/ Rotate(r) \/ RevokeSession(r) \/ RevokeAll(r)
  <2>1. lastUse' = lastUse /\ \E chosen : sessions' = Revoked(chosen)
    BY <1>6 DEF ExpireIdle, Rotate, RevokeSession, RevokeAll
  <2>2. PICK chosen : sessions' = Revoked(chosen)
    BY <2>1
  <2>3. CASE sessions[s].status # "none" \/ s \notin chosen
    BY <1>0, <2>1, <2>2, <2>3 DEF UseKnown, Revoked, Session
  <2>4. CASE sessions[s].status = "none"
    BY <1>0, <2>1, <2>2, <2>4 DEF UseKnown, Revoked, Session
  <2> QED BY <2>3, <2>4
<1> QED BY <1>1, <1>3, <1>4, <1>5, <1>6
        DEF Step, Find, Verify, ReadFailures, CountFailure, Succeed, Insert, Retire, ResetPassword, tables

LEMMA IdleStep == TypeInv /\ IdleInv /\ [Next]_vars => IdleInv'
<1> SUFFICES ASSUME TypeInv, IdleInv, [Next]_vars PROVE IdleInv'
  OBVIOUS
<1>0. /\ clock \in Nat /\ Latency \in Nat /\ lastUse \in [SessionIds -> Nat]
      /\ req \in [Requests -> Request]
      /\ \A r \in Requests : HoldsTime(r) /\ req[r].now \in Nat
  BY AuthAssumption DEF TypeInv, TypeOK, IdleInv, Request
<1>a. ASSUME sessions' = sessions, lastUse' = lastUse, clock' = clock \/ clock' = clock + 1
      PROVE  \A s \in SessionIds : UseKnown(s)'
  BY <1>0, <1>a DEF IdleInv, UseKnown
<1>b. ASSUME sessions' = sessions, clock' = clock, NEW q \in Requests, req'[q] = req[q]
      PROVE  HoldsTime(q)'
  BY <1>0, <1>b DEF HoldsTime
<1>1. ASSUME NEW r \in Requests, NEW kind \in Kinds, NEW s \in SessionIds \cup {None},
             NEW u \in Users \cup {None}, NEW p \in Passwords \cup {None}, Begin(r, kind, s, u, p)
      PROVE  IdleInv'
  <2>1. sessions' = sessions /\ lastUse' = lastUse /\ clock' = clock
    BY <1>1 DEF Begin, tables
  <2>2. req'[r].at = "validate" /\ \A q \in Requests \ {r} : req'[q] = req[q]
    BY <1>0, <1>1, IdleRequest DEF Begin, Request
  <2>3. HoldsTime(r)'
    BY <2>2 DEF HoldsTime, Reads
  <2> QED BY <1>a, <1>b, <2>1, <2>2, <2>3 DEF IdleInv
<1>2. ASSUME NEW r \in Requests, Step(r) PROVE IdleInv'
  BY <1>2, StepHoldsTime, StepKnowsUse DEF IdleInv
<1>3. ASSUME NEW r \in Requests, Fail(r) PROVE IdleInv'
  <2>1. sessions' = sessions /\ lastUse' = lastUse /\ clock' = clock
    BY <1>3 DEF Fail, tables
  <2>2. HoldsTime(r)' /\ \A q \in Requests \ {r} : req'[q] = req[q]
    BY <1>3, Ends, IdleHolds DEF Fail
  <2> QED BY <1>a, <1>b, <2>1, <2>2 DEF IdleInv
<1>4. CASE Restart
  <2>1. sessions' = sessions /\ lastUse' = lastUse /\ clock' = clock
    BY <1>4 DEF Restart
  <2>2. \A q \in Requests : HoldsTime(q)'
    BY <1>4, IdleHolds DEF Restart
  <2> QED BY <1>a, <2>1, <2>2 DEF IdleInv
<1>5. CASE Tick
  <2>1. sessions' = sessions /\ lastUse' = lastUse /\ clock' = clock + 1 /\ req' = req
    BY <1>5 DEF Tick, tables, history
  <2>2. ASSUME NEW q \in Requests PROVE HoldsTime(q)'
    <3>1. req[q].at \in Reads => clock - req[q].now < Latency
      BY <1>5 DEF Tick, At, Reads
    <3> QED BY <1>0, <2>1, <3>1 DEF HoldsTime
  <2> QED BY <1>a, <2>1, <2>2 DEF IdleInv
<1>6. CASE UNCHANGED vars
  BY <1>6, <1>a, <1>b DEF vars, tables, history, IdleInv
<1> QED BY <1>1, <1>2, <1>3, <1>4, <1>5, <1>6, NextCases

\* The idle deadline of a live session counts from its last use, less at most
\* the time without a touch or the delay of one.
THEOREM IdleFromUse == Spec => []IdleCountsFromUse
<1>1. Init => IdleInv
  <2> SUFFICES ASSUME Init PROVE IdleInv
    OBVIOUS
  <2>1. \A r \in Requests : HoldsTime(r)
    BY IdleRequest, NoneIsNoLabel DEF Init, HoldsTime, Reads, Labels
  <2>2. \A s \in SessionIds : UseKnown(s)
    BY DEF Init, UseKnown
  <2> QED BY <2>1, <2>2 DEF IdleInv
<1>2. IdleInv => IdleCountsFromUse
  BY DEF IdleInv, UseKnown, IdleCountsFromUse, Live
<1> QED BY <1>1, <1>2, TypeInvariant, IdleStep, PTL DEF Spec

\* Every row and every request is of the kind the code gives it.
THEOREM TypesHold == Spec => []TypeOK
<1>1. TypeInv => TypeOK
  BY DEF TypeInv
<1> QED BY <1>1, TypeInvariant, PTL


-----------------------------------------------------------------------------
(* Requests one after the other: the counts, the sessions and the          *)
(* administrators of AuthSessions as long as no request overlaps another   *)
(* and none stops half done.                                               *)

\* No two requests are under way together.
Sole == \A q, r \in Requests : Busy(q) /\ Busy(r) => q = r

ActiveAdmin(u) == u \in Users /\ users[u].status = "active" /\ users[u].role = "admin"

Caller(r) == sessions[req[r].session].user

\* What a request that is alone has found out, and still holds.
Relies(r) ==
    /\ At(r, "touch") => /\ req[r].session \in SessionIds
                         /\ Caller(r) \in Users /\ users[Caller(r)].status = "active"
    /\ At(r, "verify") /\ req[r].row # None =>
          req[r].row = users[req[r].user] /\ users[req[r].user].status # "none"
    /\ At(r, "failures") \/ At(r, "count") => users[req[r].user].status # "none"
    /\ At(r, "count") => req[r].row = users[req[r].user]
    /\ At(r, "succeed") \/ At(r, "rotate") \/ At(r, "open") =>
          /\ req[r].user \in Users /\ users[req[r].user].status = "active"
          /\ users[req[r].user].password = req[r].password
    /\ At(r, "retire") \/ At(r, "reset") => req[r].kind # "revokeAll"
    /\ At(r, "retire") => ActiveAdmin(Caller(r)) /\ Caller(r) # req[r].user

\* A wrong password that the row does not count yet.
Counting(r, u) == (At(r, "failures") \/ At(r, "count")) /\ req[r].user = u
Uncounted(u) == \E r \in Requests : Counting(r, u)

CountsFit(u) ==
    /\ streak[u] = users[u].failed + (IF Uncounted(u) THEN 1 ELSE 0)
    /\ users[u].lockedUntil # 0 <=> users[u].failed >= MaxFailures
    /\ users[u].status = "none" => users[u].failed = 0

\* A session of a user whose status or password has just changed.
Ending(r, s) == At(r, "revokeAll") /\ Target(r) = sessions[s].user
ToBeRevoked(s) == \E r \in Requests : Ending(r, s)

Belongs(s) == /\ sessions[s].user \in Users /\ users[sessions[s].user].status = "active"
              /\ sessions[s].password = users[sessions[s].user].password

SessionFits(s) == Live(s) => Belongs(s) \/ ToBeRevoked(s)

InTurn ==
    ~disturbed => /\ Sole
                  /\ \A r \in Requests : Relies(r)
                  /\ \A u \in Users : CountsFit(u)
                  /\ \A s \in SessionIds : SessionFits(s)
                  /\ \E u \in Users : ActiveAdmin(u)

\* A request goes on at one of some labels, with what it came with.
Goes(r, labels) ==
    \/ req'[r] = Idle
    \/ /\ req'[r].at \in labels /\ req'[r].kind = req[r].kind
       /\ req'[r].user = req[r].user /\ req'[r].password = req[r].password
       /\ req'[r].at # "find" => req'[r].session = req[r].session

\* Where requireUser and requireAdmin lead.
Chosen == {"revoke", "revokeAll", "insert", "retire", "reset"}

LEMMA GoesOnTo ==
    ASSUME TypeInv, NEW r \in Requests, req[r].kind # None, LetIn(r)
    PROVE  /\ Goes(r, Chosen \cup {"find"})
           /\ req'[r].at = "retire" => req[r].kind = "deactivate" /\ MayGoOn(r)
           /\ req'[r].at = "reset" => req[r].kind = "reset"
<1>0. req[r] \in Request /\ req \in [Requests -> Request]
  BY DEF TypeInv, TypeOK
<1>e. ASSUME End(r)
      PROVE  Goes(r, Chosen \cup {"find"}) /\ req'[r].at \notin {"retire", "reset"}
  BY <1>e, Ends, IdleRequest, NoneIsNoLabel DEF Goes, Labels
<1>1. CASE req[r].kind = "login" /\ IpAllowed
  <2>1. req' = [req EXCEPT ![r].at = "find", ![r].session = req[r].session, ![r].now = 0,
                           ![r].barred = FALSE]
    BY <1>1 DEF LetIn, StartLogin
  <2>2. /\ req'[r].at = "find" /\ req'[r].kind = req[r].kind
        /\ req'[r].user = req[r].user /\ req'[r].password = req[r].password
    BY <1>0, <2>1 DEF Request
  <2> QED BY <2>2 DEF Goes
<1>2. CASE req[r].kind = "login" /\ ~IpAllowed
  BY <1>2, <1>e DEF LetIn, StartLogin
<1>3. CASE req[r].kind # "login" /\ (req[r].kind = "visit" \/ ~MayGoOn(r))
  BY <1>3, <1>e DEF LetIn
<1>4. CASE ~(req[r].kind = "login" \/ req[r].kind = "visit" \/ ~MayGoOn(r))
  <2> DEFINE next == FirstStep[req[r].kind]
  <2>1. req' = [req EXCEPT ![r].at = next, ![r].now = 0] /\ MayGoOn(r)
    BY <1>4 DEF LetIn
  <2>2. /\ next \in Chosen
        /\ next = "retire" => req[r].kind = "deactivate"
        /\ next = "reset" => req[r].kind = "reset"
    BY <1>0, <1>4 DEF Request, Kinds, FirstStep, Chosen
  <2> HIDE DEF next
  <2>3. /\ req'[r].at = next /\ req'[r].kind = req[r].kind
        /\ req'[r].user = req[r].user /\ req'[r].password = req[r].password
        /\ req'[r].session = req[r].session
    BY <1>0, <2>1 DEF Request
  <2> QED BY <2>1, <2>2, <2>3 DEF Goes
<1> QED BY <1>1, <1>2, <1>3, <1>4

LEMMA TurnedAwayTo ==
    ASSUME TypeInv, NEW r \in Requests, TurnAway(r)
    PROVE  Goes(r, {"find"})
<1>0. req[r] \in Request /\ req \in [Requests -> Request]
  BY DEF TypeInv, TypeOK
<1>1. CASE req[r].kind = "login" /\ IpAllowed
  <2>1. req' = [req EXCEPT ![r].at = "find", ![r].session = None, ![r].now = 0, ![r].barred = FALSE]
    BY <1>1 DEF TurnAway, StartLogin
  <2>2. /\ req'[r].at = "find" /\ req'[r].kind = req[r].kind
        /\ req'[r].user = req[r].user /\ req'[r].password = req[r].password
    BY <1>0, <2>1 DEF Request
  <2> QED BY <2>2 DEF Goes
<1>2. CASE ~(req[r].kind = "login" /\ IpAllowed)
  BY <1>2, Ends DEF TurnAway, StartLogin, Goes
<1> QED BY <1>1, <1>2

\* Where each step leads its request.
LEMMA StepGoes ==
    ASSUME TypeInv, NEW r \in Requests
    PROVE  /\ Validate(r) => Goes(r, Chosen \cup {"find", "expire", "touch"})
           /\ Touch(r) => Goes(r, Chosen \cup {"find"})
           /\ ExpireIdle(r) => Goes(r, {"find"})
           /\ Find(r) => Goes(r, {"verify"})
           /\ Verify(r) => Goes(r, {"failures", "succeed"})
           /\ ReadFailures(r) => Goes(r, {"count"})
           /\ Succeed(r) => Goes(r, {"rotate", "open"})
           /\ Rotate(r) => Goes(r, {"open"})
           /\ Retire(r) \/ ResetPassword(r) => Goes(r, {"revokeAll"})
           /\ (\/ CountFailure(r) \/ OpenSession(r) \/ RevokeSession(r)
               \/ RevokeAll(r) \/ Insert(r)) => req'[r] = Idle
<1>0. req[r] \in Request /\ req \in [Requests -> Request]
  BY DEF TypeInv, TypeOK
<1>k. req[r].at # None => req[r].kind # None
  BY DEF TypeInv, Fits
<1>1. ASSUME Validate(r) PROVE Goes(r, Chosen \cup {"find", "expire", "touch"})
  <2>0. req[r].kind # None
    BY <1>1, <1>k, NoneIsNoLabel DEF Validate, At, Labels
  <2>1. CASE req' = [req EXCEPT ![r].at = "expire"]
    BY <1>0, <2>1 DEF Goes, Request
  <2>2. CASE TurnAway(r)
    BY <2>2, TurnedAwayTo DEF Goes
  <2>3. CASE req' = [req EXCEPT ![r].at = "touch", ![r].now = clock]
    BY <1>0, <2>3 DEF Goes, Request
  <2>4. CASE LetIn(r)
    BY <2>0, <2>4, GoesOnTo DEF Goes
  <2> QED BY <1>1, <2>1, <2>2, <2>3, <2>4, ValidateOutcome
<1>2. ASSUME Touch(r) PROVE Goes(r, Chosen \cup {"find"})
  <2>0. req[r].kind # None
    BY <1>2, <1>k, NoneIsNoLabel DEF Touch, At, Labels
  <2> QED BY <1>2, <2>0, GoesOnTo DEF Touch
<1>3. ExpireIdle(r) => Goes(r, {"find"})
  BY TurnedAwayTo DEF ExpireIdle
<1>4. ASSUME Find(r) PROVE Goes(r, {"verify"})
  <2>1. PICK row : req' = [req EXCEPT ![r].at = "verify", ![r].row = row]
    BY <1>4 DEF Find
  <2> QED BY <1>0, <2>1 DEF Goes, Request
<1>5. ASSUME Verify(r) PROVE Goes(r, {"failures", "succeed"})
  <2>1. \/ End(r)
        \/ req' = [req EXCEPT ![r].at = "failures", ![r].now = clock, ![r].row = None]
        \/ req' = [req EXCEPT ![r].at = "succeed", ![r].row = None]
    BY <1>5 DEF Verify
  <2>2. CASE End(r)
    BY <2>2, Ends DEF Goes
  <2>3. CASE req' = [req EXCEPT ![r].at = "failures", ![r].now = clock, ![r].row = None]
    BY <1>0, <2>3 DEF Goes, Request
  <2>4. CASE req' = [req EXCEPT ![r].at = "succeed", ![r].row = None]
    BY <1>0, <2>4 DEF Goes, Request
  <2> QED BY <2>1, <2>2, <2>3, <2>4
<1>6. ReadFailures(r) => Goes(r, {"count"})
  BY <1>0 DEF ReadFailures, Goes, Request
<1>7. Succeed(r) => Goes(r, {"rotate", "open"})
  BY <1>0 DEF Succeed, Goes, Request
<1>8. Rotate(r) => Goes(r, {"open"})
  BY <1>0 DEF Rotate, Goto, Goes, Request
<1>9. ASSUME Retire(r) \/ ResetPassword(r) PROVE Goes(r, {"revokeAll"})
  <2>1. End(r) \/ Goto(r, "revokeAll")
    BY <1>9 DEF Retire, ResetPassword
  <2>2. CASE Goto(r, "revokeAll")
    BY <1>0, <2>2 DEF Goto, Goes, Request
  <2> QED BY <2>1, <2>2, Ends DEF Goes
<1>10. (\/ CountFailure(r) \/ OpenSession(r) \/ RevokeSession(r)
        \/ RevokeAll(r) \/ Insert(r)) => req'[r] = Idle
  BY Ends DEF CountFailure, OpenSession, RevokeSession, RevokeAll, Insert
<1> QED BY <1>1, <1>2, <1>3, <1>4, <1>5, <1>6, <1>7, <1>8, <1>9, <1>10

\* The labels at which each step begins.
LEMMA StepBegins ==
    ASSUME NEW r, Step(r)
    PROVE  req[r].at # None
  BY NoneIsNoLabel
     DEF Step, Labels, At, Validate, Touch, ExpireIdle, Find, Verify, ReadFailures, CountFailure,
         Succeed, Rotate, OpenSession, RevokeSession, RevokeAll, Insert, Retire, ResetPassword

\* While requests come one after the other, a step is one of the only request.
LEMMA OnlyRequest ==
    ASSUME TypeInv, InTurn, ~disturbed', NEW r \in Requests, Step(r)
    PROVE  /\ Sole' /\ Relies(r)
           /\ \A u \in Users : CountsFit(u)
           /\ \A s \in SessionIds : SessionFits(s)
           /\ \A q \in Requests \ {r} : req'[q] = req[q] /\ req[q].at = None
           /\ \A u : (Uncounted(u) <=> Counting(r, u)) /\ (Uncounted(u)' <=> Counting(r, u)')
           /\ \A s : (ToBeRevoked(s) <=> Ending(r, s)) /\ (ToBeRevoked(s)' <=> Ending(r, s)')
<1>1. ~disturbed
  BY DEF Step
<1>2. /\ Sole /\ Relies(r) /\ (\A u \in Users : CountsFit(u))
      /\ \A s \in SessionIds : SessionFits(s)
  BY <1>1 DEF InTurn
<1>3. Busy(r)
  BY StepBegins DEF TypeInv, Fits, Busy
<1>4. ASSUME NEW q \in Requests \ {r} PROVE req'[q] = req[q] /\ req[q].at = None /\ req[q].kind = None
  <2>1. ~Busy(q)
    BY <1>2, <1>3 DEF Sole
  <2> QED BY <2>1, StepOutcome DEF Busy, TypeInv, Fits
<1>5. Sole'
  BY <1>4 DEF Sole, Busy
<1>6. None \notin {"failures", "count", "revokeAll"}
  BY NoneIsNoLabel DEF Labels
<1>7. ASSUME NEW u
      PROVE  (Uncounted(u) <=> Counting(r, u)) /\ (Uncounted(u)' <=> Counting(r, u)')
  BY <1>4, <1>6 DEF Uncounted, Counting, At
<1>8. ASSUME NEW s
      PROVE  (ToBeRevoked(s) <=> Ending(r, s)) /\ (ToBeRevoked(s)' <=> Ending(r, s)')
  BY <1>4, <1>6 DEF ToBeRevoked, Ending, At
<1> QED BY <1>2, <1>4, <1>5, <1>7, <1>8


\* Only creating, deactivating and resetting a user changes what sessions and
\* administrators depend on in the row, and only in that one.
LEMMA RowStays ==
    ASSUME TypeInv, NEW r \in Requests, NEW u \in Users, Step(r),
           Insert(r) \/ Retire(r) \/ ResetPassword(r) => u # req[r].user
    PROVE  /\ users'[u].status = users[u].status /\ users'[u].role = users[u].role
           /\ users'[u].password = users[u].password
<1>0. users \in [Users -> User] /\ users[u] \in User
  BY DEF TypeInv, TypeOK
<1>1. CASE CountFailure(r) \/ Succeed(r)
  <2>1. \E failed, until : users' = [users EXCEPT ![req[r].user].failed = failed,
                                                  ![req[r].user].lockedUntil = until]
    BY <1>1 DEF CountFailure, Succeed
  <2>2. PICK failed, until : users' = [users EXCEPT ![req[r].user].failed = failed,
                                                    ![req[r].user].lockedUntil = until]
    BY <2>1
  <2> QED BY <1>0, <2>2 DEF User
<1>2. CASE Insert(r) \/ Retire(r) \/ ResetPassword(r)
  <2>1. u # req[r].user
    BY <1>2
  <2>2. users'[u] = users[u]
    BY <1>0, <1>2, <2>1 DEF Insert, Retire, ResetPassword
  <2> QED BY <2>2
<1>3. CASE users' = users
  BY <1>3
<1> QED BY <1>1, <1>2, <1>3
        DEF Step, Validate, Touch, ExpireIdle, Find, Verify, ReadFailures, Rotate, OpenSession,
            RevokeSession, RevokeAll, tables

\* But for the one that is opened, sessions keep their user and password, and
\* none begins to live.
LEMMA SessionStays ==
    ASSUME TypeInv, NEW r \in Requests, NEW s \in SessionIds, Step(r), ~OpenSession(r)
    PROVE  /\ sessions'[s].user = sessions[s].user /\ sessions'[s].password = sessions[s].password
           /\ Live(s)' => Live(s)
<1>0. sessions \in [SessionIds -> Session] /\ sessions[s] \in Session /\ s # None
  BY AuthAssumption DEF TypeInv, TypeOK
<1>1. CASE sessions' = sessions
  BY <1>1 DEF Live
<1>2. CASE Touch(r)
  <2>1. sessions' = [sessions EXCEPT ![req[r].session].lastSeen = req[r].now]
    BY <1>2 DEF Touch, TouchSession
  <2> QED BY <1>0, <2>1 DEF Session, Live
<1>3. ASSUME NEW chosen, sessions' = Revoked(chosen)
      PROVE  /\ sessions'[s].user = sessions[s].user
             /\ sessions'[s].password = sessions[s].password
             /\ Live(s)' => Live(s)
  BY <1>0, <1>3 DEF Revoked, Session, Live
<1>4. CASE ExpireIdle(r) \/ Rotate(r) \/ RevokeSession(r) \/ RevokeAll(r)
  <2>1. \E chosen : sessions' = Revoked(chosen)
    BY <1>4 DEF ExpireIdle, Rotate, RevokeSession, RevokeAll
  <2> QED BY <1>3, <2>1
<1> QED BY <1>1, <1>2, <1>4
        DEF Step, Validate, Find, Verify, ReadFailures, CountFailure, Succeed, Insert, Retire,
            ResetPassword, tables

\* At most labels there is nothing to rely on.
LEMMA NothingToRelyOn ==
    ASSUME NEW r,
           \/ req'[r] = Idle
           \/ req'[r].at \in {"find", "expire", "revoke", "revokeAll", "insert", "validate"}
    PROVE  Relies(r)'
<1>1. req'[r].at \notin {"touch", "verify", "failures", "count", "succeed", "rotate", "open",
                         "retire", "reset"}
  BY IdleRequest, NoneIsNoLabel DEF Labels
<1> QED BY <1>1 DEF Relies, At

LEMMA StepRelies ==
    ASSUME TypeInv, InTurn, ~disturbed', NEW r \in Requests, Step(r)
    PROVE  Relies(r)'
<1>0. /\ req[r] \in Request /\ users \in [Users -> User] /\ sessions \in [SessionIds -> Session]
      /\ req \in [Requests -> Request] /\ Relies(r) /\ Fits(r)
  BY OnlyRequest DEF TypeInv, TypeOK
<1>k. req[r].kind # None
  BY StepBegins DEF TypeInv, Fits
\* What a request relies on when it goes on from a session that was let in.
<1>a. ASSUME Validate(r) \/ Touch(r), LetIn(r), req[r].session \in SessionIds,
             Caller(r) \in Users, users[Caller(r)].status = "active"
      PROVE  Relies(r)'
  <2>1. CASE req'[r] = Idle \/ req'[r].at \in {"find", "revoke", "revokeAll", "insert"}
    BY <2>1, NothingToRelyOn
  <2>2. CASE req'[r].at = "reset"
    <3>1. req'[r].kind = "reset"
      BY <1>k, <1>a, <2>2, GoesOnTo, IdleRequest DEF Goes
    <3> QED BY <2>2, <3>1 DEF Relies, At
  <2>3. CASE req'[r].at = "retire"
    <3>1. req'[r] # Idle
      BY <2>3, IdleRequest, NoneIsNoLabel DEF Labels
    <3>2. /\ req[r].kind = "deactivate" /\ MayGoOn(r) /\ req'[r].kind = "deactivate"
          /\ req'[r].session = req[r].session /\ req'[r].user = req[r].user
      BY <1>k, <1>a, <2>3, <3>1, GoesOnTo DEF Goes
    <3>3. ActiveAdmin(Caller(r)) /\ Caller(r) # req[r].user
      BY <1>a, <3>2 DEF MayGoOn, Privileged, Caller, ActiveAdmin
    <3>4. ~(Insert(r) \/ Retire(r) \/ ResetPassword(r)) /\ ~OpenSession(r)
      BY <1>a DEF Validate, Touch, Insert, Retire, ResetPassword, OpenSession, At
    <3>5. sessions'[req[r].session].user = Caller(r)
      BY <1>a, <3>4, SessionStays DEF Caller
    <3>6. Caller(r)' = Caller(r)
      BY <3>2, <3>5 DEF Caller
    <3>7. ActiveAdmin(Caller(r))'
      <4>1. PICK u \in Users : u = Caller(r)
        BY <1>a
      <4>2. users'[u].status = users[u].status /\ users'[u].role = users[u].role
        BY <3>4, RowStays
      <4> QED BY <3>3, <3>6, <4>1, <4>2 DEF ActiveAdmin
    <3> QED BY <2>3, <3>2, <3>3, <3>6, <3>7 DEF Relies, At
  <2>4. Goes(r, Chosen \cup {"find"})
    BY <1>k, <1>a, GoesOnTo
  <2> QED BY <2>1, <2>2, <2>3, <2>4 DEF Goes, Chosen
<1>1. CASE Validate(r)
  <2>1. CASE req' = [req EXCEPT ![r].at = "expire"]
    <3>1. req'[r].at = "expire"
      BY <1>0, <2>1 DEF Request
    <3> QED BY <3>1, NothingToRelyOn
  <2>2. CASE TurnAway(r)
    <3>1. req'[r] = Idle \/ req'[r].at = "find"
      BY <2>2, TurnedAwayTo DEF Goes
    <3> QED BY <3>1, NothingToRelyOn
  <2>3. CASE /\ Admits(req[r].session)
             /\ req' = [req EXCEPT ![r].at = "touch", ![r].now = clock]
    <3>1. /\ req[r].session \in SessionIds /\ Caller(r) \in Users
          /\ users[Caller(r)].status = "active"
      BY <1>0, <2>3, AdmittedIsThere DEF Caller, Request
    <3>2. req'[r].at = "touch" /\ req'[r].session = req[r].session
      BY <1>0, <2>3 DEF Request
    <3>3. users' = users /\ sessions' = sessions
      BY <1>1 DEF Validate, tables
    <3> QED BY <3>1, <3>2, <3>3 DEF Relies, At, Caller
  <2>4. CASE Admits(req[r].session) /\ LetIn(r)
    BY <1>0, <1>1, <1>a, <2>4, AdmittedIsThere DEF Caller, Request
  <2> QED BY <1>1, <2>1, <2>2, <2>3, <2>4, ValidateOutcome
<1>2. CASE Touch(r)
  BY <1>0, <1>2, <1>a DEF Touch, Relies
<1>3. CASE ExpireIdle(r)
  <2>1. req'[r] = Idle \/ req'[r].at = "find"
    BY <1>3, StepGoes DEF Goes
  <2> QED BY <2>1, NothingToRelyOn
<1>4. CASE Find(r)
  <2>1. /\ users' = users /\ req'[r].at = "verify" /\ req'[r].user = req[r].user
        /\ req'[r].row = IF req[r].user = None \/ Is(req[r].user, "none") THEN None
                                                                          ELSE users[req[r].user]
    BY <1>0, <1>4 DEF Find, tables, Request
  <2>2. req'[r].row # None => req'[r].row = users[req[r].user] /\ users[req[r].user].status # "none"
    BY <2>1 DEF Is
  <2> QED BY <2>1, <2>2 DEF Relies, At
<1>5. CASE Verify(r)
  <2>0. users' = users /\ At(r, "verify")
    BY <1>5 DEF Verify
  <2>1. CASE End(r)
    BY <2>1, Ends, NothingToRelyOn
  <2>2. CASE /\ req[r].row # None
             /\ req' = [req EXCEPT ![r].at = "failures", ![r].now = clock, ![r].row = None]
    <3>1. req'[r].at = "failures" /\ req'[r].user = req[r].user
      BY <1>0, <2>2 DEF Request
    <3>2. users[req[r].user].status # "none"
      BY <1>0, <2>0, <2>2 DEF Relies
    <3> QED BY <2>0, <3>1, <3>2 DEF Relies, At
  <2>3. CASE /\ req[r].row # None /\ req[r].row.password = req[r].password
             /\ req[r].row.status = "active"
             /\ req' = [req EXCEPT ![r].at = "succeed", ![r].row = None]
    <3>1. /\ req'[r].at = "succeed" /\ req'[r].user = req[r].user
          /\ req'[r].password = req[r].password
      BY <1>0, <2>3 DEF Request
    <3>2. req[r].row = users[req[r].user] /\ req[r].user \in Users
      BY <1>0, <2>0, <2>3 DEF Relies, Fits, At
    <3> QED BY <2>0, <2>3, <3>1, <3>2 DEF Relies, At
  <2> QED BY <1>5, <2>1, <2>2, <2>3 DEF Verify
<1>6. CASE ReadFailures(r)
  <2>1. req' = [req EXCEPT ![r].at = "count", ![r].row = users[req[r].user]]
    BY <1>6 DEF ReadFailures
  <2>2. /\ req'[r].at = "count" /\ req'[r].user = req[r].user /\ req'[r].row = users[req[r].user]
    BY <1>0, <2>1 DEF Request
  <2>3. users' = users /\ users[req[r].user].status # "none"
    BY <1>0, <1>6 DEF ReadFailures, Relies, tables
  <2> QED BY <2>2, <2>3 DEF Relies, At
<1>7. CASE Succeed(r) \/ Rotate(r)
  <2>1. /\ req[r].user \in Users /\ users[req[r].user].status = "active"
        /\ users[req[r].user].password = req[r].password
    BY <1>0, <1>7 DEF Succeed, Rotate, Relies
  <2>2. /\ req'[r].at = "rotate" \/ req'[r].at = "open"
        /\ req'[r].user = req[r].user /\ req'[r].password = req[r].password
    BY <1>0, <1>7 DEF Succeed, Rotate, Goto, Request
  <2>3. ~(Insert(r) \/ Retire(r) \/ ResetPassword(r))
    BY <1>7 DEF Succeed, Rotate, Insert, Retire, ResetPassword, At
  <2>4. PICK u \in Users : u = req[r].user
    BY <2>1
  <2>5. users'[u].status = users[u].status /\ users'[u].password = users[u].password
    BY <2>3, RowStays
  <2> QED BY <2>1, <2>2, <2>4, <2>5 DEF Relies, At
<1>8. CASE Retire(r) \/ ResetPassword(r)
  <2>1. req'[r] = Idle \/ req'[r].at = "revokeAll"
    BY <1>8, StepGoes DEF Goes
  <2> QED BY <2>1, NothingToRelyOn
<1>9. CASE CountFailure(r) \/ OpenSession(r) \/ RevokeSession(r) \/ RevokeAll(r) \/ Insert(r)
  BY <1>9, StepGoes, NothingToRelyOn
<1> QED BY <1>1, <1>2, <1>3, <1>4, <1>5, <1>6, <1>7, <1>8, <1>9 DEF Step


\* What a step leaves of a user's counts keeps fitting when the request owes
\* nothing to this user, before and after.
LEMMA StepCounts ==
    ASSUME TypeInv, InTurn, ~disturbed', NEW r \in Requests, Step(r), NEW u \in Users
    PROVE  CountsFit(u)'
<1>0. /\ req[r] \in Request /\ users \in [Users -> User] /\ users[u] \in User
      /\ streak \in [Users -> Nat] /\ req \in [Requests -> Request] /\ Fits(r) /\ Relies(r)
      /\ CountsFit(u) /\ MaxFailures \in Nat /\ MaxFailures > 0
      /\ LockTime \in Nat /\ LockTime > 0
  BY OnlyRequest, AuthAssumption DEF TypeInv, TypeOK
<1>n. users[u].failed \in Nat /\ users[u].lockedUntil \in Nat /\ streak[u] \in Nat
  BY <1>0 DEF User
<1>c. (Uncounted(u) <=> Counting(r, u)) /\ (Uncounted(u)' <=> Counting(r, u)')
  BY OnlyRequest
\* The row and the counts stay, and so does what is owed.
<1>a. ASSUME /\ users'[u].failed = users[u].failed /\ users'[u].status = users[u].status
             /\ users'[u].lockedUntil = users[u].lockedUntil,
             streak'[u] = streak[u], Counting(r, u)' <=> Counting(r, u)
      PROVE  CountsFit(u)'
  BY <1>0, <1>a, <1>c DEF CountsFit
\* Everything about the user is set back.
<1>b. ASSUME users'[u].failed = 0, users'[u].lockedUntil = 0, streak'[u] = 0, ~Counting(r, u)'
      PROVE  CountsFit(u)'
  BY <1>0, <1>b, <1>c DEF CountsFit
<1>1. CASE Validate(r) \/ Touch(r) \/ ExpireIdle(r) \/ Find(r) \/ Rotate(r) \/ OpenSession(r)
           \/ RevokeSession(r) \/ RevokeAll(r)
  <2>1. users' = users /\ streak' = streak
    BY <1>1 DEF Validate, Touch, ExpireIdle, Find, Rotate, OpenSession, RevokeSession, RevokeAll, tables
  <2>2. ~Counting(r, u)
    BY <1>1 DEF Counting, At, Validate, Touch, ExpireIdle, Find, Rotate, OpenSession, RevokeSession,
                RevokeAll
  <2>3. req'[r].at \notin {"failures", "count"}
    BY <1>1, StepGoes, IdleRequest, NoneIsNoLabel DEF Goes, Labels, Chosen
  <2> QED BY <2>1, <2>2, <2>3, <1>a DEF Counting, At
<1>2. CASE Verify(r)
  <2>0. users' = users /\ ~Counting(r, u)
    BY <1>2 DEF Verify, Counting, At
  <2>1. CASE End(r) /\ UNCHANGED streak
    <3>1. ~Counting(r, u)'
      BY <2>1, Ends, IdleRequest, NoneIsNoLabel DEF Counting, At, Labels
    <3> QED BY <2>0, <2>1, <3>1, <1>a
  <2>2. CASE /\ req' = [req EXCEPT ![r].at = "failures", ![r].now = clock, ![r].row = None]
             /\ streak' = [streak EXCEPT ![req[r].user] = @ + 1]
    <3>1. req'[r].at = "failures" /\ req'[r].user = req[r].user
      BY <1>0, <2>2 DEF Request
    <3>2. CASE u = req[r].user
      <4>1. streak'[u] = streak[u] + 1 /\ Counting(r, u)'
        BY <1>0, <2>2, <3>1, <3>2 DEF Counting, At
      <4> QED BY <1>0, <1>c, <1>n, <2>0, <4>1 DEF CountsFit
    <3>3. CASE u # req[r].user
      BY <1>0, <2>0, <2>2, <3>1, <3>3, <1>a DEF Counting
    <3> QED BY <3>2, <3>3
  <2>3. CASE /\ req' = [req EXCEPT ![r].at = "succeed", ![r].row = None]
             /\ UNCHANGED streak
    <3>1. req'[r].at = "succeed"
      BY <1>0, <2>3 DEF Request
    <3> QED BY <2>0, <2>3, <3>1, <1>a DEF Counting, At
  <2> QED BY <1>2, <2>1, <2>2, <2>3 DEF Verify
<1>3. CASE ReadFailures(r)
  <2>1. req' = [req EXCEPT ![r].at = "count", ![r].row = users[req[r].user]] /\ At(r, "failures")
    BY <1>3 DEF ReadFailures
  <2>2. req'[r].at = "count" /\ req'[r].user = req[r].user
    BY <1>0, <2>1 DEF Request
  <2>3. users' = users /\ streak' = streak
    BY <1>3 DEF ReadFailures, tables
  <2> QED BY <2>1, <2>2, <2>3, <1>a DEF Counting, At
<1>4. CASE CountFailure(r)
  <2> DEFINE failed == req[r].row.failed + 1
             until == IF LockFrom(failed) THEN req[r].now + LockTime ELSE req[r].row.lockedUntil
  <2>1. /\ users' = [users EXCEPT ![req[r].user].failed = failed, ![req[r].user].lockedUntil = until]
        /\ streak' = streak /\ At(r, "count") /\ req[r].row = users[req[r].user]
    BY <1>0, <1>4 DEF CountFailure, Relies
  <2>2. ~Counting(r, u)'
    BY <1>4, StepGoes, IdleRequest, NoneIsNoLabel DEF Counting, At, Labels
  <2>3. CASE u = req[r].user
    <3>1. /\ failed = users[u].failed + 1 /\ req[r].row.lockedUntil = users[u].lockedUntil
          /\ req[r].now \in Nat
      BY <1>0, <2>1, <2>3 DEF Request
    <3>2. /\ failed \in Nat /\ failed > 0
          /\ until = IF failed >= MaxFailures THEN req[r].now + LockTime ELSE users[u].lockedUntil
      BY <1>n, <3>1 DEF LockFrom
    <3> HIDE DEF failed, until
    <3>3. /\ users'[u].failed = failed /\ users'[u].lockedUntil = until
          /\ users'[u].status = users[u].status
      BY <1>0, <2>1, <2>3 DEF User
    <3>4. users[u].status # "none" /\ streak[u] = failed
      BY <1>0, <1>c, <1>n, <2>1, <2>3, <3>1 DEF Relies, CountsFit, Counting
    <3>5. until # 0 <=> failed >= MaxFailures
      <4>1. users[u].lockedUntil # 0 => users[u].failed >= MaxFailures
        BY <1>0 DEF CountsFit
      <4> QED BY <1>0, <1>n, <3>1, <3>2, <4>1
    <3> QED BY <1>c, <2>1, <2>2, <3>2, <3>3, <3>4, <3>5 DEF CountsFit
  <2>4. CASE u # req[r].user
    BY <1>0, <2>1, <2>2, <2>4, <1>a DEF Counting
  <2> QED BY <2>3, <2>4
<1>5. CASE Succeed(r) \/ ResetPassword(r)
  <2>0. ~Counting(r, u)
    BY <1>5 DEF Succeed, ResetPassword, Counting, At
  <2>1. ~Counting(r, u)'
    BY <1>5, StepGoes, IdleRequest, NoneIsNoLabel DEF Goes, Counting, At, Labels
  <2>2. \/ users' = users /\ streak' = streak
        \/ /\ users' = [users EXCEPT ![req[r].user].failed = 0, ![req[r].user].lockedUntil = 0]
           /\ streak' = [streak EXCEPT ![req[r].user] = 0]
        \/ /\ users' = [users EXCEPT ![req[r].user].password = req[r].password,
                                     ![req[r].user].failed = 0, ![req[r].user].lockedUntil = 0]
           /\ streak' = [streak EXCEPT ![req[r].user] = 0]
    BY <1>5 DEF Succeed, ResetPassword
  <2>3. CASE u = req[r].user /\ ~(users' = users /\ streak' = streak)
    <3>1. users'[u].failed = 0 /\ users'[u].lockedUntil = 0 /\ streak'[u] = 0
      BY <1>0, <2>2, <2>3 DEF User
    <3> QED BY <1>b, <2>1, <3>1
  <2>4. CASE u # req[r].user \/ (users' = users /\ streak' = streak)
    <3>1. users'[u] = users[u] /\ streak'[u] = streak[u]
      BY <1>0, <2>2, <2>4
    <3> QED BY <1>a, <2>0, <2>1, <3>1
  <2> QED BY <2>3, <2>4
<1>6. CASE Insert(r) \/ Retire(r)
  <2>0. ~Counting(r, u) /\ streak' = streak
    BY <1>6 DEF Insert, Retire, Counting, At
  <2>1. ~Counting(r, u)'
    BY <1>6, StepGoes, IdleRequest, NoneIsNoLabel DEF Goes, Counting, At, Labels
  <2>2. CASE users'[u] = users[u]
    BY <1>a, <2>0, <2>1, <2>2
  <2>3. CASE Insert(r) /\ Is(req[r].user, "none") /\ u = req[r].user
    <3>1. \E role \in Roles : users' = [users EXCEPT ![req[r].user] = NewUser(role, req[r].password)]
      BY <2>3 DEF Insert
    <3>2. users'[u].failed = 0 /\ users'[u].lockedUntil = 0
      BY <1>0, <2>3, <3>1 DEF NewUser
    <3>3. streak[u] = 0
      BY <1>0, <1>c, <1>n, <2>0, <2>3 DEF CountsFit, Is
    <3> QED BY <1>b, <2>0, <2>1, <3>2, <3>3
  <2>4. CASE Retire(r) /\ u = req[r].user /\ users' = [users EXCEPT ![req[r].user].status = "deactivated"]
    <3>1. /\ users'[u].failed = users[u].failed /\ users'[u].lockedUntil = users[u].lockedUntil
          /\ users'[u].status = "deactivated"
      BY <1>0, <2>4 DEF User
    <3> QED BY <1>0, <1>c, <2>0, <2>1, <3>1 DEF CountsFit
  <2>5. \/ users'[u] = users[u]
        \/ Insert(r) /\ Is(req[r].user, "none") /\ u = req[r].user
        \/ Retire(r) /\ u = req[r].user /\ users' = [users EXCEPT ![req[r].user].status = "deactivated"]
    BY <1>0, <1>6 DEF Insert, Retire
  <2> QED BY <2>2, <2>3, <2>4, <2>5
<1> QED BY <1>1, <1>2, <1>3, <1>4, <1>5, <1>6 DEF Step

LEMMA StepSessions ==
    ASSUME TypeInv, InTurn, ~disturbed', NEW r \in Requests, Step(r), NEW s \in SessionIds, Live(s)'
    PROVE  Belongs(s)' \/ ToBeRevoked(s)'
<1>0. /\ req[r] \in Request /\ users \in [Users -> User] /\ sessions \in [SessionIds -> Session]
      /\ req \in [Requests -> Request] /\ Relies(r) /\ SessionFits(s)
  BY OnlyRequest DEF TypeInv, TypeOK
<1>c. (ToBeRevoked(s) <=> Ending(r, s)) /\ (ToBeRevoked(s)' <=> Ending(r, s)')
  BY OnlyRequest
\* A session keeps belonging to a user whose row is left alone.
<1>a. ASSUME ~OpenSession(r), Belongs(s),
             Insert(r) \/ Retire(r) \/ ResetPassword(r) => sessions[s].user # req[r].user
      PROVE  Belongs(s)'
  <2>1. PICK u \in Users : u = sessions[s].user
    BY <1>a DEF Belongs
  <2>2. users'[u].status = users[u].status /\ users'[u].password = users[u].password
    BY <1>a, <2>1, RowStays
  <2>3. sessions'[s].user = u /\ sessions'[s].password = sessions[s].password
    BY <1>a, <2>1, SessionStays
  <2> QED BY <1>a, <2>1, <2>2, <2>3 DEF Belongs
<1>1. CASE OpenSession(r)
  <2>1. PICK t \in Unused :
          sessions' = [sessions EXCEPT ![t] =
                            [status |-> "live", user |-> req[r].user, password |-> req[r].password,
                             expiresAt |-> req[r].now + FullTime, lastSeen |-> req[r].now]]
    BY <1>1 DEF OpenSession
  <2>2. users' = users /\ At(r, "open")
    BY <1>1 DEF OpenSession
  <2>3. CASE s = t
    <3>1. sessions'[s].user = req[r].user /\ sessions'[s].password = req[r].password
      BY <1>0, <2>1, <2>3
    <3>2. /\ req[r].user \in Users /\ users[req[r].user].status = "active"
          /\ users[req[r].user].password = req[r].password
      BY <1>0, <2>2 DEF Relies
    <3> QED BY <2>2, <3>1, <3>2 DEF Belongs
  <2>4. CASE s # t
    <3>1. sessions'[s] = sessions[s]
      BY <1>0, <2>1, <2>4
    <3>2. Live(s) /\ ~Ending(r, s)
      BY <2>2, <3>1 DEF Live, Ending, At
    <3> QED BY <1>0, <1>c, <2>2, <3>1, <3>2 DEF SessionFits, Belongs
  <2> QED BY <2>3, <2>4
<1>2. CASE RevokeAll(r)
  <2>1. sessions' = Revoked(LiveSessions(Target(r)))
    BY <1>2 DEF RevokeAll
  <2>2. Live(s) /\ ~OpenSession(r)
    BY <1>2, SessionStays DEF RevokeAll, OpenSession, At
  <2>3. sessions'[s].status # "revoked"
    BY DEF Live
  <2>4. s \notin LiveSessions(Target(r))
    BY <1>0, <2>1, <2>3 DEF Revoked, Session
  <2>5. sessions[s].user # Target(r)
    BY <2>2, <2>4 DEF LiveSessions
  <2>6. Belongs(s)
    BY <1>0, <1>c, <2>2, <2>5 DEF SessionFits, Ending
  <2>7. ~(Insert(r) \/ Retire(r) \/ ResetPassword(r))
    BY <1>2 DEF RevokeAll, Insert, Retire, ResetPassword, At
  <2> QED BY <1>a, <2>2, <2>6, <2>7
<1>3. CASE ~OpenSession(r) /\ ~RevokeAll(r)
  <2>1. Live(s)
    BY <1>3, SessionStays
  <2>2. ~Ending(r, s)
    BY <1>3 DEF Ending, Step, At, Validate, Touch, ExpireIdle, Find, Verify, ReadFailures,
                CountFailure, Succeed, Rotate, OpenSession, RevokeSession, RevokeAll, Insert,
                Retire, ResetPassword
  <2>3. Belongs(s)
    BY <1>0, <1>c, <2>1, <2>2 DEF SessionFits
  <2>4. CASE (Retire(r) \/ ResetPassword(r)) /\ sessions[s].user = req[r].user
    <3>1. req[r].user \in Users /\ users[req[r].user].status = "active" /\ req[r].kind # "revokeAll"
      BY <1>0, <2>3, <2>4 DEF Belongs, Relies, Retire, ResetPassword
    <3>2. Goto(r, "revokeAll")
      BY <2>4, <3>1 DEF Retire, ResetPassword, Is
    <3>3. /\ req'[r].at = "revokeAll" /\ req'[r].kind = req[r].kind
          /\ req'[r].user = req[r].user
      BY <1>0, <3>2 DEF Goto, Request
    <3>4. sessions' = sessions
      BY <2>4 DEF Retire, ResetPassword
    <3>5. Ending(r, s)'
      BY <2>4, <3>1, <3>3, <3>4 DEF Ending, At, Target
    <3> QED BY <1>c, <3>5
  <2>5. CASE Insert(r) /\ sessions[s].user = req[r].user
    <3>1. ~Is(req[r].user, "none")
      BY <2>3, <2>5 DEF Belongs, Is
    <3>2. users' = users /\ sessions' = sessions
      BY <2>5, <3>1 DEF Insert
    <3> QED BY <2>3, <3>2 DEF Belongs
  <2>6. CASE Insert(r) \/ Retire(r) \/ ResetPassword(r) => sessions[s].user # req[r].user
    BY <1>3, <1>a, <2>3, <2>6
  <2> QED BY <2>4, <2>5, <2>6
<1> QED BY <1>1, <1>2, <1>3

LEMMA StepAdmins ==
    ASSUME TypeInv, InTurn, ~disturbed', NEW r \in Requests, Step(r)
    PROVE  \E u \in Users : ActiveAdmin(u)'
<1>0. /\ req[r] \in Request /\ users \in [Users -> User] /\ Relies(r) /\ ~disturbed
  BY OnlyRequest DEF TypeInv, TypeOK, Step
<1>a. ASSUME NEW u \in Users, ActiveAdmin(u),
             Insert(r) \/ Retire(r) \/ ResetPassword(r) => u # req[r].user
      PROVE  ActiveAdmin(u)'
  BY <1>a, RowStays DEF ActiveAdmin
<1>1. CASE Retire(r)
  <2>1. ActiveAdmin(Caller(r)) /\ Caller(r) # req[r].user
    BY <1>0, <1>1 DEF Retire, Relies
  <2>2. PICK u \in Users : u = Caller(r)
    BY <2>1 DEF ActiveAdmin
  <2> QED BY <1>a, <2>1, <2>2
<1>2. CASE ~Retire(r)
  <2>1. PICK u \in Users : ActiveAdmin(u)
    BY <1>0 DEF InTurn
  <2>2. CASE Insert(r) /\ u = req[r].user
    <3>1. users' = users
      BY <2>1, <2>2 DEF Insert, Is, ActiveAdmin
    <3> QED BY <2>1, <3>1 DEF ActiveAdmin
  <2>3. CASE ResetPassword(r) /\ u = req[r].user
    <3>1. \/ users' = users
          \/ users' = [users EXCEPT ![u].password = req[r].password, ![u].failed = 0,
                                    ![u].lockedUntil = 0]
      BY <2>3 DEF ResetPassword
    <3>2. users'[u].status = users[u].status /\ users'[u].role = users[u].role
      BY <1>0, <3>1 DEF User
    <3> QED BY <2>1, <3>2 DEF ActiveAdmin
  <2> QED BY <1>2, <1>a, <2>1, <2>2, <2>3
<1> QED BY <1>1, <1>2


\* Nothing is owed where every request is new or has ended.
LEMMA NothingOwed ==
    ASSUME TypeInv, ~disturbed, InTurn, ~disturbed', UNCHANGED <<users, sessions, streak>>, Sole',
           \A q \in Requests : req[q].at \notin {"failures", "count", "revokeAll"},
           \A q \in Requests : req'[q].at = None \/ req'[q].at = "validate"
    PROVE  InTurn'
<1>1. \A q \in Requests : req'[q].at \notin {"failures", "count", "revokeAll"}
  BY NoneIsNoLabel DEF Labels
<1>2. \A q \in Requests : Relies(q)'
  BY NoneIsNoLabel DEF Relies, At, Labels
<1>3. ASSUME NEW u \in Users PROVE CountsFit(u)'
  <2>1. ~Uncounted(u) /\ ~Uncounted(u)'
    BY <1>1 DEF Uncounted, Counting, At
  <2> QED BY <2>1 DEF InTurn, CountsFit
<1>4. ASSUME NEW s \in SessionIds PROVE SessionFits(s)'
  <2>1. ~ToBeRevoked(s)
    BY DEF ToBeRevoked, Ending, At
  <2>2. Live(s) => Belongs(s)
    BY <2>1 DEF InTurn, SessionFits
  <2> QED BY <2>2 DEF SessionFits, Live, Belongs
<1>5. \E u \in Users : ActiveAdmin(u)'
  BY DEF InTurn, ActiveAdmin
<1> QED BY <1>2, <1>3, <1>4, <1>5 DEF InTurn

LEMMA InTurnStep == TypeInv /\ InTurn /\ [Next]_vars => InTurn'
<1> SUFFICES ASSUME TypeInv, InTurn, [Next]_vars, ~disturbed' PROVE InTurn'
  BY DEF InTurn
<1>0. /\ req \in [Requests -> Request]
      /\ \A r \in Requests : ~Busy(r) => req[r].at = None
      /\ None \notin {"validate", "find", "insert", "failures", "count", "revokeAll"}
  BY NoneIsNoLabel DEF TypeInv, TypeOK, Fits, Busy, Labels
<1>1. ASSUME NEW r \in Requests, NEW kind \in Kinds, NEW s \in SessionIds \cup {None},
             NEW u \in Users \cup {None}, NEW p \in Passwords \cup {None}, Begin(r, kind, s, u, p)
      PROVE  InTurn'
  <2>1. ~disturbed /\ \A q \in Requests : ~Busy(q)
    BY <1>1 DEF Begin
  <2>2. req'[r].at = "validate" /\ \A q \in Requests \ {r} : req'[q] = req[q]
    BY <1>0, <1>1, IdleRequest DEF Begin, Request
  <2>3. \A q \in Requests \ {r} : req'[q].kind = None /\ req'[q].at = None
    BY <1>0, <2>1, <2>2 DEF Busy
  <2>4. Sole'
    BY <2>3 DEF Sole, Busy
  <2>5. UNCHANGED <<users, sessions, streak>>
    BY <1>1 DEF Begin, tables
  <2>6. \A q \in Requests : req[q].at \notin {"failures", "count", "revokeAll"}
    BY <1>0, <2>1
  <2>7. \A q \in Requests : req'[q].at = None \/ req'[q].at = "validate"
    BY <2>2, <2>3
  <2> QED BY <2>1, <2>4, <2>5, <2>6, <2>7, NothingOwed
<1>2. ASSUME NEW r \in Requests, Step(r) PROVE InTurn'
  <2>1. Sole' /\ \A q \in Requests \ {r} : req'[q] = req[q] /\ req[q].at = None
    BY <1>2, OnlyRequest
  <2>2. ASSUME NEW q \in Requests PROVE Relies(q)'
    <3>1. CASE q # r
      BY <2>1, <3>1, NoneIsNoLabel DEF Relies, At, Labels
    <3> QED BY <1>2, <3>1, StepRelies
  <2>3. \A s \in SessionIds : SessionFits(s)'
    BY <1>2, StepSessions DEF SessionFits
  <2> QED BY <1>2, <2>1, <2>2, <2>3, StepCounts, StepAdmins DEF InTurn
<1>3. ASSUME NEW r \in Requests, Fail(r) PROVE InTurn'
  <2>1. ~disturbed /\ req[r].at \in {"validate", "find", "insert"} /\ Busy(r)
    BY <1>3 DEF Fail
  <2>2. req'[r] = Idle /\ \A q \in Requests \ {r} : req'[q] = req[q]
    BY <1>3, Ends DEF Fail
  <2>3. \A q \in Requests \ {r} : ~Busy(q) /\ req[q].at = None
    BY <1>0, <2>1 DEF InTurn, Sole
  <2>4. Sole' /\ UNCHANGED <<users, sessions, streak>>
    BY <1>3, <2>2, <2>3, IdleRequest DEF Sole, Busy, Fail, tables
  <2>5. \A q \in Requests : req[q].at \notin {"failures", "count", "revokeAll"}
    BY <1>0, <2>1, <2>3
  <2> QED BY <2>1, <2>2, <2>3, <2>4, <2>5, IdleRequest, NothingOwed
<1>4. CASE Restart
  <2>1. ~disturbed /\ \A q \in Requests : ~Busy(q)
    BY <1>4 DEF Restart
  <2>2. \A q \in Requests : req'[q] = Idle
    BY <1>4 DEF Restart
  <2>3. Sole' /\ UNCHANGED <<users, sessions, streak>>
    BY <1>4, <2>2, IdleRequest DEF Sole, Busy, Restart
  <2>4. \A q \in Requests : req[q].at \notin {"failures", "count", "revokeAll"}
    BY <1>0, <2>1
  <2> QED BY <2>1, <2>2, <2>3, <2>4, IdleRequest, NothingOwed
<1>5. CASE Tick \/ UNCHANGED vars
  <2>1. UNCHANGED <<users, sessions, req, streak, disturbed>>
    BY <1>5 DEF Tick, vars, tables, history
  <2>2. Sole' /\ \A r \in Requests : Relies(r)'
    BY <2>1 DEF InTurn, Sole, Busy, Relies, At, Caller, ActiveAdmin
  <2>3. \A u \in Users : CountsFit(u)'
    BY <2>1 DEF InTurn, CountsFit, Uncounted, Counting, At
  <2>4. \A s \in SessionIds : SessionFits(s)'
    BY <2>1 DEF InTurn, SessionFits, Live, Belongs, ToBeRevoked, Ending, At, Target
  <2>5. \E u \in Users : ActiveAdmin(u)'
    BY <2>1 DEF InTurn, ActiveAdmin
  <2> QED BY <2>2, <2>3, <2>4, <2>5 DEF InTurn
<1> QED BY <1>1, <1>2, <1>3, <1>4, <1>5, NextCases

LEMMA InTurnInit == Init => InTurn
<1> SUFFICES ASSUME Init PROVE InTurn
  OBVIOUS
<1>1. \A r \in Requests : req[r] = Idle /\ req[r].at = None /\ req[r].kind = None
  BY IdleRequest DEF Init
<1>2. Sole /\ \A r \in Requests : Relies(r)
  BY <1>1, NoneIsNoLabel DEF Sole, Busy, Relies, At, Labels
<1>3. PICK p \in Passwords : users = [u \in Users |-> IF u = FirstAdmin THEN NewUser("admin", p)
                                   ELSE [status |-> "none", role |-> None, password |-> None,
                                         failed |-> 0, lockedUntil |-> 0]]
  BY DEF Init
<1>4. ASSUME NEW u \in Users PROVE CountsFit(u)
  <2>1. users[u].failed = 0 /\ users[u].lockedUntil = 0 /\ streak[u] = 0
    BY <1>3 DEF NewUser, Init
  <2>2. ~Uncounted(u)
    BY <1>1, NoneIsNoLabel DEF Uncounted, Counting, At, Labels
  <2> QED BY <2>1, <2>2, AuthAssumption DEF CountsFit
<1>5. \A s \in SessionIds : SessionFits(s)
  BY DEF Init, SessionFits, Live
<1>6. ActiveAdmin(FirstAdmin)
  BY <1>3, AuthAssumption DEF NewUser, ActiveAdmin
<1> QED BY <1>2, <1>4, <1>5, <1>6, AuthAssumption DEF InTurn

\* Where requests come one after the other and none stops half done, what the
\* invariant allows to a request under way is gone when there is none.
LEMMA AloneOwesNothing ==
    ASSUME TypeInv, InTurn, Alone
    PROVE  /\ \A u \in Users : CountsFit(u) /\ ~Uncounted(u)
           /\ \A s \in SessionIds : Live(s) => Belongs(s)
           /\ \E u \in Users : ActiveAdmin(u)
<1>1. \A r \in Requests : req[r].at = None
  BY DEF Alone, Busy, TypeInv, Fits
<1>2. None \notin {"failures", "count", "revokeAll"}
  BY NoneIsNoLabel DEF Labels
<1>3. (\A u : ~Uncounted(u)) /\ (\A s : ~ToBeRevoked(s))
  BY <1>1, <1>2 DEF Uncounted, Counting, ToBeRevoked, Ending, At
<1> QED BY <1>3 DEF Alone, InTurn, SessionFits

LEMMA InTurnInvariant == Spec => [](TypeInv /\ InTurn)
  BY TypeInvariant, InTurnInit, InTurnStep, PTL DEF Spec

\* As long as requests come one after the other and none stops half done, wrong
\* passwords are counted one by one from the last right one or the last reset
\* of the password, and lock the account from MaxFailures on.
THEOREM FailuresCounted == Spec => []FailuresAreCounted
<1>1. TypeInv /\ InTurn => FailuresAreCounted
  <2> SUFFICES ASSUME TypeInv, InTurn, Alone, NEW u \in Users
               PROVE  /\ users[u].failed = streak[u]
                      /\ users[u].lockedUntil # 0 <=> streak[u] >= MaxFailures
    BY DEF FailuresAreCounted
  <2>1. CountsFit(u) /\ ~Uncounted(u) /\ users[u].failed \in Nat
    BY AloneOwesNothing DEF TypeInv, TypeOK, User
  <2> QED BY <2>1 DEF CountsFit
<1> QED BY <1>1, InTurnInvariant, PTL

\* Likewise a live session belongs to an active user and was opened with the
\* password this user has now: deactivation and reset end all the others.
THEOREM SessionsFit == Spec => []SessionsFitUsers
<1>1. TypeInv /\ InTurn => SessionsFitUsers
  <2> SUFFICES ASSUME TypeInv, InTurn, Alone, NEW s \in SessionIds, Live(s)
               PROVE  /\ Is(sessions[s].user, "active")
                      /\ sessions[s].password = users[sessions[s].user].password
    BY DEF SessionsFitUsers
  <2>1. Belongs(s)
    BY AloneOwesNothing
  <2> QED BY <2>1, AuthAssumption DEF Belongs, Is
<1> QED BY <1>1, InTurnInvariant, PTL

\* Likewise an active administrator always remains: the last one is the caller
\* of any further deactivation, and never its target.
THEOREM AdminRemains == Spec => []SomeAdminRemains
<1>1. TypeInv /\ InTurn => SomeAdminRemains
  <2> SUFFICES ASSUME TypeInv, InTurn, Alone
               PROVE  \E u \in Users : Is(u, "active") /\ users[u].role = "admin"
    BY DEF SomeAdminRemains
  <2> QED BY AloneOwesNothing, AuthAssumption DEF ActiveAdmin, Is
<1> QED BY <1>1, InTurnInvariant, PTL
=============================================================================

---------------------------- MODULE Connections ----------------------------
(***************************************************************************)
(* Who uses the tables of Credentials, and when: the requests of the web   *)
(* application that save, delete and retest a connection or ask what the   *)
(* user may see, and the candidate loop of a synchronisation.  They run    *)
(* concurrently, and each awaits GitLab or the database between any two of *)
(* its steps.                                                              *)
(*                                                                         *)
(* A probe of GitLab is one step, which takes the PAT read earlier and     *)
(* gives the answer of the moment.  A request whose probe is rejected, or  *)
(* fails before anything was written, changes nothing and simply ends      *)
(* (Abandon).  The transaction of saveConnection looks for a row and then  *)
(* writes it, which under READ COMMITTED are two steps.                    *)
(*                                                                         *)
(* Left out: e-mail addresses and audit events, the list of a user's       *)
(* connections, and several projects in one listing.                       *)
(***************************************************************************)
EXTENDS Credentials, FiniteSets

CONSTANTS
    Requests,   \* requests of the web application that may be in progress
    Syncs       \* synchronisations of the project that may be in progress

Actors == Requests \cup Syncs

VARIABLES
    valid,      \* GitLab: the PATs it accepts
    members,    \* GitLab: the accounts that may read the project
    req,        \* the progress of each request
    disturbed,  \* history: requests overlapped, or one stopped half done
    steady      \* history: per synchronisation, the credentials that were
                \* good from its start until now

gitlab == <<valid, members>>
history == <<disturbed, steady>>
vars == <<tables, gitlab, req, history>>

Kinds == {"none", "save", "delete", "retest", "visit", "sync"}

Labels == {"find", "update", "create", "look", "store", "replace", "revoke", "erase",
           "lookup", "token", "probe", "confirm", "next", "invalidate", "mark",
           "allow", "deny", "clear"}

\* What a request holds: the user it is for, the connection and the PAT it
\* read, and, for a synchronisation, the candidates still to try.
Request == [kind : Kinds,
            at   : Labels \cup {None},
            user : Users \cup {None},
            conn : ConnIds \cup {None},
            pat  : Pats \cup {None},
            todo : SUBSET ConnIds]

Idle == [kind |-> "none", at |-> None, user |-> None, conn |-> None, pat |-> None,
         todo |-> {}]

Busy(r) == req[r].kind # "none"
At(r, kinds, label) == req[r].kind \in kinds /\ req[r].at = label

Begin(r, kind, at, u, c, pat, todo) ==
    /\ ~Busy(r)
    /\ req' = [req EXCEPT ![r] = [kind |-> kind, at |-> at, user |-> u, conn |-> c,
                                  pat |-> pat, todo |-> todo]]

\* What the rest of the request does not need any more is forgotten.
NeedsNoPat == {"mark", "clear", "next"}
NeedsNoConnection == {"clear", "next"}
NeedsNoUser == {"next"}

Goto(r, label) ==
    req' = [req EXCEPT ![r].at = label,
                       ![r].pat = IF label \in NeedsNoPat THEN None ELSE @,
                       ![r].conn = IF label \in NeedsNoConnection THEN None ELSE @,
                       ![r].user = IF label \in NeedsNoUser THEN None ELSE @]
End(r) == req' = [req EXCEPT ![r] = Idle]

Init ==
    /\ TablesInit
    /\ valid = Pats
    /\ members \in SUBSET Accounts
    /\ req = [r \in Actors |-> Idle]
    /\ disturbed = FALSE
    /\ steady = [r \in Actors |-> {}]

-----------------------------------------------------------------------------
(* saveConnection                                                          *)

\* testPat accepted the PAT: /user names the account it opens.
BeginSave(r, u, pat) ==
    /\ pat \in valid
    /\ Begin(r, "save", "find", u, None, pat, {})
    /\ UNCHANGED tables

\* The transaction looks for a live connection of the user.
SaveFind(r) ==
    /\ At(r, {"save"}, "find")
    /\ \/ \E c \in LiveConnections(req[r].user) :
             req' = [req EXCEPT ![r].conn = c, ![r].at = "update"]
       \/ /\ LiveConnections(req[r].user) = {}
          /\ Goto(r, "create")
    /\ UNCHANGED tables

SavedRow(r) == [user |-> req[r].user, account |-> AccountOf[req[r].pat], status |-> "active"]

\* An index that refuses the row ends the request: the identity is linked to
\* another user, or the user has an active connection by now.
SaveUpdate(r) ==
    /\ At(r, {"save"}, "update")
    /\ IF FitsIndexes(req[r].conn, SavedRow(r))
       THEN WriteConnection(req[r].conn, SavedRow(r)) /\ Goto(r, "look")
       ELSE UNCHANGED tables /\ End(r)

SaveCreate(r) ==
    /\ At(r, {"save"}, "create")
    /\ \E c \in ConnIds :
          /\ IsNextConnection(c)
          /\ IF FitsIndexes(c, SavedRow(r))
             THEN /\ WriteConnection(c, SavedRow(r))
                  /\ req' = [req EXCEPT ![r].conn = c, ![r].at = "look"]
             ELSE UNCHANGED tables /\ End(r)

SaveLook(r) ==
    /\ At(r, {"save"}, "look")
    /\ Goto(r, IF ActiveCredentials(req[r].conn) = {} THEN "store" ELSE "replace")
    /\ UNCHANGED tables

SaveStore(r) ==
    /\ At(r, {"save"}, "store")
    /\ IF ActiveCredentials(req[r].conn) = {}
       THEN StoreCredential(req[r].conn, req[r].pat) /\ Goto(r, "clear")
       ELSE UNCHANGED tables /\ End(r)

SaveReplace(r) ==
    /\ At(r, {"save"}, "replace")
    /\ ReplaceCredential(req[r].conn, req[r].pat)
    /\ Goto(r, "clear")

-----------------------------------------------------------------------------
(* deleteConnection                                                        *)

BeginDelete(r, c) ==
    /\ ~ConnectionIs(c, {"none"})
    /\ Begin(r, "delete", "revoke", conns[c].user, c, None, {})
    /\ UNCHANGED tables

DeleteRevoke(r) ==
    /\ At(r, {"delete"}, "revoke")
    /\ InvalidateCredential(req[r].conn, "revoked")
    /\ Goto(r, "erase")

DeleteErase(r) ==
    /\ At(r, {"delete"}, "erase")
    /\ WriteConnection(req[r].conn, [conns[req[r].conn] EXCEPT !.status = "deleted"])
    /\ Goto(r, "clear")

-----------------------------------------------------------------------------
(* retestStored                                                            *)

BeginRetest(r, c) ==
    /\ IsLive(c)
    /\ Begin(r, "retest", "token", conns[c].user, c, None, {})
    /\ UNCHANGED tables

\* The update names the row by its id alone.
RetestConfirm(r) ==
    /\ At(r, {"retest"}, "confirm")
    /\ LET row == [conns[req[r].conn] EXCEPT !.status = "active"] IN
       IF FitsIndexes(req[r].conn, row)
       THEN WriteConnection(req[r].conn, row)
       ELSE UNCHANGED tables
    /\ End(r)

-----------------------------------------------------------------------------
(* resolveVisibility, for listing, for the dashboard and for enabling      *)

BeginVisit(r, c) ==
    /\ ConnectionIs(c, {"active"})
    /\ Begin(r, "visit", "lookup", conns[c].user, c, None, {})
    /\ UNCHANGED tables

\* A fresh entry answers without asking GitLab.
VisitLookup(r) ==
    /\ At(r, {"visit"}, "lookup")
    /\ IF cache[req[r].user] = None THEN Goto(r, "token") ELSE End(r)
    /\ UNCHANGED tables

VisitAllow(r) ==
    /\ At(r, {"visit"}, "allow")
    /\ CacheDecision(req[r].user, AccountOf[req[r].pat])
    /\ End(r)

-----------------------------------------------------------------------------
(* The candidate loop of syncProject                                       *)

\* They are tried in the order of created_at.
Candidates == {c \in ConnIds : ConnectionIs(c, {"active"})}

BeginSync(r) ==
    /\ Begin(r, "sync", "next", None, None, None, Candidates)
    /\ UNCHANGED tables

\* No candidate is left: the outcome is sync_blocked.
Blocked(r) == At(r, {"sync"}, "next") /\ req[r].todo = {}

SyncNext(r) ==
    /\ At(r, {"sync"}, "next")
    /\ \/ Blocked(r) /\ End(r)
       \/ \E c \in req[r].todo :
             /\ \A d \in req[r].todo : c <= d
             /\ req' = [req EXCEPT ![r].at = "token", ![r].conn = c,
                                   ![r].user = conns[c].user,
                                   ![r].todo = @ \ {c}]
    /\ UNCHANGED tables

\* The run completes or pauses with the candidate it has.
SyncDone(r) ==
    /\ At(r, {"sync"}, "probe")
    /\ req[r].pat \in valid
    /\ AccountOf[req[r].pat] \in members
    /\ End(r)
    /\ UNCHANGED tables

-----------------------------------------------------------------------------
(* Steps that several of them share                                        *)

\* getAccessToken.  Without an active credential a synchronisation marks the
\* connection; the others end with an error.
ReadToken(r) ==
    /\ At(r, {"retest", "visit", "sync"}, "token")
    /\ \/ \E k \in ActiveCredentials(req[r].conn) :
             req' = [req EXCEPT ![r].pat = creds[k].pat, ![r].at = "probe"]
       \/ /\ ActiveCredentials(req[r].conn) = {}
          /\ IF req[r].kind = "sync" THEN Goto(r, "mark") ELSE End(r)
    /\ UNCHANGED tables

\* A retest asks for /user, which any valid PAT may read.  A synchronisation
\* goes on making requests with its PAT until one is refused or it is done.
AcceptedAs(r) ==
    IF req[r].kind = "retest" THEN "confirm"
    ELSE IF AccountOf[req[r].pat] \notin members THEN "deny"
    ELSE IF req[r].kind = "sync" THEN "probe" ELSE "allow"

Probe(r) ==
    /\ At(r, {"retest", "visit", "sync"}, "probe")
    /\ Goto(r, IF req[r].pat \in valid THEN AcceptedAs(r) ELSE "invalidate")
    /\ UNCHANGED tables

\* 401: the credential of the connection is invalid ...
Invalidate(r) ==
    /\ At(r, {"retest", "visit", "sync"}, "invalidate")
    /\ InvalidateCredential(req[r].conn, "invalid")
    /\ Goto(r, "mark")

MarksRetested(r) == req[r].kind = "retest"

\* A synchronisation marks active connections only, the others the row they
\* have read, whatever became of it.
Marks(r) == req[r].kind # "sync" \/ ConnectionIs(req[r].conn, {"active"})

\* ... and so is the connection, unless an index refuses that.
Mark(r) ==
    /\ At(r, {"retest", "visit", "sync"}, "mark")
    /\ LET row == [conns[req[r].conn] EXCEPT !.status = "invalid"] IN
       IF ~Marks(r) THEN UNCHANGED tables /\ Goto(r, "clear")
       ELSE IF FitsIndexes(req[r].conn, row)
       THEN WriteConnection(req[r].conn, row) /\ Goto(r, "clear")
       ELSE UNCHANGED tables /\ End(r)

BreaksOff(r) ==
    IF req[r].kind = "sync"
    THEN req' = [req EXCEPT ![r].at = "next", ![r].todo = {}]
    ELSE End(r)

\* A synchronisation turns to its next candidate, the others are done.
Proceed(r) == IF req[r].kind = "sync" THEN Goto(r, "next") ELSE End(r)

\* 403 or 404: only this project is denied.
Deny(r) ==
    /\ At(r, {"visit", "sync"}, "deny")
    /\ CacheDecision(req[r].user, AccountOf[req[r].pat])
    /\ Proceed(r)

\* Every change of a connection ends with this.
Clear(r) ==
    /\ At(r, {"save", "delete", "retest", "visit", "sync"}, "clear")
    /\ ForgetDecisions(req[r].user)
    /\ Proceed(r)

\* A failing request to GitLab or the database, or the end of the process.
HalfDone(r) == req[r].at \in {"look", "store", "replace", "erase", "mark", "clear"}

Abandon(r) ==
    /\ Busy(r)
    /\ End(r)
    /\ UNCHANGED tables

-----------------------------------------------------------------------------
(* GitLab and time                                                         *)

Revoke(pat) ==
    /\ pat \in valid
    /\ valid' = valid \ {pat}
    /\ UNCHANGED <<tables, members, req>>

ChangeMembership(a) ==
    /\ members' = IF a \in members THEN members \ {a} ELSE members \cup {a}
    /\ UNCHANGED <<tables, valid, req>>

Expire(u) ==
    /\ EntryExpires(u)
    /\ UNCHANGED <<gitlab, req>>

-----------------------------------------------------------------------------

BeginRequest(r) ==
    \/ \E u \in Users, pat \in Pats : BeginSave(r, u, pat)
    \/ \E c \in ConnIds : BeginDelete(r, c) \/ BeginRetest(r, c) \/ BeginVisit(r, c)

Continue(r) ==
    \/ SaveFind(r) \/ SaveUpdate(r) \/ SaveCreate(r)
    \/ SaveLook(r) \/ SaveStore(r) \/ SaveReplace(r)
    \/ DeleteRevoke(r) \/ DeleteErase(r)
    \/ RetestConfirm(r)
    \/ VisitLookup(r) \/ VisitAllow(r)
    \/ SyncNext(r) \/ SyncDone(r)
    \/ ReadToken(r) \/ Probe(r) \/ Invalidate(r) \/ Mark(r) \/ Deny(r) \/ Clear(r)

Overlapping == \E q, r \in Actors : q # r /\ Busy(q) /\ Busy(r)

\* A credential with which the project can be read.
IsGood(k) ==
    /\ creds[k].status = "active"
    /\ creds[k].pat \in valid
    /\ AccountOf[creds[k].pat] \in members
    /\ ConnectionIs(creds[k].conn, {"active"})

GoodCredentials == {k \in CredIds : IsGood(k)}

\* Good since the synchronisation began.
StillSteady ==
    steady' = [r \in Actors |->
                 IF req'[r].kind # "sync" THEN {}
                 ELSE IF Busy(r) THEN steady[r] \cap GoodCredentials'
                 ELSE GoodCredentials']

Step ==
    \/ /\ \/ /\ \/ \E r \in Requests : BeginRequest(r)
                \/ \E r \in Syncs : BeginSync(r)
                \/ \E r \in Actors : Continue(r)
             /\ UNCHANGED gitlab
          \/ \E pat \in Pats : Revoke(pat)
          \/ \E a \in Accounts : ChangeMembership(a)
          \/ \E u \in Users : Expire(u)
       /\ disturbed' = (disturbed \/ Overlapping')
    \/ \E r \in Actors :
          /\ Abandon(r)
          /\ UNCHANGED gitlab
          /\ disturbed' = (disturbed \/ HalfDone(r))

Next == Step /\ StillSteady

Spec == Init /\ [][Next]_vars

-----------------------------------------------------------------------------
(* Properties                                                              *)

TypeOK ==
    /\ TablesTypeOK
    /\ valid \subseteq Pats
    /\ members \subseteq Accounts
    /\ req \in [Actors -> Request]
    /\ disturbed \in BOOLEAN
    /\ steady \in [Actors -> SUBSET CredIds]

AtRest == ~disturbed /\ \A r \in Actors : ~Busy(r)

\* As long as requests come one at a time and none stops half way, the three
\* tables agree between requests: a connection is active exactly if it has an
\* active credential, that credential opens the account the connection is
\* bound to, and a cached decision is about the account the user is connected
\* with, so that nothing learned with one PAT outlives it.  Save, delete, retest
\* and the handlers of a 401 each write two or three tables in several
\* statements.
TablesAgree ==
    AtRest =>
      /\ \A c \in ConnIds : ConnectionIs(c, {"active"}) <=> ActiveCredentials(c) # {}
      /\ \A c \in ConnIds : \A k \in ActiveCredentials(c) :
            AccountOf[creds[k].pat] = conns[c].account
      /\ \A u \in Users : cache[u] # None =>
            \E c \in ConnIds : /\ conns[c].user = u
                               /\ ConnectionIs(c, {"active"})
                               /\ conns[c].account = cache[u]

\* A credential that is no longer active is never touched again, whatever
\* requests race: no verdict overwrites why it ended, and nothing revives it.
EndedCredentialsAreFinal ==
    [][\A k \in CredIds : creds[k].status \notin {"none", "active"}
                            => creds'[k] = creds[k]]_vars

\* A synchronisation is blocked only if every credential failed: one that was
\* good from its start to its end has been tried and kept it going, whatever
\* the others answered and whoever saved, retested or deleted meanwhile.
GoodCandidateFound == \A r \in Syncs : Blocked(r) => steady[r] = {}

\* A credential becomes invalid only if GitLab rejects its PAT.  The code names
\* the connection, not the credential the rejected PAT came from.
OnlyRejectedInvalidated ==
    [][\A k \in CredIds : creds[k].status = "active" /\ creds'[k].status = "invalid"
                            => creds[k].pat \notin valid]_vars
=============================================================================

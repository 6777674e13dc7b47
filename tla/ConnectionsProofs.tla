------------------------- MODULE ConnectionsProofs -------------------------
(***************************************************************************)
(* Proofs about Connections: a credential that ended stays as it is, a     *)
(* synchronisation is blocked only if every credential failed it, and the  *)
(* tables agree between requests that come one by one, for any number of   *)
(* users, accounts, PATs, connections, requests and synchronisations.      *)
(*                                                                         *)
(* The argument.  A request holds what the statements it has still to make *)
(* need (Holds), and no statement gives a row back or changes whom a       *)
(* credential is for (Kept).  A credential that was good all along is      *)
(* either of a candidate still to try or the one that is being tried       *)
(* (SteadyInv): the indexes leave a connection one active credential.      *)
(* While a request is between two of its statements the tables disagree in *)
(* the connection and the user it is about, and nowhere else (Between).    *)
(***************************************************************************)
EXTENDS Connections, TLAPS

\* The rows that exist have an owner, and the indexes hold.
RowsOK ==
    /\ \A c \in ConnIds : conns[c].status # "none" =>
          conns[c].user \in Users /\ conns[c].account \in Accounts
    /\ \A k \in CredIds : creds[k].status # "none" =>
          creds[k].conn \in ConnIds /\ creds[k].pat \in Pats
OneActive ==
    \A k, l \in CredIds : /\ creds[k].status = "active" /\ creds[l].status = "active"
                          /\ creds[k].conn = creds[l].conn
                          => k = l
OneLive ==
    \A c, d \in ConnIds : IsLive(c) /\ IsLive(d) /\ conns[c].account = conns[d].account => c = d

TablesInv == TablesTypeOK /\ RowsOK /\ OneActive /\ OneLive

WithPat == {"find", "update", "create", "look", "store", "replace", "probe", "confirm",
            "invalidate", "allow", "deny"}
WithoutConnection == {"find", "create", "clear", "next"}

LabelsOf(kind) ==
    IF kind = "save" THEN {"find", "update", "create", "look", "store", "replace", "clear"}
    ELSE IF kind = "delete" THEN {"revoke", "erase", "clear"}
    ELSE IF kind = "retest" THEN {"token", "probe", "confirm", "invalidate", "mark", "clear"}
    ELSE IF kind = "visit"
    THEN {"lookup", "token", "probe", "allow", "deny", "invalidate", "mark", "clear"}
    ELSE {"next", "token", "probe", "deny", "invalidate", "mark", "clear"}

\* A request in progress holds a PAT, a connection and its user as long as it needs them.
HasWhatItNeeds(row) ==
    /\ row.at \in LabelsOf(row.kind)
    /\ row.at \in WithPat => row.pat \in Pats
    /\ row.at # "next" => row.user \in Users
    /\ row.at \notin WithoutConnection =>
          /\ row.conn \in ConnIds
          /\ conns[row.conn].status # "none"
          /\ conns[row.conn].user = row.user
    /\ \A c \in row.todo : conns[c].status # "none"
Holds(r) == Busy(r) => HasWhatItNeeds(req[r])

IndInv ==
    /\ TypeOK
    /\ TablesInv
    /\ \A r \in Actors : Holds(r)

\* What no statement does: remove a row, change whose it is, or touch an ended credential.
Kept ==
    /\ \A c \in ConnIds : conns[c].status # "none" =>
          conns'[c].status # "none" /\ conns'[c].user = conns[c].user
    /\ \A k \in CredIds : creds[k].status # "none" =>
          /\ creds'[k].conn = creds[k].conn /\ creds'[k].pat = creds[k].pat
          /\ creds[k].status # "active" => creds'[k] = creds[k]

-----------------------------------------------------------------------------
(* The statements.                                                         *)

\* No statement, none of this.
LEMMA TablesStay ==
    ASSUME TablesInv, UNCHANGED tables PROVE TablesInv' /\ Kept
<1> QED
    BY DEF tables, TablesInv, TablesTypeOK, RowsOK, OneActive, OneLive, IsLive, ConnectionIs, Kept

\* A connection is written for its user, as far as the indexes allow.
LEMMA ConnectionWritten ==
    ASSUME TablesInv, NEW c \in ConnIds, NEW row \in Connection,
           row.user \in Users, row.account \in Accounts, row.status # "none",
           conns[c].status = "none" \/ conns[c].user = row.user,
           WriteConnection(c, row)
    PROVE  TablesInv' /\ Kept
<1>1. /\ conns \in [ConnIds -> Connection] /\ conns' = [conns EXCEPT ![c] = row]
      /\ creds' = creds /\ cache' = cache
    BY DEF TablesInv, TablesTypeOK, WriteConnection
<1>2. TablesTypeOK' /\ RowsOK' /\ OneActive'
    BY <1>1 DEF TablesInv, TablesTypeOK, RowsOK, OneActive
<1>3. OneLive'
    BY <1>1 DEF TablesInv, OneLive, IsLive, ConnectionIs, WriteConnection, FitsIndexes
<1>4. Kept
    BY <1>1 DEF Kept
<1> QED BY <1>2, <1>3, <1>4 DEF TablesInv

\* A credential is inserted where no other is active any more.
LEMMA CredentialInserted ==
    ASSUME TablesInv, NEW c \in ConnIds, NEW pat \in Pats,
           StoreCredential(c, pat) \/ ReplaceCredential(c, pat)
    PROVE  /\ TablesInv' /\ Kept
           /\ conns' = conns /\ cache' = cache
           /\ ActiveCredentials(c)' # {}
           /\ \A k \in ActiveCredentials(c)' : creds'[k].pat = pat
           /\ \A d \in ConnIds \ {c} :
                 /\ ActiveCredentials(d)' = ActiveCredentials(d)
                 /\ \A k \in ActiveCredentials(d) : creds'[k].pat = creds[k].pat
<1> DEFINE new == [conn |-> c, pat |-> pat, status |-> "active"]
<1>0. creds \in [CredIds -> Credential] /\ conns \in [ConnIds -> Connection]
      /\ cache \in [Users -> Accounts \cup {None}]
    BY DEF TablesInv, TablesTypeOK
<1>1. PICK k \in CredIds : /\ creds[k].status = "none" /\ creds'[k] = new
                           /\ conns' = conns /\ cache' = cache
                           /\ creds' = [[l \in CredIds |->
                                 IF l \in ActiveCredentials(c)
                                 THEN [creds[l] EXCEPT !.status = "superseded"]
                                 ELSE creds[l]] EXCEPT ![k] = new]
  <2>1. CASE StoreCredential(c, pat)
    <3>1. PICK k \in CredIds : IsNextCredential(k) /\ creds' = [creds EXCEPT ![k] = new]
        BY <2>1 DEF StoreCredential, InsertCredential
    <3>2. creds = [l \in CredIds |-> IF l \in ActiveCredentials(c)
                                     THEN [creds[l] EXCEPT !.status = "superseded"]
                                     ELSE creds[l]]
        BY <1>0, <2>1 DEF StoreCredential
    <3> QED BY <1>0, <2>1, <3>1, <3>2 DEF StoreCredential, InsertCredential, IsNextCredential
  <2>2. CASE ReplaceCredential(c, pat)
    <3>1. PICK k \in CredIds : IsNextCredential(k)
                               /\ creds' = [Superseded(c) EXCEPT ![k] = new]
        BY <2>2 DEF ReplaceCredential, InsertCredential
    <3> QED BY <1>0, <2>2, <3>1
            DEF ReplaceCredential, InsertCredential, IsNextCredential, Superseded
  <2> QED BY <2>1, <2>2
<1>2. \A l \in CredIds \ {k} :
        /\ l \in ActiveCredentials(c) =>
              creds'[l] = [creds[l] EXCEPT !.status = "superseded"]
        /\ l \notin ActiveCredentials(c) => creds'[l] = creds[l]
    BY <1>1
<1>3. creds' \in [CredIds -> Credential]
  <2>1. new \in Credential
      BY DEF Credential
  <2>2. \A l \in CredIds : [creds[l] EXCEPT !.status = "superseded"] \in Credential
      BY <1>0 DEF Credential
  <2> HIDE DEF new
  <2>3. [l \in CredIds |-> IF l \in ActiveCredentials(c)
                           THEN [creds[l] EXCEPT !.status = "superseded"]
                           ELSE creds[l]] \in [CredIds -> Credential]
      BY <1>0, <2>2
  <2> QED BY <1>1, <2>1, <2>3
<1>4. \A l \in CredIds \ {k} :
        /\ creds'[l].conn = creds[l].conn /\ creds'[l].pat = creds[l].pat
        /\ creds'[l].status = IF l \in ActiveCredentials(c) THEN "superseded" ELSE creds[l].status
    BY <1>0, <1>2 DEF Credential, ActiveCredentials
<1>5. \A l \in CredIds \ {k} : creds'[l].status = "active" => creds'[l].conn # c
    BY <1>4 DEF ActiveCredentials
<1> HIDE DEF new
<1>6. creds'[k].conn = c /\ creds'[k].pat = pat /\ creds'[k].status = "active"
    BY <1>1 DEF new
<1>7. TablesTypeOK' /\ RowsOK'
  <2>1. TablesTypeOK' BY <1>0, <1>1, <1>3 DEF TablesTypeOK
  <2>2. \A l \in CredIds : creds'[l].status # "none" =>
            creds'[l].conn \in ConnIds /\ creds'[l].pat \in Pats
      BY <1>4, <1>6 DEF TablesInv, RowsOK, ActiveCredentials
  <2>3. \A d \in ConnIds : conns'[d].status # "none" =>
            conns'[d].user \in Users /\ conns'[d].account \in Accounts
      BY <1>1 DEF TablesInv, RowsOK
  <2> QED BY <2>1, <2>2, <2>3 DEF RowsOK
<1>8. OneActive'
    BY <1>4, <1>5, <1>6 DEF TablesInv, OneActive
<1>9. OneLive'
    BY <1>1 DEF TablesInv, OneLive, IsLive, ConnectionIs
<1>10. Kept
    BY <1>1, <1>2, <1>4 DEF Kept, ActiveCredentials
<1>11. /\ ActiveCredentials(c)' # {}
       /\ \A l \in ActiveCredentials(c)' : creds'[l].pat = pat
    BY <1>5, <1>6 DEF ActiveCredentials
<1>12. ASSUME NEW d \in ConnIds \ {c}
       PROVE  /\ ActiveCredentials(d)' = ActiveCredentials(d)
              /\ \A l \in ActiveCredentials(d) : creds'[l].pat = creds[l].pat
    BY <1>1, <1>4, <1>6 DEF ActiveCredentials
<1> QED BY <1>1, <1>7, <1>8, <1>9, <1>10, <1>11, <1>12 DEF TablesInv

\* The active credentials of one connection end, those of the others do not.
LEMMA CredentialInvalidated ==
    ASSUME TablesInv, NEW c \in ConnIds, NEW status \in {"invalid", "revoked"},
           InvalidateCredential(c, status)
    PROVE  /\ TablesInv' /\ Kept
           /\ conns' = conns /\ cache' = cache
           /\ ActiveCredentials(c)' = {}
           /\ \A d \in ConnIds \ {c} :
                 /\ ActiveCredentials(d)' = ActiveCredentials(d)
                 /\ \A k \in ActiveCredentials(d) : creds'[k].pat = creds[k].pat
<1>1. /\ creds \in [CredIds -> Credential] /\ conns' = conns /\ cache' = cache
      /\ creds' = [k \in CredIds |-> IF k \in ActiveCredentials(c)
                                     THEN [creds[k] EXCEPT !.status = status]
                                     ELSE creds[k]]
    BY DEF TablesInv, TablesTypeOK, InvalidateCredential
<1>2. creds' \in [CredIds -> Credential]
    BY <1>1 DEF Credential
<1>3. \A k \in CredIds :
        /\ creds'[k].conn = creds[k].conn /\ creds'[k].pat = creds[k].pat
        /\ creds'[k].status = IF k \in ActiveCredentials(c) THEN status ELSE creds[k].status
        /\ k \notin ActiveCredentials(c) => creds'[k] = creds[k]
    BY <1>1 DEF Credential
<1>4. TablesTypeOK'
    BY <1>1, <1>2 DEF TablesInv, TablesTypeOK
<1>5. RowsOK'
    BY <1>1, <1>3 DEF TablesInv, RowsOK, ActiveCredentials
<1>6. OneActive' /\ OneLive'
    BY <1>1, <1>3 DEF TablesInv, OneActive, OneLive, IsLive, ConnectionIs
<1>7. Kept
    BY <1>1, <1>3 DEF Kept, ActiveCredentials
<1>8. ActiveCredentials(c)' = {}
    BY <1>3 DEF ActiveCredentials
<1>9. ASSUME NEW d \in ConnIds \ {c}
      PROVE  /\ ActiveCredentials(d)' = ActiveCredentials(d)
             /\ \A k \in ActiveCredentials(d) : creds'[k].pat = creds[k].pat
    BY <1>3 DEF ActiveCredentials
<1> QED BY <1>1, <1>4, <1>5, <1>6, <1>7, <1>8, <1>9 DEF TablesInv

\* An entry of the cache is an account or nothing.
LEMMA CacheWritten ==
    ASSUME TablesInv, NEW u \in Users, NEW account \in Accounts \cup {None},
           cache' = [cache EXCEPT ![u] = account], UNCHANGED <<conns, creds>>
    PROVE  TablesInv' /\ Kept
<1>1. cache' \in [Users -> Accounts \cup {None}]
    BY DEF TablesInv, TablesTypeOK
<1> QED
    BY <1>1 DEF TablesInv, TablesTypeOK, RowsOK, OneActive, OneLive, IsLive, ConnectionIs, Kept


-----------------------------------------------------------------------------
(* The requests.                                                           *)

\* What one request does to the tables and to itself.
Acts(r) == BeginRequest(r) \/ BeginSync(r) \/ Continue(r)

\* A step of r keeps the tables in order and leaves r with what it needs.
StepOK(r) ==
    /\ TablesInv' /\ Kept
    /\ req' = [req EXCEPT ![r] = req'[r]] /\ req'[r] \in Request
    /\ Holds(r)'

\* What is needed stays there.
LEMMA NeedsKept ==
    ASSUME TypeOK, Kept, NEW row \in Request, HasWhatItNeeds(row)
    PROVE  HasWhatItNeeds(row)'
<1>1. row.todo \subseteq ConnIds /\ row.conn \in ConnIds \cup {None}
    BY DEF Request
<1> QED
    BY <1>1 DEF Kept, HasWhatItNeeds

\* A request ends.
LEMMA Ends ==
    ASSUME TypeOK, NEW r \in Actors, End(r)
    PROVE  req' = [req EXCEPT ![r] = req'[r]] /\ req'[r] \in Request /\ Holds(r)'
<1>1. Idle \in Request
    BY DEF Idle, Request, Kinds
<1> QED
    BY <1>1 DEF TypeOK, End, Holds, Busy, Idle

\* A request goes on with what it needs.
LEMMA GoesOn ==
    ASSUME TypeOK, Kept, NEW r \in Actors, NEW row \in Request,
           req' = [req EXCEPT ![r] = row], HasWhatItNeeds(row)
    PROVE  req' = [req EXCEPT ![r] = req'[r]] /\ req'[r] \in Request /\ Holds(r)'
<1>1. req'[r] = row
    BY DEF TypeOK
<1>2. HasWhatItNeeds(row)'
    BY NeedsKept
<1> QED
    BY <1>1, <1>2 DEF Holds, HasWhatItNeeds

\* The same where it only goes to another label.
LEMMA GoesTo ==
    ASSUME TypeOK, Kept, NEW r \in Actors, NEW label \in Labels, Goto(r, label),
           Busy(r), Holds(r),
           label \in LabelsOf(req[r].kind),
           label \in WithPat => req[r].at \in WithPat,
           label # "next" => req[r].at # "next",
           label \notin WithoutConnection => req[r].at \notin WithoutConnection
    PROVE  req' = [req EXCEPT ![r] = req'[r]] /\ req'[r] \in Request /\ Holds(r)'
<1> DEFINE row == [req[r] EXCEPT !.at = label,
                                 !.pat = IF label \in NeedsNoPat THEN None ELSE @,
                                 !.conn = IF label \in NeedsNoConnection THEN None ELSE @,
                                 !.user = IF label \in NeedsNoUser THEN None ELSE @]
<1>1. req \in [Actors -> Request] /\ req[r] \in Request
    BY DEF TypeOK
<1>2. row \in Request
    BY <1>1 DEF Request
<1>3. req' = [req EXCEPT ![r] = row]
    BY <1>1 DEF Goto
<1>4. /\ row.kind = req[r].kind /\ row.at = label /\ row.todo = req[r].todo
      /\ label \notin {"clear", "next"} => row.conn = req[r].conn
      /\ label # "next" => row.user = req[r].user
      /\ label \in WithPat => row.pat = req[r].pat
    BY <1>1 DEF Request, NeedsNoPat, NeedsNoConnection, NeedsNoUser, WithPat
<1> HIDE DEF row
<1>5. HasWhatItNeeds(row)
    BY <1>4 DEF Holds, HasWhatItNeeds, WithoutConnection
<1> QED BY <1>2, <1>3, <1>5, GoesOn

LEMMA ReadSteps ==
    ASSUME IndInv, NEW r \in Actors, UNCHANGED tables,
           \/ \E u \in Users, pat \in Pats : BeginSave(r, u, pat)
           \/ \E c \in ConnIds : BeginDelete(r, c) \/ BeginRetest(r, c) \/ BeginVisit(r, c)
           \/ BeginSync(r) \/ SaveFind(r) \/ SaveLook(r) \/ VisitLookup(r)
           \/ SyncNext(r) \/ SyncDone(r) \/ ReadToken(r) \/ Probe(r) \/ Abandon(r)
    PROVE  StepOK(r)
<1>1. TablesInv' /\ Kept
    BY TablesStay DEF IndInv
<1>2. /\ req \in [Actors -> Request] /\ conns' = conns /\ creds' = creds /\ cache' = cache
      /\ req[r] \in Request /\ Holds(r)
    BY DEF IndInv, TypeOK, tables
<1>3. conns \in [ConnIds -> Connection] /\ creds \in [CredIds -> Credential] /\ RowsOK
    BY DEF IndInv, TablesInv, TablesTypeOK
<1>4. Idle \in Request
    BY DEF Idle, Request, Kinds
<1>5. SUFFICES /\ req' = [req EXCEPT ![r] = req'[r]] /\ req'[r] \in Request /\ Holds(r)'
    BY <1>1 DEF StepOK
<1>6. ASSUME NEW u \in Users, NEW pat \in Pats, BeginSave(r, u, pat)
      PROVE  req' = [req EXCEPT ![r] = req'[r]] /\ req'[r] \in Request /\ Holds(r)'
    BY <1>2, <1>6 DEF BeginSave, Begin, Busy, Request, Kinds, Labels, Holds, HasWhatItNeeds, LabelsOf, WithPat, WithoutConnection
<1>7. ASSUME NEW c \in ConnIds, BeginDelete(r, c) \/ BeginRetest(r, c) \/ BeginVisit(r, c)
      PROVE  req' = [req EXCEPT ![r] = req'[r]] /\ req'[r] \in Request /\ Holds(r)'
    BY <1>2, <1>3, <1>7 DEF BeginDelete, BeginRetest, BeginVisit, Begin, Busy, Request, Kinds,
        Labels, Holds, HasWhatItNeeds, LabelsOf, WithPat, WithoutConnection, RowsOK, ConnectionIs, IsLive
<1>8. CASE BeginSync(r)
    BY <1>2, <1>3, <1>8 DEF BeginSync, Begin, Busy, Request, Kinds, Candidates, ConnectionIs,
        Labels, Holds, HasWhatItNeeds, LabelsOf, WithPat, WithoutConnection
<1>9. CASE SaveFind(r)
  <2>1. At(r, {"save"}, "find") /\ Busy(r) /\ req[r].kind = "save"
      BY <1>9 DEF SaveFind, At, Busy
  <2>2. CASE \E c \in LiveConnections(req[r].user) :
                req' = [req EXCEPT ![r].conn = c, ![r].at = "update"]
    <3>1. PICK c \in LiveConnections(req[r].user) :
                req' = [req EXCEPT ![r].conn = c, ![r].at = "update"]
        BY <2>2
    <3> DEFINE row == [req[r] EXCEPT !.conn = c, !.at = "update"]
    <3>2. req' = [req EXCEPT ![r] = row] /\ row \in Request
        BY <1>2, <3>1 DEF Request, Labels, LiveConnections
    <3>3. /\ row.kind = "save" /\ row.at = "update" /\ row.conn = c
          /\ row.pat = req[r].pat /\ row.user = req[r].user /\ row.todo = req[r].todo
        BY <1>2, <2>1 DEF Request
    <3> HIDE DEF row
    <3>4. HasWhatItNeeds(row)
        BY <1>2, <2>1, <3>3 DEF Holds, HasWhatItNeeds, At, LabelsOf, WithPat,
            LiveConnections, IsLive, ConnectionIs
    <3> QED BY <1>1, <1>2, <3>2, <3>4, GoesOn DEF IndInv
  <2>3. CASE Goto(r, "create")
      BY <1>1, <1>2, <2>1, <2>3, GoesTo
      DEF IndInv, At, Labels, LabelsOf, WithPat, WithoutConnection
  <2> QED BY <1>9, <2>2, <2>3 DEF SaveFind
<1>10. CASE SaveLook(r)
  <2>1. PICK label \in {"store", "replace"} : Goto(r, label)
      BY <1>10 DEF SaveLook
  <2>2. req[r].kind = "save" /\ req[r].at = "look" /\ Busy(r) /\ TypeOK
      BY <1>10 DEF SaveLook, At, Busy, IndInv
  <2>3. /\ label \in Labels /\ label \in LabelsOf(req[r].kind) /\ req[r].at \in WithPat
        /\ req[r].at # "next" /\ req[r].at \notin WithoutConnection
      BY <2>2 DEF Labels, LabelsOf, WithPat, WithoutConnection
  <2> QED BY <1>1, <1>2, <2>1, <2>2, <2>3, GoesTo
<1>11. CASE VisitLookup(r)
    BY <1>2, <1>4, <1>11 DEF VisitLookup, At, Goto, End, Idle, NeedsNoPat, NeedsNoConnection, NeedsNoUser, Busy,
        Request, Kinds, Labels, Holds, HasWhatItNeeds, LabelsOf, WithPat, WithoutConnection
<1>12. CASE SyncNext(r)
  <2>1. At(r, {"sync"}, "next") /\ Busy(r) /\ req[r].kind = "sync"
      BY <1>12 DEF SyncNext, At, Busy
  <2>2. CASE End(r)
      BY <2>2, Ends DEF IndInv
  <2>3. CASE \E c \in req[r].todo :
                req' = [req EXCEPT ![r].at = "token", ![r].conn = c,
                                   ![r].user = conns[c].user, ![r].todo = @ \ {c}]
    <3>1. PICK c \in req[r].todo :
                req' = [req EXCEPT ![r].at = "token", ![r].conn = c,
                                   ![r].user = conns[c].user, ![r].todo = @ \ {c}]
        BY <2>3
    <3> DEFINE row == [req[r] EXCEPT !.at = "token", !.conn = c,
                                     !.user = conns[c].user, !.todo = @ \ {c}]
    <3>2. /\ c \in ConnIds /\ conns[c].status # "none" /\ conns[c].user \in Users
          /\ req[r].todo \subseteq ConnIds /\ HasWhatItNeeds(req[r])
        BY <1>2, <1>3, <2>1 DEF Holds, HasWhatItNeeds, RowsOK, Request
    <3>3. req' = [req EXCEPT ![r] = row]
        BY <1>2, <3>1
    <3>4. row \in Request
        BY <1>2, <3>2 DEF Request, Labels
    <3>5. /\ row.kind = "sync" /\ row.at = "token" /\ row.conn = c
          /\ row.user = conns[c].user /\ row.todo = req[r].todo \ {c}
        BY <1>2, <2>1 DEF Request
    <3> HIDE DEF row
    <3>6. HasWhatItNeeds(row)
        BY <3>2, <3>5 DEF HasWhatItNeeds, LabelsOf, WithPat
    <3> QED BY <1>1, <1>2, <3>3, <3>4, <3>6, GoesOn DEF IndInv
  <2> QED BY <1>12, <2>2, <2>3 DEF SyncNext
<1>13. CASE SyncDone(r)
    BY <1>13, Ends DEF SyncDone, IndInv
<1>14. CASE ReadToken(r)
  <2>1. /\ At(r, {"retest", "visit", "sync"}, "token") /\ Busy(r)
        /\ req[r].kind \in {"retest", "visit", "sync"} /\ req[r].at = "token"
      BY <1>14 DEF ReadToken, At, Busy
  <2>2. CASE \E k \in ActiveCredentials(req[r].conn) :
                req' = [req EXCEPT ![r].pat = creds[k].pat, ![r].at = "probe"]
    <3>1. PICK k \in ActiveCredentials(req[r].conn) :
                req' = [req EXCEPT ![r].pat = creds[k].pat, ![r].at = "probe"]
        BY <2>2
    <3> DEFINE row == [req[r] EXCEPT !.pat = creds[k].pat, !.at = "probe"]
    <3>2. creds[k].pat \in Pats
        BY <1>3 DEF ActiveCredentials, RowsOK
    <3>3. req' = [req EXCEPT ![r] = row]
        BY <1>2, <3>1
    <3>4. row \in Request
        BY <1>2, <3>2 DEF Request, Labels
    <3>5. /\ row.kind = req[r].kind /\ row.at = "probe" /\ row.conn = req[r].conn
          /\ row.pat = creds[k].pat /\ row.user = req[r].user /\ row.todo = req[r].todo
        BY <1>2 DEF Request
    <3> HIDE DEF row
    <3>6. HasWhatItNeeds(row)
        BY <1>2, <2>1, <3>2, <3>5 DEF Holds, HasWhatItNeeds, LabelsOf, WithoutConnection
    <3> QED BY <1>1, <1>2, <3>3, <3>4, <3>6, GoesOn DEF IndInv
  <2>3. CASE Goto(r, "mark") /\ req[r].kind = "sync"
      BY <1>1, <1>2, <2>1, <2>3, GoesTo
      DEF IndInv, Labels, LabelsOf, WithPat, WithoutConnection
  <2>4. CASE End(r)
      BY <2>4, Ends DEF IndInv
  <2> QED BY <1>14, <2>2, <2>3, <2>4 DEF ReadToken
<1>15. CASE Probe(r)
  <2>1. /\ Busy(r) /\ req[r].kind \in {"retest", "visit", "sync"} /\ req[r].at = "probe"
      BY <1>15 DEF Probe, At, Busy
  <2>2. PICK label \in {"confirm", "deny", "probe", "allow", "invalidate"} :
            Goto(r, label) /\ label \in LabelsOf(req[r].kind)
      BY <1>15, <2>1 DEF Probe, AcceptedAs, LabelsOf
  <2> QED BY <1>1, <1>2, <2>1, <2>2, GoesTo DEF IndInv, Labels, WithPat, WithoutConnection
<1>16. CASE Abandon(r)
    BY <1>2, <1>4, <1>16 DEF Abandon, End, Idle, Busy, Holds
<1> QED
    BY <1>6, <1>7, <1>8, <1>9, <1>10, <1>11, <1>12, <1>13, <1>14, <1>15, <1>16


\* The statements a request makes, and what becomes of it.
LEMMA WriteSteps ==
    ASSUME IndInv, NEW r \in Actors,
           \/ SaveUpdate(r) \/ SaveCreate(r) \/ SaveStore(r) \/ SaveReplace(r)
           \/ DeleteRevoke(r) \/ DeleteErase(r) \/ RetestConfirm(r) \/ VisitAllow(r)
           \/ Invalidate(r) \/ Mark(r) \/ Deny(r) \/ Clear(r)
    PROVE  StepOK(r)
<1>1. /\ TypeOK /\ TablesInv /\ Holds(r) /\ req[r] \in Request /\ req \in [Actors -> Request]
      /\ conns \in [ConnIds -> Connection] /\ RowsOK
      /\ AccountOf \in [Pats -> Accounts]
    BY CredentialsAssumption DEF IndInv, TypeOK, TablesInv, TablesTypeOK
<1>2. UNCHANGED tables => TablesInv' /\ Kept
    BY <1>1, TablesStay
<1>3. End(r) => req' = [req EXCEPT ![r] = req'[r]] /\ req'[r] \in Request /\ Holds(r)'
    BY <1>1, Ends
<1>4. CASE SaveUpdate(r)
  <2>1. /\ req[r].kind = "save" /\ req[r].at = "update" /\ Busy(r)
        /\ req[r].conn \in ConnIds /\ req[r].pat \in Pats /\ req[r].user \in Users
        /\ conns[req[r].conn].user = req[r].user
      BY <1>1, <1>4 DEF SaveUpdate, At, Busy, Holds, HasWhatItNeeds, WithPat, WithoutConnection
  <2>2. /\ SavedRow(r) \in Connection /\ SavedRow(r).user = req[r].user
        /\ SavedRow(r).account \in Accounts /\ SavedRow(r).status # "none"
      BY <1>1, <2>1 DEF SavedRow, Connection
  <2>3. CASE WriteConnection(req[r].conn, SavedRow(r)) /\ Goto(r, "look")
    <3>1. TablesInv' /\ Kept
        BY <1>1, <2>1, <2>2, <2>3, ConnectionWritten
    <3> QED BY <1>1, <2>1, <2>3, <3>1, GoesTo
            DEF StepOK, Labels, LabelsOf, WithPat, WithoutConnection
  <2> QED BY <1>2, <1>3, <1>4, <2>3 DEF SaveUpdate, StepOK
<1>5. CASE SaveCreate(r)
  <2>1. /\ req[r].kind = "save" /\ req[r].at = "create" /\ Busy(r)
        /\ req[r].pat \in Pats /\ req[r].user \in Users /\ HasWhatItNeeds(req[r])
      BY <1>1, <1>5 DEF SaveCreate, At, Busy, Holds, HasWhatItNeeds, WithPat
  <2>2. /\ SavedRow(r) \in Connection /\ SavedRow(r).user = req[r].user
        /\ SavedRow(r).account \in Accounts /\ SavedRow(r).status # "none"
      BY <1>1, <2>1 DEF SavedRow, Connection
  <2>3. CASE UNCHANGED tables /\ End(r)
      BY <1>2, <1>3, <2>3 DEF StepOK
  <2>4. CASE \E c \in ConnIds :
                /\ IsNextConnection(c)
                /\ WriteConnection(c, SavedRow(r))
                /\ req' = [req EXCEPT ![r].conn = c, ![r].at = "look"]
    <3>1. PICK c \in ConnIds : /\ IsNextConnection(c)
                               /\ WriteConnection(c, SavedRow(r))
                               /\ req' = [req EXCEPT ![r].conn = c, ![r].at = "look"]
        BY <2>4
    <3>2. TablesInv' /\ Kept
      <4>1. conns[c].status = "none"
          BY <3>1 DEF IsNextConnection, ConnectionIs
      <4> QED BY <1>1, <2>1, <2>2, <3>1, <4>1, ConnectionWritten
    <3>3. PICK row : row = [req[r] EXCEPT !.conn = c, !.at = "look"]
        OBVIOUS
    <3>4. /\ req' = [req EXCEPT ![r] = row] /\ row \in Request
          /\ row.kind = "save" /\ row.at = "look" /\ row.conn = c
          /\ row.pat = req[r].pat /\ row.user = req[r].user /\ row.todo = req[r].todo
        BY <1>1, <2>1, <3>1, <3>3 DEF Request, Labels
    <3>5. conns'[c] = SavedRow(r)
        BY <1>1, <3>1 DEF WriteConnection
    <3>6. \A d \in row.todo : conns'[d].status # "none"
        BY <1>1, <2>1, <3>2, <3>4 DEF HasWhatItNeeds, Kept, Request
    <3>7. HasWhatItNeeds(row)'
        BY <2>1, <2>2, <3>4, <3>5, <3>6 DEF HasWhatItNeeds, LabelsOf
    <3>8. req'[r] = row
        BY <1>1, <3>4
    <3> QED BY <3>2, <3>4, <3>7, <3>8 DEF StepOK, Holds, HasWhatItNeeds
  <2> QED BY <1>5, <2>3, <2>4 DEF SaveCreate
<1>6. CASE SaveStore(r) \/ SaveReplace(r)
  <2>1. /\ req[r].kind = "save" /\ req[r].at \in {"store", "replace"} /\ Busy(r)
        /\ req[r].conn \in ConnIds /\ req[r].pat \in Pats
      BY <1>1, <1>6 DEF SaveStore, SaveReplace, At, Busy, Holds, HasWhatItNeeds, WithPat,
         WithoutConnection
  <2>2. CASE /\ StoreCredential(req[r].conn, req[r].pat) \/ ReplaceCredential(req[r].conn, req[r].pat)
             /\ Goto(r, "clear")
    <3>1. TablesInv' /\ Kept
        BY <1>1, <2>1, <2>2, CredentialInserted
    <3> QED BY <1>1, <2>1, <2>2, <3>1, GoesTo
            DEF StepOK, Labels, LabelsOf, WithPat, WithoutConnection
  <2> QED BY <1>2, <1>3, <1>6, <2>2 DEF SaveStore, SaveReplace, StepOK
<1>7. CASE DeleteRevoke(r) \/ Invalidate(r)
  <2>1. /\ \/ req[r].kind = "delete" /\ req[r].at = "revoke"
           \/ req[r].kind \in {"retest", "visit", "sync"} /\ req[r].at = "invalidate"
        /\ Busy(r) /\ req[r].conn \in ConnIds
      BY <1>1, <1>7 DEF DeleteRevoke, Invalidate, At, Busy, Holds, HasWhatItNeeds, WithoutConnection
  <2>2. TablesInv' /\ Kept
    <3>1. PICK status \in {"invalid", "revoked"} : InvalidateCredential(req[r].conn, status)
        BY <1>7 DEF DeleteRevoke, Invalidate
    <3> QED BY <1>1, <2>1, <3>1, CredentialInvalidated
  <2>3. CASE req[r].kind = "delete" /\ req[r].at = "revoke" /\ Goto(r, "erase")
      BY <1>1, <2>1, <2>2, <2>3, GoesTo
      DEF StepOK, Labels, LabelsOf, WithPat, WithoutConnection
  <2>4. CASE /\ req[r].kind \in {"retest", "visit", "sync"} /\ req[r].at = "invalidate"
             /\ Goto(r, "mark")
      BY <1>1, <2>1, <2>2, <2>4, GoesTo
      DEF StepOK, Labels, LabelsOf, WithPat, WithoutConnection
  <2> QED BY <1>7, <2>1, <2>3, <2>4 DEF DeleteRevoke, Invalidate, At
<1>8. CASE DeleteErase(r) \/ RetestConfirm(r) \/ Mark(r)
  <2>1. /\ req[r].at \in {"erase", "confirm", "mark"} /\ Busy(r)
        /\ req[r].kind \in {"delete", "retest", "visit", "sync"}
        /\ req[r].conn \in ConnIds /\ conns[req[r].conn].status # "none"
        /\ conns[req[r].conn].user = req[r].user
      BY <1>1, <1>8 DEF DeleteErase, RetestConfirm, Mark, At, Busy, Holds, HasWhatItNeeds,
         WithoutConnection
  <2> DEFINE row(status) == [conns[req[r].conn] EXCEPT !.status = status]
  <2>2. ASSUME NEW status \in {"active", "invalid", "deleted"},
               WriteConnection(req[r].conn, row(status))
        PROVE  TablesInv' /\ Kept
    <3>1. conns[req[r].conn] \in Connection /\ conns[req[r].conn].user \in Users
          /\ conns[req[r].conn].account \in Accounts
        BY <1>1, <2>1 DEF RowsOK
    <3>2. /\ row(status) \in Connection
          /\ row(status).user = conns[req[r].conn].user
          /\ row(status).account = conns[req[r].conn].account
          /\ row(status).status = status
        BY <3>1 DEF Connection
    <3> HIDE DEF row
    <3> QED BY <1>1, <2>1, <2>2, <3>1, <3>2, ConnectionWritten
  <2>3. TablesInv' /\ Kept
      BY <1>2, <1>8, <2>2 DEF DeleteErase, RetestConfirm, Mark
  <2>4. ASSUME Goto(r, "clear"), req[r].at \in {"erase", "mark"}
        PROVE  req' = [req EXCEPT ![r] = req'[r]] /\ req'[r] \in Request /\ Holds(r)'
    <3>1. "clear" \in LabelsOf(req[r].kind)
        BY <2>1 DEF LabelsOf
    <3> QED BY <1>1, <2>1, <2>3, <2>4, <3>1, GoesTo DEF Labels, WithPat, WithoutConnection
  <2> QED BY <1>3, <1>8, <2>3, <2>4 DEF DeleteErase, RetestConfirm, Mark, At, StepOK
<1>9. CASE VisitAllow(r) \/ Deny(r) \/ Clear(r)
  <2>1. /\ req[r].at \in {"allow", "deny", "clear"} /\ Busy(r)
        /\ req[r].kind \in Kinds \ {"none"}
        /\ req[r].user \in Users
        /\ req[r].at # "clear" => req[r].pat \in Pats
      BY <1>1, <1>9 DEF VisitAllow, Deny, Clear, At, Busy, Kinds, Holds, HasWhatItNeeds, WithPat
  <2>2. PICK account \in Accounts \cup {None} :
            cache' = [cache EXCEPT ![req[r].user] = account] /\ UNCHANGED <<conns, creds>>
      BY <1>1, <1>9, <2>1 DEF VisitAllow, Deny, Clear, CacheDecision, ForgetDecisions, At
  <2>3. TablesInv' /\ Kept
      BY <1>1, <2>1, <2>2, CacheWritten
  <2>4. ASSUME Goto(r, "next"), req[r].kind = "sync"
        PROVE  req' = [req EXCEPT ![r] = req'[r]] /\ req'[r] \in Request /\ Holds(r)'
      BY <1>1, <2>1, <2>3, <2>4, GoesTo DEF Labels, LabelsOf, WithPat, WithoutConnection
  <2> QED BY <1>3, <1>9, <2>3, <2>4 DEF VisitAllow, Deny, Clear, Proceed, StepOK
<1> QED BY <1>4, <1>5, <1>6, <1>7, <1>8, <1>9


\* GitLab and time change no request and no row but entries of the cache.
EnvironmentOK == TablesInv' /\ Kept /\ req' = req

LEMMA EnvironmentSteps ==
    ASSUME IndInv, \/ \E pat \in Pats : Revoke(pat)
                   \/ \E a \in Accounts : ChangeMembership(a)
                   \/ \E u \in Users : Expire(u)
    PROVE  EnvironmentOK /\ valid' \subseteq Pats /\ members' \subseteq Accounts
<1>1. TablesInv /\ valid \subseteq Pats /\ members \subseteq Accounts
    BY DEF IndInv, TypeOK
<1>2. CASE \E pat \in Pats : Revoke(pat)
    BY <1>1, <1>2, TablesStay DEF Revoke, EnvironmentOK, tables
<1>3. CASE \E a \in Accounts : ChangeMembership(a)
    BY <1>1, <1>3, TablesStay DEF ChangeMembership, EnvironmentOK, tables
<1>4. ASSUME NEW u \in Users, Expire(u)
      PROVE  EnvironmentOK /\ valid' \subseteq Pats /\ members' \subseteq Accounts
  <2>1. TablesInv' /\ Kept
      BY <1>1, <1>4, CacheWritten DEF Expire, EntryExpires, ForgetDecisions
  <2> QED BY <1>1, <1>4, <2>1 DEF Expire, EnvironmentOK, gitlab
<1> QED BY <1>2, <1>3, <1>4

LEMMA ActorSteps ==
    ASSUME IndInv, NEW r \in Actors, Acts(r) \/ Abandon(r)
    PROVE  StepOK(r)
<1>1. CASE BeginRequest(r) \/ BeginSync(r) \/ Abandon(r)
    BY <1>1, ReadSteps DEF BeginRequest, BeginSave, BeginDelete, BeginRetest, BeginVisit,
       BeginSync, Abandon
<1>2. CASE Continue(r)
    BY <1>2, ReadSteps, WriteSteps DEF Continue, SaveFind, SaveLook, VisitLookup, SyncNext,
       SyncDone, ReadToken, Probe
<1> QED BY <1>1, <1>2 DEF Acts

\* Every step is one of these, or none.
LEMMA Steps ==
    ASSUME IndInv, [Next]_vars
    PROVE  /\ \/ /\ \E r \in Actors : (Acts(r) \/ Abandon(r)) /\ StepOK(r)
                 /\ UNCHANGED gitlab
              \/ EnvironmentOK
           /\ TablesInv' /\ Kept
           /\ valid' \subseteq Pats /\ members' \subseteq Accounts
           /\ disturbed' \in BOOLEAN /\ steady' \in [Actors -> SUBSET CredIds]
<1>0. TablesInv /\ TypeOK
    BY DEF IndInv
<1>1. CASE UNCHANGED vars
    BY <1>0, <1>1, TablesStay DEF vars, tables, gitlab, history, EnvironmentOK, TypeOK
<1>2. CASE Next
  <2>1. steady' \in [Actors -> SUBSET CredIds]
      BY <1>0, <1>2 DEF Next, StillSteady, GoodCredentials, TypeOK
  <2>2. disturbed' \in BOOLEAN
      BY <1>0, <1>2 DEF Next, Step, TypeOK, Overlapping, HalfDone
  <2>3. ASSUME NEW r \in Actors, Acts(r) \/ Abandon(r), UNCHANGED gitlab
        PROVE  StepOK(r) /\ TablesInv' /\ Kept /\ valid' \subseteq Pats /\ members' \subseteq Accounts
      BY <1>0, <2>3, ActorSteps DEF StepOK, gitlab, TypeOK
  <2>4. CASE \/ \E pat \in Pats : Revoke(pat)
             \/ \E a \in Accounts : ChangeMembership(a)
             \/ \E u \in Users : Expire(u)
      BY <2>1, <2>2, <2>4, EnvironmentSteps DEF EnvironmentOK
  <2>5. CASE \E r \in Actors : (Acts(r) \/ Abandon(r)) /\ UNCHANGED gitlab
      BY <2>1, <2>2, <2>3, <2>5
  <2> QED BY <1>2, <2>4, <2>5 DEF Next, Step, Acts, Actors
<1> QED BY <1>1, <1>2

LEMMA IndInit == Init => IndInv
<1> SUFFICES ASSUME Init PROVE IndInv
    OBVIOUS
<1>1. /\ conns = [c \in ConnIds |-> [user |-> None, account |-> None, status |-> "none"]]
      /\ creds = [k \in CredIds |-> [conn |-> None, pat |-> None, status |-> "none"]]
      /\ cache = [u \in Users |-> None]
      /\ valid = Pats /\ members \in SUBSET Accounts /\ disturbed = FALSE
      /\ req = [r \in Actors |-> Idle] /\ steady = [r \in Actors |-> {}]
    BY DEF Init, TablesInit
<1>2. TablesInv
    BY <1>1 DEF TablesInv, TablesTypeOK, Connection, Credential, RowsOK, OneActive, OneLive,
       IsLive, ConnectionIs
<1>3. Idle \in Request
    BY DEF Idle, Request, Kinds
<1>4. TypeOK
    BY <1>1, <1>2, <1>3 DEF TypeOK, TablesInv
<1>5. \A r \in Actors : Holds(r)
    BY <1>1 DEF Holds, Busy, Idle
<1> QED BY <1>2, <1>4, <1>5 DEF IndInv

LEMMA IndStep == IndInv /\ [Next]_vars => IndInv'
<1> SUFFICES ASSUME IndInv, [Next]_vars PROVE IndInv'
    OBVIOUS
<1>1. /\ TablesInv' /\ Kept
      /\ valid' \subseteq Pats /\ members' \subseteq Accounts
      /\ disturbed' \in BOOLEAN /\ steady' \in [Actors -> SUBSET CredIds]
    BY Steps
<1>2. TypeOK /\ req \in [Actors -> Request] /\ \A r \in Actors : Holds(r)
    BY DEF IndInv, TypeOK
<1>3. ASSUME NEW q \in Actors, req'[q] = req[q]
      PROVE  Holds(q)'
    BY <1>1, <1>2, <1>3, NeedsKept DEF Holds, Busy, HasWhatItNeeds
<1>4. CASE \E r \in Actors : StepOK(r)
  <2>1. PICK r \in Actors : StepOK(r)
      BY <1>4
  <2>2. req' \in [Actors -> Request] /\ \A q \in Actors \ {r} : req'[q] = req[q]
      BY <1>2, <2>1 DEF StepOK
  <2> QED BY <1>1, <1>3, <2>1, <2>2 DEF IndInv, TypeOK, TablesInv, StepOK
<1>5. CASE EnvironmentOK
    BY <1>1, <1>2, <1>3, <1>5 DEF EnvironmentOK, IndInv, TypeOK, TablesInv
<1> QED BY <1>4, <1>5, Steps

\* The inductive invariant: types, rows and indexes, and what requests hold.
THEOREM Invariance == Spec => []IndInv
BY IndInit, IndStep, PTL DEF Spec

-----------------------------------------------------------------------------

\* Whatever requests race, the row of a credential that was superseded, invalidated
\* or revoked is never written again.
THEOREM EndedFinal == Spec => EndedCredentialsAreFinal
<1>1. ASSUME IndInv, [Next]_vars
      PROVE  [\A k \in CredIds : creds[k].status \notin {"none", "active"}
                                   => creds'[k] = creds[k]]_vars
    BY <1>1, Steps DEF Kept
<1> QED BY <1>1, Invariance, PTL DEF Spec, EndedCredentialsAreFinal


-----------------------------------------------------------------------------
(* The candidate loop.                                                     *)

\* The credential k has its turn, or will have it.
Tries(row, k) ==
    \/ creds[k].conn \in row.todo
    \/ /\ row.conn = creds[k].conn
       /\ \/ row.at = "token"
          \/ row.at = "probe" /\ row.pat = creds[k].pat

SteadyInv ==
    \A r \in Actors : \A k \in steady[r] :
        req[r].kind = "sync" /\ IsGood(k) /\ Tries(req[r], k)

\* A synchronisation that begins finds every connection with a good credential.
LEMMA SteadyBegins ==
    ASSUME IndInv, NEW r \in Actors, Acts(r) \/ Abandon(r), TablesInv',
           ~Busy(r), req'[r].kind = "sync", NEW k \in CredIds, IsGood(k)'
    PROVE  Tries(req[r], k)'
<1>1. req \in [Actors -> Request]
    BY DEF IndInv, TypeOK
<1>2. BeginSync(r)
  <2>1. ~Continue(r) /\ ~Abandon(r)
      BY DEF Busy, Continue, SaveFind, SaveUpdate, SaveCreate, SaveLook, SaveStore, SaveReplace,
         DeleteRevoke, DeleteErase, RetestConfirm, VisitLookup, VisitAllow, SyncNext, SyncDone,
         ReadToken, Probe, Invalidate, Mark, Deny, Clear, At, Abandon
  <2>2. ~BeginRequest(r)
      BY <1>1 DEF BeginRequest, BeginSave, BeginDelete, BeginRetest, BeginVisit, Begin
  <2> QED BY <2>1, <2>2 DEF Acts
<1>3. req'[r].todo = Candidates /\ UNCHANGED tables
    BY <1>1, <1>2 DEF BeginSync, Begin
<1>4. creds'[k].conn \in ConnIds /\ conns'[creds'[k].conn].status = "active"
    BY DEF IsGood, ConnectionIs, TablesInv, RowsOK
<1>5. creds'[k].conn \in Candidates
    BY <1>3, <1>4 DEF Candidates, ConnectionIs, tables
<1> QED BY <1>3, <1>5 DEF Tries

\* One that goes on passes over none but those whose credential failed.
LEMMA SteadyGoesOn ==
    ASSUME IndInv, NEW r \in Actors, Acts(r) \/ Abandon(r), Kept,
           req[r].kind = "sync", req'[r].kind = "sync",
           NEW k \in CredIds, IsGood(k), Tries(req[r], k)
    PROVE  Tries(req[r], k)'
<1>1. /\ req \in [Actors -> Request] /\ req[r] \in Request
      /\ creds \in [CredIds -> Credential] /\ OneActive
    BY DEF IndInv, TypeOK, TablesInv, TablesTypeOK
<1>2. /\ creds[k].status = "active" /\ creds'[k].conn = creds[k].conn
      /\ creds'[k].pat = creds[k].pat
    BY DEF IsGood, Kept
<1>3. SUFFICES \/ creds[k].conn \in req'[r].todo
               \/ /\ req'[r].conn = creds[k].conn
                  /\ \/ req'[r].at = "token"
                     \/ req'[r].at = "probe" /\ req'[r].pat = creds[k].pat
    BY <1>2 DEF Tries
<1>4. ~End(r)
    BY <1>1 DEF End, Idle
<1>5. \/ SyncNext(r) \/ ReadToken(r) \/ Probe(r)
      \/ Invalidate(r) \/ Mark(r) \/ Deny(r) \/ Clear(r)
    BY <1>1, <1>4 DEF Acts, Abandon, BeginRequest, BeginSave, BeginDelete, BeginRetest, BeginVisit,
       BeginSync, Begin, Busy, Continue, SaveFind, SaveUpdate, SaveCreate, SaveLook, SaveStore,
       SaveReplace, DeleteRevoke, DeleteErase, RetestConfirm, VisitLookup, VisitAllow, SyncDone, At
<1>6. \A label \in Labels : Goto(r, label) =>
          /\ req'[r].todo = req[r].todo /\ req'[r].at = label
          /\ label \notin {"mark", "clear", "next"} =>
                req'[r].conn = req[r].conn /\ req'[r].pat = req[r].pat
    BY <1>1 DEF Goto, Request, NeedsNoPat, NeedsNoConnection
<1>7. CASE Invalidate(r) \/ Mark(r) \/ Deny(r) \/ Clear(r)
    BY <1>4, <1>6, <1>7 DEF Invalidate, Mark, Deny, Clear, Proceed, At, Labels, Tries
<1>8. CASE SyncNext(r)
  <2>1. PICK c \in req[r].todo :
            req' = [req EXCEPT ![r].at = "token", ![r].conn = c,
                               ![r].user = conns[c].user, ![r].todo = @ \ {c}]
      BY <1>4, <1>8 DEF SyncNext
  <2>2. /\ req'[r].at = "token" /\ req'[r].conn = c /\ req'[r].todo = req[r].todo \ {c}
      BY <1>1, <2>1 DEF Request
  <2>3. req[r].at = "next"
      BY <1>8 DEF SyncNext, At
  <2>4. creds[k].conn \in req[r].todo
      BY <2>3 DEF Tries
  <2> QED BY <2>2, <2>4
<1>9. CASE ReadToken(r)
  <2>1. CASE creds[k].conn \in req[r].todo
    <3>1. req'[r].todo = req[r].todo
      <4>1. CASE \E i \in ActiveCredentials(req[r].conn) :
                    req' = [req EXCEPT ![r].pat = creds[i].pat, ![r].at = "probe"]
          BY <1>1, <4>1 DEF Request
      <4>2. CASE Goto(r, "mark")
          BY <1>6, <4>2 DEF Labels
      <4> QED BY <1>4, <1>9, <4>1, <4>2 DEF ReadToken
    <3> QED BY <2>1, <3>1
  <2>2. CASE req[r].conn = creds[k].conn
    <3>1. k \in ActiveCredentials(req[r].conn)
        BY <1>2, <2>2 DEF ActiveCredentials
    <3>2. PICK l \in ActiveCredentials(req[r].conn) :
              req' = [req EXCEPT ![r].pat = creds[l].pat, ![r].at = "probe"]
        BY <1>9, <3>1 DEF ReadToken
    <3>3. l = k
        BY <1>1, <3>1, <3>2 DEF OneActive, ActiveCredentials
    <3> QED BY <1>1, <2>2, <3>2, <3>3 DEF Request
  <2> QED BY <2>1, <2>2 DEF Tries
<1>10. CASE Probe(r)
  <2>1. PICK label \in Labels : /\ Goto(r, label)
                                /\ req[r].pat = creds[k].pat => label = "probe"
      BY <1>2, <1>10 DEF Probe, AcceptedAs, IsGood, Labels
  <2> QED BY <1>6, <1>10, <2>1 DEF Probe, At, Tries
<1> QED BY <1>5, <1>7, <1>8, <1>9, <1>10

LEMMA SteadyStep == IndInv /\ SteadyInv /\ [Next]_vars => SteadyInv'
<1> SUFFICES ASSUME IndInv, SteadyInv, [Next]_vars PROVE SteadyInv'
    OBVIOUS
<1>0. /\ req \in [Actors -> Request] /\ steady \in [Actors -> SUBSET CredIds]
      /\ steady' \in [Actors -> SUBSET CredIds] /\ TablesInv' /\ Kept
    BY Steps DEF IndInv, TypeOK
<1>1. CASE UNCHANGED vars
  <2>1. /\ req' = req /\ steady' = steady /\ creds' = creds /\ conns' = conns
        /\ valid' = valid /\ members' = members
      BY <1>1 DEF vars, tables, gitlab, history
  <2> QED BY <2>1 DEF SteadyInv, Tries, IsGood, ConnectionIs
<1>2. CASE Next
  <2> SUFFICES ASSUME NEW q \in Actors, NEW k \in steady'[q]
               PROVE  req'[q].kind = "sync" /\ IsGood(k)' /\ Tries(req[q], k)'
      BY DEF SteadyInv
  <2>1. /\ k \in CredIds /\ req'[q].kind = "sync" /\ IsGood(k)'
        /\ Busy(q) => k \in steady[q]
    <3>1. steady'[q] = IF req'[q].kind # "sync" THEN {}
                       ELSE IF Busy(q) THEN steady[q] \cap GoodCredentials'
                       ELSE GoodCredentials'
        BY <1>2 DEF Next, StillSteady
    <3>2. k \in GoodCredentials'
        BY <3>1
    <3> QED BY <3>1, <3>2 DEF GoodCredentials
  <2>2. Busy(q) => req[q].kind = "sync" /\ IsGood(k) /\ Tries(req[q], k)
      BY <2>1 DEF SteadyInv
  <2>3. CASE req'[q] = req[q]
    <3>1. /\ IsGood(k) /\ Tries(req[q], k) /\ creds[k].status = "active"
        BY <2>1, <2>2, <2>3 DEF Busy, IsGood
    <3>2. creds'[k].conn = creds[k].conn /\ creds'[k].pat = creds[k].pat
        BY <1>0, <2>1, <3>1 DEF Kept
    <3> QED BY <2>1, <2>3, <3>1, <3>2 DEF Tries
  <2>4. CASE req'[q] # req[q]
    <3>1. Acts(q) \/ Abandon(q)
        BY <1>0, <2>4, Steps DEF StepOK, EnvironmentOK
    <3>2. CASE Busy(q)
        BY <1>0, <2>1, <2>2, <3>1, <3>2, SteadyGoesOn
    <3>3. CASE ~Busy(q)
        BY <1>0, <2>1, <3>1, <3>3, SteadyBegins
    <3> QED BY <2>1, <3>2, <3>3
  <2> QED BY <2>3, <2>4
<1> QED BY <1>1, <1>2

\* A synchronisation never ends blocked while one credential was good from its
\* start, however many candidates there are and whatever is saved, retested or
\* deleted meanwhile.
THEOREM GoodCandidates == Spec => []GoodCandidateFound
<1>1. Init => SteadyInv
    BY DEF Init, SteadyInv
<1>2. SteadyInv => GoodCandidateFound
    BY DEF SteadyInv, GoodCandidateFound, Blocked, At, Tries, Actors
<1> QED BY <1>1, <1>2, SteadyStep, Invariance, PTL DEF Spec


-----------------------------------------------------------------------------
(* Requests that come one by one.                                          *)

ConnectionAgrees(c) ==
    /\ ConnectionIs(c, {"active"}) <=> ActiveCredentials(c) # {}
    /\ \A k \in ActiveCredentials(c) : AccountOf[creds[k].pat] = conns[c].account
UserAgrees(u) ==
    cache[u] # None => \E c \in ConnIds : /\ conns[c].user = u
                                          /\ ConnectionIs(c, {"active"})
                                          /\ conns[c].account = cache[u]
AllAgree == /\ \A c \in ConnIds : ConnectionAgrees(c)
            /\ \A u \in Users : UserAgrees(u)

\* While the request with this row is between two of its statements, only its own
\* connection and its own user may disagree, and this is known of them.
ConnectionDue == {"look", "store", "replace", "erase", "mark"}
UserDue == {"look", "store", "replace", "erase", "clear"}
Between(row) ==
    /\ \A c \in ConnIds : ConnectionAgrees(c) \/ (row.at \in ConnectionDue /\ c = row.conn)
    /\ \A u \in Users : UserAgrees(u) \/ (row.at \in UserDue /\ u = row.user)
    /\ row.at \in {"look", "store", "replace"} =>
          /\ conns[row.conn].status = "active"
          /\ conns[row.conn].account = AccountOf[row.pat]
    /\ row.at \in {"store", "erase", "mark"} => ActiveCredentials(row.conn) = {}
    /\ row.at \in {"probe", "confirm", "allow", "deny"} =>
          \E k \in ActiveCredentials(row.conn) : creds[k].pat = row.pat

After(r) == IF Busy(r) THEN Between(req[r]) ELSE AllAgree

AgreeInv ==
    ~disturbed => /\ \A q, r \in Actors : Busy(q) /\ Busy(r) => q = r
                  /\ \A r \in Actors : Busy(r) => Between(req[r])
                  /\ (\A r \in Actors : ~Busy(r)) => AllAgree

LEMMA AgreeStays ==
    ASSUME UNCHANGED tables
    PROVE  /\ \A c \in ConnIds : /\ ActiveCredentials(c)' = ActiveCredentials(c)
                                 /\ ConnectionAgrees(c) => ConnectionAgrees(c)'
           /\ \A u \in Users : UserAgrees(u) => UserAgrees(u)'
<1>1. conns' = conns /\ creds' = creds /\ cache' = cache
    BY DEF tables
<1> QED BY <1>1 DEF ActiveCredentials, ConnectionAgrees, UserAgrees, ConnectionIs

\* A request that has nothing due may end, and one that starts has nothing due.
LEMMA AgreeRests ==
    ASSUME IndInv, NEW r \in Actors, Busy(r), Between(req[r]),
           req[r].at \notin ConnectionDue \cup UserDue,
           UNCHANGED tables, End(r)
    PROVE  After(r)'
<1>1. req'[r] = Idle
    BY DEF End, IndInv, TypeOK
<1>2. AllAgree'
    BY AgreeStays DEF Between, AllAgree
<1> QED BY <1>1, <1>2 DEF After, Busy, Idle

LEMMA BetweenReads ==
    ASSUME IndInv, NEW r \in Actors, After(r), StepOK(r), UNCHANGED tables,
           \/ \E u \in Users, pat \in Pats : BeginSave(r, u, pat)
           \/ \E c \in ConnIds : BeginDelete(r, c) \/ BeginRetest(r, c) \/ BeginVisit(r, c)
           \/ BeginSync(r) \/ SaveFind(r) \/ SaveLook(r) \/ VisitLookup(r)
           \/ SyncNext(r) \/ SyncDone(r) \/ ReadToken(r) \/ Probe(r)
           \/ Abandon(r) /\ ~HalfDone(r)
    PROVE  After(r)'
<1>1. /\ req \in [Actors -> Request] /\ req[r] \in Request /\ Holds(r) /\ OneActive
      /\ creds' = creds /\ conns' = conns
    BY DEF IndInv, TypeOK, TablesInv, tables
<1>2. /\ \A c \in ConnIds : /\ ActiveCredentials(c)' = ActiveCredentials(c)
                            /\ ConnectionAgrees(c) => ConnectionAgrees(c)'
      /\ \A u \in Users : UserAgrees(u) => UserAgrees(u)'
    BY AgreeStays
<1>3. \A label \in Labels : Goto(r, label) =>
          /\ req'[r].at = label /\ req'[r].kind = req[r].kind
          /\ label \notin {"clear", "next"} => req'[r].conn = req[r].conn
          /\ label # "next" => req'[r].user = req[r].user
          /\ label \notin NeedsNoPat => req'[r].pat = req[r].pat
    BY <1>1 DEF Goto, Request, NeedsNoPat, NeedsNoConnection, NeedsNoUser
<1>4. ASSUME AllAgree,
             req'[r].at \in {"find", "update", "create", "revoke", "lookup", "token", "next",
                             "invalidate"}
      PROVE  After(r)'
  <2>1. AllAgree'
      BY <1>2, <1>4 DEF AllAgree
  <2>2. Between(req[r])'
      BY <1>4, <2>1 DEF AllAgree, Between, ConnectionDue, UserDue
  <2> QED BY <2>1, <2>2 DEF After
<1>5. CASE \/ \E u \in Users, pat \in Pats : BeginSave(r, u, pat)
           \/ \E c \in ConnIds : BeginDelete(r, c) \/ BeginRetest(r, c) \/ BeginVisit(r, c)
           \/ BeginSync(r)
  <2>1. AllAgree
      BY <1>5 DEF After, BeginSave, BeginDelete, BeginRetest, BeginVisit, BeginSync, Begin
  <2>2. /\ req'[r].at \in {"find", "revoke", "token", "lookup", "next"}
        /\ req'[r].kind \in Kinds \ {"none"}
      BY <1>1, <1>5 DEF BeginSave, BeginDelete, BeginRetest, BeginVisit, BeginSync, Begin, Kinds
  <2> QED BY <1>4, <2>1, <2>2
<1>6. CASE /\ Busy(r)
           /\ \/ SaveFind(r) \/ VisitLookup(r) \/ SyncNext(r) \/ SyncDone(r) \/ ReadToken(r)
              \/ Probe(r) \/ (Abandon(r) /\ ~HalfDone(r))
  <2>1. Between(req[r]) /\ HasWhatItNeeds(req[r])
      BY <1>1, <1>6 DEF After, Holds
  <2>2. req[r].at \notin ConnectionDue \cup UserDue
      BY <1>6 DEF SaveFind, VisitLookup, SyncNext, SyncDone, ReadToken, Probe, Abandon,
         HalfDone, At, ConnectionDue, UserDue
  <2>3. AllAgree
      BY <2>1, <2>2 DEF Between, AllAgree
  <2>4. End(r) => After(r)'
      BY <1>6, <2>1, <2>2, AgreeRests
  <2>5. CASE SaveFind(r)
    <3>1. req'[r].at \in {"update", "create"}
        BY <1>1, <1>3, <2>5 DEF SaveFind, Labels, Request
    <3> QED BY <1>4, <2>3, <3>1
  <2>6. CASE VisitLookup(r)
      BY <1>3, <1>4, <2>3, <2>4, <2>6 DEF VisitLookup, Labels
  <2>7. CASE SyncNext(r)
    <3>1. CASE ~End(r)
      <4>1. PICK c \in req[r].todo :
                req' = [req EXCEPT ![r].at = "token", ![r].conn = c,
                                   ![r].user = conns[c].user, ![r].todo = @ \ {c}]
          BY <2>7, <3>1 DEF SyncNext
      <4>2. req'[r].at = "token"
          BY <1>1, <4>1 DEF Request
      <4> QED BY <1>4, <2>3, <4>2
    <3> QED BY <2>4, <3>1
  <2>8. CASE SyncDone(r) \/ Abandon(r)
      BY <2>4, <2>8 DEF SyncDone, Abandon
  <2>9. CASE ReadToken(r)
    <3>1. req[r].conn \in ConnIds /\ req[r].at = "token"
        BY <2>1, <2>9 DEF ReadToken, At, HasWhatItNeeds, WithoutConnection
    <3>2. CASE \E k \in ActiveCredentials(req[r].conn) :
                  req' = [req EXCEPT ![r].pat = creds[k].pat, ![r].at = "probe"]
      <4>1. PICK k \in ActiveCredentials(req[r].conn) :
                  req' = [req EXCEPT ![r].pat = creds[k].pat, ![r].at = "probe"]
          BY <3>2
      <4>2. req'[r].at = "probe" /\ req'[r].pat = creds[k].pat /\ req'[r].conn = req[r].conn
          BY <1>1, <4>1 DEF Request
      <4>3. Between(req[r])'
          BY <1>1, <1>2, <2>3, <3>1, <4>1, <4>2 DEF AllAgree, Between, ConnectionDue, UserDue
      <4> QED BY <2>3, <4>3, <1>2 DEF After, AllAgree
    <3>3. CASE Goto(r, "mark") /\ ActiveCredentials(req[r].conn) = {}
      <4>1. req'[r].at = "mark" /\ req'[r].conn = req[r].conn
          BY <1>3, <3>3 DEF Labels
      <4>2. Between(req[r])'
          BY <1>2, <2>3, <3>1, <3>3, <4>1 DEF AllAgree, Between, ConnectionDue, UserDue
      <4> QED BY <1>2, <2>3, <4>2 DEF After, AllAgree
    <3> QED BY <2>4, <2>9, <3>2, <3>3 DEF ReadToken
  <2>10. CASE Probe(r)
    <3>1. /\ req[r].conn \in ConnIds /\ req[r].at = "probe"
          /\ \E k \in ActiveCredentials(req[r].conn) : creds[k].pat = req[r].pat
        BY <2>1, <2>10 DEF Probe, At, HasWhatItNeeds, WithoutConnection, Between
    <3>2. PICK label \in {"confirm", "deny", "probe", "allow", "invalidate"} : Goto(r, label)
        BY <2>10 DEF Probe, AcceptedAs
    <3>3. req'[r].at = label /\ req'[r].conn = req[r].conn /\ req'[r].pat = req[r].pat
        BY <1>3, <3>2 DEF Labels, NeedsNoPat
    <3>4. Between(req[r])'
        BY <1>1, <1>2, <2>3, <3>1, <3>3 DEF AllAgree, Between, ConnectionDue, UserDue
    <3> QED BY <1>2, <2>3, <3>4 DEF After, AllAgree
  <2> QED BY <1>6, <2>5, <2>6, <2>7, <2>8, <2>9, <2>10
<1>7. CASE SaveLook(r)
  <2>1. /\ req[r].at = "look" /\ Busy(r) /\ Between(req[r]) /\ HasWhatItNeeds(req[r])
      BY <1>1, <1>7 DEF SaveLook, At, Busy, After, Holds
  <2>2. req[r].conn \in ConnIds
      BY <2>1 DEF HasWhatItNeeds, WithoutConnection
  <2>3. PICK label \in {"store", "replace"} :
            /\ Goto(r, label)
            /\ label = "store" => ActiveCredentials(req[r].conn) = {}
      BY <1>7 DEF SaveLook
  <2>4. /\ req'[r].at = label /\ req'[r].conn = req[r].conn /\ req'[r].pat = req[r].pat
        /\ req'[r].user = req[r].user /\ req'[r].kind = req[r].kind
      BY <1>3, <2>3 DEF Labels, NeedsNoPat
  <2>5. Between(req[r])'
      BY <1>1, <1>2, <2>1, <2>2, <2>3, <2>4 DEF Between, ConnectionDue, UserDue
  <2> QED BY <2>1, <2>4, <2>5 DEF After, Busy
<1> QED
  <2>1. \/ SaveFind(r) \/ VisitLookup(r) \/ SyncNext(r) \/ SyncDone(r) \/ ReadToken(r)
        \/ Probe(r) \/ Abandon(r)
        => Busy(r)
      BY DEF SaveFind, VisitLookup, SyncNext, SyncDone, ReadToken, Probe, Abandon, At, Busy
  <2> QED BY <1>5, <1>6, <1>7, <2>1


\* Writing a connection concerns that connection and its user only.
LEMMA OthersAgree ==
    ASSUME conns \in [ConnIds -> Connection], NEW c \in ConnIds, NEW row, NEW u,
           WriteConnection(c, row), conns[c].status = "none" \/ conns[c].user = u
    PROVE  /\ \A d \in ConnIds : ActiveCredentials(d)' = ActiveCredentials(d)
           /\ \A d \in ConnIds \ {c} : ConnectionAgrees(d) => ConnectionAgrees(d)'
           /\ \A v \in Users \ {u} : UserAgrees(v) => UserAgrees(v)'
<1>1. conns' = [conns EXCEPT ![c] = row] /\ creds' = creds /\ cache' = cache
    BY DEF WriteConnection
<1>2. \A d \in ConnIds : ActiveCredentials(d)' = ActiveCredentials(d)
    BY <1>1 DEF ActiveCredentials
<1>3. \A d \in ConnIds \ {c} : conns'[d] = conns[d]
    BY <1>1
<1>4. \A d \in ConnIds \ {c} : ConnectionAgrees(d) => ConnectionAgrees(d)'
    BY <1>1, <1>2, <1>3 DEF ConnectionAgrees, ConnectionIs
<1>5. ASSUME NEW v \in Users \ {u}, UserAgrees(v), cache'[v] # None
      PROVE  \E d \in ConnIds : /\ conns'[d].user = v
                                /\ conns'[d].status = "active"
                                /\ conns'[d].account = cache'[v]
  <2>1. PICK d \in ConnIds : conns[d].user = v /\ conns[d].status = "active"
                             /\ conns[d].account = cache[v]
      BY <1>1, <1>5 DEF UserAgrees, ConnectionIs
  <2>2. d # c
      BY <2>1, <1>5
  <2> QED BY <1>1, <1>3, <2>1, <2>2
<1> QED BY <1>2, <1>4, <1>5 DEF UserAgrees, ConnectionIs

LEMMA BetweenWrites ==
    ASSUME IndInv, NEW r \in Actors, After(r), StepOK(r),
           \/ SaveUpdate(r) \/ SaveCreate(r) \/ SaveStore(r) \/ SaveReplace(r)
           \/ DeleteRevoke(r) \/ DeleteErase(r) \/ RetestConfirm(r) \/ VisitAllow(r)
           \/ Invalidate(r) \/ Mark(r) \/ Deny(r) \/ Clear(r)
    PROVE  After(r)'
<1>1. /\ req \in [Actors -> Request] /\ req[r] \in Request /\ TablesInv
      /\ conns \in [ConnIds -> Connection] /\ cache \in [Users -> Accounts \cup {None}]
    BY DEF IndInv, TypeOK, TablesInv, TablesTypeOK
<1>2. /\ Busy(r) /\ Between(req[r]) /\ HasWhatItNeeds(req[r])
      /\ req[r].kind \in Kinds \ {"none"}
  <2>1. Busy(r) /\ req[r].kind \in Kinds \ {"none"}
      BY <1>1 DEF SaveUpdate, SaveCreate, SaveStore, SaveReplace, DeleteRevoke, DeleteErase,
         RetestConfirm, VisitAllow, Invalidate, Mark, Deny, Clear, At, Busy, Request
  <2> QED BY <2>1 DEF IndInv, Holds, After
<1>3. \A label \in Labels : Goto(r, label) =>
          /\ req'[r].at = label /\ req'[r].kind = req[r].kind
          /\ label \notin {"clear", "next"} => req'[r].conn = req[r].conn
          /\ label # "next" => req'[r].user = req[r].user
          /\ label \notin NeedsNoPat => req'[r].pat = req[r].pat
    BY <1>1 DEF Goto, Request, NeedsNoPat, NeedsNoConnection, NeedsNoUser
<1>4. ASSUME End(r), AllAgree' PROVE After(r)'
  <2>1. req'[r] = Idle
      BY <1>1, <1>4 DEF End
  <2> QED BY <1>4, <2>1 DEF After, Busy, Idle
<1>5. ASSUME NEW label \in Labels, Goto(r, label), Between(req[r])' PROVE After(r)'
  <2>1. Busy(r)'
      BY <1>2, <1>3, <1>5 DEF Busy
  <2> QED BY <1>5, <2>1 DEF After
<1>6. CASE SaveUpdate(r) \/ SaveCreate(r)
  <2>1. /\ req[r].at \in {"update", "create"} /\ req[r].user \in Users
        /\ req[r].at = "update" => /\ req[r].conn \in ConnIds
                                   /\ conns[req[r].conn].user = req[r].user
      BY <1>2, <1>6 DEF SaveUpdate, SaveCreate, At, HasWhatItNeeds, WithoutConnection
  <2>2. CASE UNCHANGED tables /\ End(r)
      BY <1>2, <2>1, <2>2, AgreeRests DEF ConnectionDue, UserDue
  <2>3. CASE \E c \in ConnIds :
                /\ conns[c].status = "none" \/ conns[c].user = req[r].user
                /\ WriteConnection(c, SavedRow(r))
                /\ req'[r].conn = c /\ req'[r].at = "look" /\ req'[r].user = req[r].user
                /\ req'[r].pat = req[r].pat /\ req'[r].kind = req[r].kind
    <3>1. PICK c \in ConnIds :
                /\ conns[c].status = "none" \/ conns[c].user = req[r].user
                /\ WriteConnection(c, SavedRow(r))
                /\ req'[r].conn = c /\ req'[r].at = "look" /\ req'[r].user = req[r].user
                /\ req'[r].pat = req[r].pat /\ req'[r].kind = req[r].kind
        BY <2>3
    <3>2. AllAgree
        BY <1>2, <2>1 DEF Between, AllAgree, ConnectionDue, UserDue
    <3>3. PICK row, u : row = SavedRow(r) /\ u = req[r].user
        OBVIOUS
    <3>4. /\ \A d \in ConnIds \ {c} : ConnectionAgrees(d)'
          /\ \A v \in Users \ {u} : UserAgrees(v)'
        BY <1>1, <3>1, <3>2, <3>3, OthersAgree DEF AllAgree
    <3>5. conns'[c].status = "active" /\ conns'[c].account = AccountOf[req[r].pat]
        BY <1>1, <3>1 DEF WriteConnection, SavedRow
    <3>6. Between(req[r])'
        BY <3>1, <3>3, <3>4, <3>5 DEF Between, ConnectionDue, UserDue
    <3> QED BY <1>2, <3>1, <3>6 DEF After, Busy
  <2>4. CASE SaveUpdate(r) /\ WriteConnection(req[r].conn, SavedRow(r)) /\ Goto(r, "look")
    <3>1. /\ req'[r].conn = req[r].conn /\ req'[r].at = "look" /\ req'[r].user = req[r].user
          /\ req'[r].pat = req[r].pat /\ req'[r].kind = req[r].kind
        BY <1>3, <2>4 DEF Labels, NeedsNoPat
    <3>2. req[r].at = "update"
        BY <2>4 DEF SaveUpdate, At
    <3> QED BY <2>1, <2>3, <2>4, <3>1, <3>2
  <2>5. CASE \E c \in ConnIds : /\ IsNextConnection(c)
                                /\ WriteConnection(c, SavedRow(r))
                                /\ req' = [req EXCEPT ![r].conn = c, ![r].at = "look"]
    <3>1. PICK c \in ConnIds : /\ IsNextConnection(c)
                               /\ WriteConnection(c, SavedRow(r))
                               /\ req' = [req EXCEPT ![r].conn = c, ![r].at = "look"]
        BY <2>5
    <3>2. /\ req'[r].conn = c /\ req'[r].at = "look" /\ req'[r].user = req[r].user
          /\ req'[r].pat = req[r].pat /\ req'[r].kind = req[r].kind
        BY <1>1, <3>1 DEF Request
    <3>3. conns[c].status = "none"
        BY <3>1 DEF IsNextConnection, ConnectionIs
    <3> QED BY <2>3, <3>1, <3>2, <3>3
  <2> QED BY <1>6, <2>2, <2>4, <2>5 DEF SaveUpdate, SaveCreate
<1>7. CASE SaveStore(r) \/ SaveReplace(r)
  <2>1. /\ req[r].at \in {"store", "replace"} /\ req[r].conn \in ConnIds
        /\ req[r].pat \in Pats
        /\ req[r].at = "store" => ActiveCredentials(req[r].conn) = {}
        /\ conns[req[r].conn].status = "active"
        /\ conns[req[r].conn].account = AccountOf[req[r].pat]
      BY <1>2, <1>7 DEF SaveStore, SaveReplace, At, HasWhatItNeeds, WithoutConnection, WithPat,
         Between
  <2>2. /\ StoreCredential(req[r].conn, req[r].pat) \/ ReplaceCredential(req[r].conn, req[r].pat)
        /\ Goto(r, "clear")
      BY <1>7, <2>1 DEF SaveStore, SaveReplace, At
  <2>3. PICK c, pat : c = req[r].conn /\ pat = req[r].pat
      OBVIOUS
  <2>4. /\ conns' = conns /\ cache' = cache
        /\ ActiveCredentials(c)' # {}
        /\ \A k \in ActiveCredentials(c)' : creds'[k].pat = pat
        /\ \A d \in ConnIds \ {c} :
              /\ ActiveCredentials(d)' = ActiveCredentials(d)
              /\ \A k \in ActiveCredentials(d) : creds'[k].pat = creds[k].pat
      BY <1>1, <2>1, <2>2, <2>3, CredentialInserted
  <2>5. ConnectionAgrees(c)'
      BY <2>1, <2>3, <2>4 DEF ConnectionAgrees, ConnectionIs
  <2>6. \A d \in ConnIds \ {c} : ConnectionAgrees(d)'
      BY <1>2, <2>3, <2>4 DEF Between, ConnectionAgrees, ConnectionIs
  <2>7. \A u \in Users : u = req[r].user \/ UserAgrees(u)'
      BY <1>2, <2>4 DEF Between, UserAgrees, ConnectionIs
  <2>8. req'[r].at = "clear" /\ req'[r].user = req[r].user
      BY <1>3, <2>2 DEF Labels
  <2>9. Between(req[r])'
      BY <2>5, <2>6, <2>7, <2>8 DEF Between, ConnectionDue, UserDue
  <2> QED BY <1>5, <2>2, <2>9 DEF Labels
<1>8. CASE DeleteRevoke(r) \/ Invalidate(r)
  <2>1. /\ req[r].at \in {"revoke", "invalidate"} /\ req[r].conn \in ConnIds
      BY <1>2, <1>8 DEF DeleteRevoke, Invalidate, At, HasWhatItNeeds, WithoutConnection
  <2>2. PICK status \in {"invalid", "revoked"}, label \in {"mark", "erase"} :
            InvalidateCredential(req[r].conn, status) /\ Goto(r, label)
      BY <1>8 DEF DeleteRevoke, Invalidate
  <2>3. AllAgree
      BY <1>2, <2>1 DEF Between, AllAgree, ConnectionDue, UserDue
  <2>4. PICK c : c = req[r].conn
      OBVIOUS
  <2>5. /\ conns' = conns /\ cache' = cache
        /\ ActiveCredentials(c)' = {}
        /\ \A d \in ConnIds \ {c} :
              /\ ActiveCredentials(d)' = ActiveCredentials(d)
              /\ \A k \in ActiveCredentials(d) : creds'[k].pat = creds[k].pat
      BY <1>1, <2>1, <2>2, <2>4, CredentialInvalidated
  <2>6. \A d \in ConnIds \ {c} : ConnectionAgrees(d)'
      BY <2>3, <2>5 DEF AllAgree, ConnectionAgrees, ConnectionIs
  <2>7. \A u \in Users : UserAgrees(u)'
      BY <2>3, <2>5 DEF AllAgree, UserAgrees, ConnectionIs
  <2>8. req'[r].at = label /\ req'[r].conn = c
      BY <1>3, <2>2, <2>4 DEF Labels
  <2>9. Between(req[r])'
      BY <2>5, <2>6, <2>7, <2>8 DEF Between, ConnectionDue, UserDue
  <2> QED BY <1>5, <2>2, <2>9 DEF Labels
<1>9. CASE DeleteErase(r) \/ Mark(r)
  <2>1. /\ req[r].at \in {"erase", "mark"} /\ req[r].conn \in ConnIds
        /\ conns[req[r].conn].user = req[r].user
        /\ ActiveCredentials(req[r].conn) = {}
      BY <1>2, <1>9 DEF DeleteErase, Mark, At, HasWhatItNeeds, WithoutConnection, Between
  <2>2. PICK c, u : c = req[r].conn /\ u = req[r].user
      OBVIOUS
  <2>3. CASE UNCHANGED tables /\ req[r].at = "mark" /\ conns[c].status # "active"
             /\ (Goto(r, "clear") \/ End(r))
    <3>1. ConnectionAgrees(c)
        BY <2>1, <2>2, <2>3 DEF ConnectionAgrees, ConnectionIs
    <3>2. AllAgree
        BY <1>2, <2>2, <2>3, <3>1 DEF Between, AllAgree, UserDue
    <3>3. AllAgree'
        BY <2>3, <3>2, AgreeStays DEF AllAgree
    <3>4. CASE Goto(r, "clear")
      <4>1. req'[r].at = "clear"
          BY <1>3, <3>4 DEF Labels
      <4> QED BY <1>5, <3>3, <3>4, <4>1 DEF Between, AllAgree, Labels
    <3> QED BY <1>4, <2>3, <3>3, <3>4
  <2>4. ASSUME NEW status \in {"invalid", "deleted"},
               WriteConnection(req[r].conn, [conns[req[r].conn] EXCEPT !.status = status]),
               Goto(r, "clear")
        PROVE  After(r)'
    <3>1. PICK row : row = [conns[req[r].conn] EXCEPT !.status = status]
        OBVIOUS
    <3>2. /\ \A d \in ConnIds : ActiveCredentials(d)' = ActiveCredentials(d)
          /\ \A d \in ConnIds \ {c} : ConnectionAgrees(d) => ConnectionAgrees(d)'
          /\ \A v \in Users \ {u} : UserAgrees(v) => UserAgrees(v)'
      <4>1. WriteConnection(c, row)
          BY <2>2, <2>4, <3>1
      <4>2. conns \in [ConnIds -> Connection] /\ c \in ConnIds
          BY <1>1, <2>1, <2>2
      <4>3. conns[c].status = "none" \/ conns[c].user = u
          BY <2>1, <2>2
      <4> QED BY <4>1, <4>2, <4>3, OthersAgree
    <3>3. conns'[c].status = status
        BY <1>1, <2>1, <2>2, <2>4 DEF WriteConnection, Connection
    <3>4. ConnectionAgrees(c)'
        BY <2>1, <2>2, <3>2, <3>3 DEF ConnectionAgrees, ConnectionIs
    <3>5. req'[r].at = "clear" /\ req'[r].user = u
        BY <1>3, <2>2, <2>4 DEF Labels
    <3>6. Between(req[r])'
        BY <1>2, <2>1, <2>2, <3>2, <3>4, <3>5 DEF Between, ConnectionDue, UserDue
    <3> QED BY <1>5, <2>4, <3>6 DEF Labels
  <2>5. CASE DeleteErase(r)
      BY <2>4, <2>5 DEF DeleteErase
  <2>6. CASE Mark(r)
    <3>1. req[r].at = "mark"
        BY <2>6 DEF Mark, At
    <3> DEFINE row == [conns[req[r].conn] EXCEPT !.status = "invalid"]
    <3>2. CASE ~Marks(r)
        BY <2>2, <2>3, <2>6, <3>1, <3>2 DEF Mark, Marks, ConnectionIs
    <3>3. CASE Marks(r) /\ FitsIndexes(req[r].conn, row)
        BY <2>4, <2>6, <3>3 DEF Mark
    <3>4. CASE ~FitsIndexes(req[r].conn, row) /\ UNCHANGED tables /\ End(r)
      <4>1. row.status = "invalid" /\ row.account = conns[c].account
          BY <1>1, <2>1, <2>2 DEF Connection
      <4> HIDE DEF row
      <4>2. ~IsLive(c)
          BY <1>1, <2>1, <2>2, <3>4, <4>1 DEF FitsIndexes, TablesInv, OneLive, ConnectionIs
      <4> QED BY <2>3, <3>1, <3>4, <4>2 DEF IsLive, ConnectionIs
    <3> QED BY <2>6, <3>2, <3>3, <3>4 DEF Mark
  <2> QED BY <1>9, <2>5, <2>6
<1>10. CASE RetestConfirm(r)
  <2>1. /\ req[r].at = "confirm" /\ req[r].conn \in ConnIds
        /\ ActiveCredentials(req[r].conn) # {}
      BY <1>2, <1>10 DEF RetestConfirm, At, HasWhatItNeeds, WithoutConnection, Between
  <2>2. conns[req[r].conn].status = "active"
      BY <1>2, <2>1 DEF Between, ConnectionAgrees, ConnectionIs, ConnectionDue
  <2>3. [conns[req[r].conn] EXCEPT !.status = "active"] = conns[req[r].conn]
      BY <1>1, <2>1, <2>2 DEF Connection
  <2>4. UNCHANGED tables
      BY <1>1, <1>10, <2>1, <2>3 DEF RetestConfirm, WriteConnection, tables
  <2> QED BY <1>2, <1>10, <2>1, <2>4, AgreeRests DEF RetestConfirm, ConnectionDue, UserDue
<1>11. CASE VisitAllow(r) \/ Deny(r) \/ Clear(r)
  <2>1. req[r].at \in {"allow", "deny", "clear"} /\ req[r].user \in Users
      BY <1>2, <1>11 DEF VisitAllow, Deny, Clear, At, HasWhatItNeeds
  <2>0. PICK u : u = req[r].user
      OBVIOUS
  <2>2. /\ conns' = conns /\ creds' = creds
        /\ cache' = [cache EXCEPT ![u] = IF req[r].at = "clear" THEN None
                                      ELSE AccountOf[req[r].pat]]
      BY <1>11, <2>0 DEF VisitAllow, Deny, Clear, At, CacheDecision, ForgetDecisions
  <2>3. \A c \in ConnIds : ConnectionAgrees(c)'
      BY <1>2, <2>1, <2>2 DEF Between, ConnectionDue, ConnectionAgrees, ConnectionIs,
         ActiveCredentials
  <2>4. \A v \in Users \ {u} : UserAgrees(v)'
      BY <1>1, <1>2, <2>0, <2>1, <2>2 DEF Between, UserAgrees, ConnectionIs
  <2>5. UserAgrees(u)'
    <3>1. CASE req[r].at = "clear"
        BY <1>1, <2>1, <2>0, <2>2, <3>1 DEF UserAgrees
    <3>2. CASE req[r].at \in {"allow", "deny"}
      <4>1. PICK c : c = req[r].conn
          OBVIOUS
      <4>2. /\ c \in ConnIds /\ conns[c].user = u
            /\ \E k \in ActiveCredentials(c) : creds[k].pat = req[r].pat
            /\ ConnectionAgrees(c)
          BY <1>2, <2>0, <3>2, <4>1
          DEF HasWhatItNeeds, WithoutConnection, Between, ConnectionDue
      <4>3. conns[c].status = "active" /\ conns[c].account = AccountOf[req[r].pat]
          BY <4>2 DEF ConnectionAgrees, ConnectionIs
      <4>4. cache'[u] = AccountOf[req[r].pat]
          BY <1>1, <2>1, <2>0, <2>2, <3>2
      <4> QED BY <2>2, <4>2, <4>3, <4>4 DEF UserAgrees, ConnectionIs
    <3> QED BY <2>1, <3>1, <3>2
  <2>6. AllAgree'
      BY <2>3, <2>4, <2>5 DEF AllAgree
  <2>7. CASE Goto(r, "next")
    <3>1. req'[r].at = "next"
        BY <1>3, <2>7 DEF Labels
    <3> QED BY <1>5, <2>6, <2>7, <3>1 DEF Between, AllAgree, Labels
  <2> QED BY <1>4, <1>11, <2>6, <2>7 DEF VisitAllow, Deny, Clear, Proceed
<1> QED BY <1>6, <1>7, <1>8, <1>9, <1>10, <1>11


\* An entry that expires, or a change in GitLab, disturbs no agreement.
LEMMA AgreeOutside ==
    ASSUME IndInv, \/ UNCHANGED vars
                   \/ \E pat \in Pats : Revoke(pat)
                   \/ \E a \in Accounts : ChangeMembership(a)
                   \/ \E u \in Users : Expire(u)
    PROVE  /\ req' = req
           /\ AllAgree => AllAgree'
           /\ \A r \in Actors : Between(req[r]) => Between(req[r])'
<1>1. /\ req' = req /\ conns' = conns /\ creds' = creds
      /\ \A u \in Users : cache'[u] \in {cache[u], None}
  <2>1. CASE \E u \in Users : Expire(u)
      BY <2>1 DEF Expire, EntryExpires, ForgetDecisions, IndInv, TypeOK, TablesTypeOK
  <2>2. CASE ~\E u \in Users : Expire(u)
      BY <2>2 DEF Revoke, ChangeMembership, vars, tables
  <2> QED BY <2>1, <2>2
<1>2. /\ \A c \in ConnIds : /\ ActiveCredentials(c)' = ActiveCredentials(c)
                            /\ ConnectionAgrees(c) => ConnectionAgrees(c)'
      /\ \A u \in Users : UserAgrees(u) => UserAgrees(u)'
    BY <1>1 DEF ActiveCredentials, ConnectionAgrees, UserAgrees, ConnectionIs
<1>3. AllAgree => AllAgree'
    BY <1>2 DEF AllAgree
<1>4. \A r \in Actors : Between(req[r]) => Between(req[r])'
    BY <1>1, <1>2 DEF Between, ActiveCredentials
<1> QED BY <1>1, <1>3, <1>4

LEMMA AgreeStep == IndInv /\ AgreeInv /\ [Next]_vars => AgreeInv'
<1> SUFFICES ASSUME IndInv, AgreeInv, [Next]_vars, ~disturbed' PROVE AgreeInv'
    BY DEF AgreeInv
<1>0. req \in [Actors -> Request] /\ disturbed \in BOOLEAN
    BY DEF IndInv, TypeOK
<1>1. ASSUME NEW r \in Actors, ~disturbed,
             (Acts(r) /\ ~Overlapping') \/ (Abandon(r) /\ ~HalfDone(r))
      PROVE  AgreeInv'
  <2>1. StepOK(r)
      BY <1>1, ActorSteps
  <2>2. \A q \in Actors \ {r} : req'[q] = req[q]
      BY <1>0, <2>1 DEF StepOK
  <2>3. ~Busy(r) => Acts(r) /\ ~Overlapping' /\ Busy(r)'
    <3>1. ASSUME ~Busy(r)
          PROVE  ~Continue(r) /\ ~Abandon(r)
        BY <3>1 DEF Busy, Continue, SaveFind, SaveUpdate, SaveCreate, SaveLook, SaveStore,
           SaveReplace, DeleteRevoke, DeleteErase, RetestConfirm, VisitLookup, VisitAllow,
           SyncNext, SyncDone, ReadToken, Probe, Invalidate, Mark, Deny, Clear, At, Abandon
    <3>2. BeginRequest(r) \/ BeginSync(r) => Busy(r)'
        BY <1>0 DEF BeginRequest, BeginSave, BeginDelete, BeginRetest, BeginVisit, BeginSync,
           Begin, Busy
    <3> QED BY <1>1, <3>1, <3>2 DEF Acts
  <2>4. \A q \in Actors \ {r} : ~Busy(q)
      BY <1>1, <2>2, <2>3 DEF AgreeInv, Overlapping, Busy
  <2>5. After(r)
      BY <1>1, <2>4 DEF AgreeInv, After
  <2>6. After(r)'
    <3>1. CASE BeginRequest(r) \/ BeginSync(r) \/ (Abandon(r) /\ ~HalfDone(r))
        BY <2>1, <2>5, <3>1, BetweenReads DEF BeginRequest, BeginSave, BeginDelete,
           BeginRetest, BeginVisit, BeginSync, Abandon
    <3>2. CASE Continue(r)
        BY <2>1, <2>5, <3>2, BetweenReads, BetweenWrites DEF Continue, SaveFind, SaveLook,
           VisitLookup, SyncNext, SyncDone, ReadToken, Probe
    <3> QED BY <1>1, <3>1, <3>2 DEF Acts
  <2>7. \A q \in Actors \ {r} : ~Busy(q)'
      BY <2>2, <2>4 DEF Busy
  <2> QED BY <2>6, <2>7 DEF AgreeInv, After
<1>2. CASE \/ UNCHANGED vars
           \/ \E pat \in Pats : Revoke(pat)
           \/ \E a \in Accounts : ChangeMembership(a)
           \/ \E u \in Users : Expire(u)
  <2>1. ~disturbed
      BY <1>0, <1>2 DEF vars, history, Next, Step, HalfDone
  <2>2. /\ req' = req
        /\ AllAgree => AllAgree'
        /\ \A r \in Actors : Between(req[r]) => Between(req[r])'
      BY <1>2, AgreeOutside
  <2> QED BY <2>1, <2>2 DEF AgreeInv, Busy
<1>3. QED
  <2>1. CASE /\ \/ \E r \in Actors : Acts(r)
                \/ \E pat \in Pats : Revoke(pat)
                \/ \E a \in Accounts : ChangeMembership(a)
                \/ \E u \in Users : Expire(u)
             /\ disturbed' = (disturbed \/ Overlapping')
      BY <1>0, <1>1, <1>2, <2>1
  <2>2. CASE \E r \in Actors : Abandon(r) /\ disturbed' = (disturbed \/ HalfDone(r))
    <3>1. PICK r \in Actors : Abandon(r) /\ disturbed' = (disturbed \/ HalfDone(r))
        BY <2>2
    <3>2. ~disturbed /\ ~HalfDone(r)
        BY <3>1
    <3> QED BY <1>1, <3>1, <3>2
  <2> QED BY <1>2, <2>1, <2>2 DEF Next, Step, Acts, Actors

\* As long as requests come one by one and none stops half way, the tables agree
\* between them: a connection is active exactly if it has an active credential,
\* for its own account, and the cache knows only of accounts that are connected.
THEOREM TablesAgreeBetween == Spec => []TablesAgree
<1>1. Init => AgreeInv
  <2> SUFFICES ASSUME Init PROVE AgreeInv
      OBVIOUS
  <2>1. AllAgree
      BY DEF Init, TablesInit, AllAgree, ConnectionAgrees, UserAgrees, ActiveCredentials, ConnectionIs
  <2>2. \A r \in Actors : ~Busy(r)
      BY DEF Init, Busy, Idle
  <2> QED BY <2>1, <2>2 DEF AgreeInv
<1>2. AgreeInv => TablesAgree
    BY DEF AgreeInv, TablesAgree, AtRest, AllAgree, ConnectionAgrees, UserAgrees
<1> QED BY <1>1, <1>2, AgreeStep, Invariance, PTL DEF Spec
=============================================================================

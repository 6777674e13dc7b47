---------------------------- MODULE Credentials ----------------------------
(***************************************************************************)
(* The tables gitlab_connections, user_credentials and membership_caches,  *)
(* and the statements on them, for one GitLab instance and one of its      *)
(* projects.  An id whose status is "none" has not been inserted yet; ids  *)
(* are handed out in the order of created_at.                              *)
(*                                                                         *)
(* A PAT (personal access token) is a value that opens one GitLab account. *)
(* Sealing and opening it are left out: what is sealed for a connection is *)
(* what is opened.                                                         *)
(*                                                                         *)
(* A definition that follows a similar one such as InvalidateAll           *)
(* is what the code does; the one before it has a bug and is there to see  *)
(* that a property notices.                                                *)
(***************************************************************************)
EXTENDS Integers

CONSTANTS
    Users,      \* ReviewPulse users, all of whom enabled the project
    Accounts,   \* GitLab accounts: gitlab_user_id
    Pats,       \* personal access tokens
    AccountOf,  \* the account each of them opens
    ConnIds,    \* rows gitlab_connections may ever have
    CredIds,    \* rows user_credentials may ever have
    None        \* SQL NULL

ASSUME CredentialsAssumption ==
    /\ AccountOf \in [Pats -> Accounts]
    /\ ConnIds \subseteq Nat \ {0}
    /\ CredIds \subseteq Nat \ {0}
    /\ None \notin Users \cup Accounts \cup Pats \cup ConnIds \cup CredIds

VARIABLES
    conns,  \* gitlab_connections
    creds,  \* user_credentials
    cache   \* membership_caches: per user, the entry of the project

tables == <<conns, creds, cache>>

Connection == [user    : Users \cup {None},
               account : Accounts \cup {None},
               status  : {"none", "active", "invalid", "deleted"}]

Credential == [conn   : ConnIds \cup {None},
               pat    : Pats \cup {None},
               status : {"none", "active", "superseded", "invalid", "revoked"}]

TablesInit ==
    /\ conns = [c \in ConnIds |-> [user |-> None, account |-> None, status |-> "none"]]
    /\ creds = [k \in CredIds |-> [conn |-> None, pat |-> None, status |-> "none"]]
    /\ cache = [u \in Users |-> None]

TablesTypeOK ==
    /\ conns \in [ConnIds -> Connection]
    /\ creds \in [CredIds -> Credential]
    /\ cache \in [Users -> Accounts \cup {None}]

-----------------------------------------------------------------------------
(* gitlab_connections                                                      *)

ConnectionIs(c, S) == conns[c].status \in S

\* status in (active, invalid)
IsLive(c) == ConnectionIs(c, {"active", "invalid"})

LiveConnections(u) == {c \in ConnIds : conns[c].user = u /\ IsLive(c)}

\* Whether the two partial unique indexes accept row as connection c.
FitsIndexes(c, row) ==
    \A d \in ConnIds \ {c} :
        /\ row.status = "active" /\ ConnectionIs(d, {"active"})
             => conns[d].user # row.user
        /\ row.status \in {"active", "invalid"} /\ IsLive(d)
             => conns[d].account # row.account

WriteConnection(c, row) ==
    /\ FitsIndexes(c, row)
    /\ conns' = [conns EXCEPT ![c] = row]
    /\ UNCHANGED <<creds, cache>>

\* The next id, while there is one.
IsNextConnection(c) ==
    /\ ConnectionIs(c, {"none"})
    /\ \A d \in ConnIds : ConnectionIs(d, {"none"}) => c <= d

-----------------------------------------------------------------------------
(* user_credentials                                                        *)

\* The partial unique index leaves at most one.
ActiveCredentials(c) ==
    {k \in CredIds : creds[k].conn = c /\ creds[k].status = "active"}

IsNextCredential(k) ==
    /\ creds[k].status = "none"
    /\ \A l \in CredIds : creds[l].status = "none" => k <= l

\* Every active credential of c is superseded.
Superseded(c) ==
    [k \in CredIds |-> IF k \in ActiveCredentials(c)
                       THEN [creds[k] EXCEPT !.status = "superseded"]
                       ELSE creds[k]]

InsertCredential(table, c, pat) ==
    /\ \E k \in CredIds :
          /\ IsNextCredential(k)
          /\ creds' = [table EXCEPT ![k] = [conn |-> c, pat |-> pat, status |-> "active"]]
    /\ UNCHANGED <<conns, cache>>

\* storeCredential refuses a connection that has an active credential.
StoreCredential(c, pat) ==
    /\ ActiveCredentials(c) = {}
    /\ InsertCredential(creds, c, pat)

\* replaceCredential: lock, supersede and insert in one transaction.
ReplaceCredential(c, pat) == InsertCredential(Superseded(c), c, pat)

InvalidateAll(c, status) ==
    /\ creds' = [k \in CredIds |-> IF creds[k].conn = c
                                   THEN [creds[k] EXCEPT !.status = status]
                                   ELSE creds[k]]
    /\ UNCHANGED <<conns, cache>>

\* Whatever credential of c is active now gets the status of the reason.
InvalidateCredential(c, status) ==
    /\ creds' = [k \in CredIds |-> IF k \in ActiveCredentials(c)
                                   THEN [creds[k] EXCEPT !.status = status]
                                   ELSE creds[k]]
    /\ UNCHANGED <<conns, cache>>

-----------------------------------------------------------------------------
(* membership_caches.  An entry past expires_at is as good as none.        *)

CacheDecision(u, account) ==
    /\ cache' = [cache EXCEPT ![u] = account]
    /\ UNCHANGED <<conns, creds>>

ForgetDecisions(u) ==
    /\ cache' = [cache EXCEPT ![u] = None]
    /\ UNCHANGED <<conns, creds>>

EntryExpires(u) ==
    /\ cache[u] # None
    /\ ForgetDecisions(u)
=============================================================================

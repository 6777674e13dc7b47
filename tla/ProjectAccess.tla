--------------------------- MODULE ProjectAccess ---------------------------
(***************************************************************************)
(* What a user may see: the allowlist and the user's enables, the answers  *)
(* of GitLab and the cache that keeps them for a while.  Requests of the   *)
(* user, and an administrator's, run concurrently and await the database   *)
(* or GitLab between any two of their steps.                               *)
(*                                                                         *)
(* The module follows one user with one connection to one instance.  Rows  *)
(* of other users never meet his; his connection is replaced and deleted   *)
(* in Connections, and the jobs that a removal ends are those of           *)
(* SyncWorkers.  Of a synchronisation only the denials it caches are here. *)
(* removeInstance is left out: while a connection refers to the instance   *)
(* the database refuses the deletion, and the transaction changes nothing. *)
(***************************************************************************)
EXTENDS Integers, FiniteSets

CONSTANTS
    Projects,       \* projects of the instance: numbers, the order of listing
    Tasks,          \* requests that may be in progress
    AllowTtl,       \* MEMBERSHIP_CACHE_TTL_SECONDS, for an answer "allowed"
    DenyTtl,        \* MEMBERSHIP_CACHE_NEGATIVE_TTL_SECONDS, as configured
    SyncDenialTtl,  \* membershipDeniedTtlMs, for a denial met by a synchronisation
    Concurrency,    \* DEFAULT_PROBE_CONCURRENCY
    RequestTime,    \* bound: how long a request may take
    Opening,        \* the time at which the system starts
    Closing,        \* bound: the last moment looked at
    None

ASSUME AccessAssumption ==
    /\ Projects \subseteq Nat /\ IsFiniteSet(Projects) /\ IsFiniteSet(Tasks)
    /\ {AllowTtl, DenyTtl, SyncDenialTtl, Concurrency} \subseteq Nat \ {0}
    /\ {RequestTime, Opening, Closing} \subseteq Nat

VARIABLES
    now,            \* the time
    allowlist,      \* projects with a row in ReviewPulseProjectAllowlist
    enabled,        \* projects with a row of the user in UserProjectEnable
    cache,          \* the user's rows of MembershipCache
    active,         \* the connection's status is "active"
    credential,     \* the connection has an active credential
    readable,       \* GitLab: the projects the account may read
    accepted,       \* GitLab: the PAT is still good
    task,           \* the progress of each request
    lastReadable,   \* history: when each project was last readable
    lastHidden,     \* history: when each project was last not readable
    syncDenied,     \* history: when a synchronisation last cached a denial of it
    raced           \* history: removed while an enable was under way

tables == <<allowlist, enabled, cache, active, credential>>
gitlab == <<readable, accepted>>
history == <<lastReadable, lastHidden, syncDenied, raced>>
accessVars == <<now, tables, gitlab, task, history>>

Answers == {"none", "allowed", "denied", "unknown"}

CacheRow == [allowed : BOOLEAN, expires : Nat]

\* A request: what it was asked for, the rows it read, the projects it must
\* ask GitLab about, and what it knows of each.
Task == [kind    : {"none", "list", "enable", "disable", "remove"},
         at      : {"begin", "enables", "connection", "lookup", "token", "probe", "write",
                    "revoke", "mark", "clear", "upsert", "forget", "remove",
                    "shown", "count", "find", "create", "end"},
         since   : Nat,
         listed  : SUBSET Projects,
         enables : SUBSET Projects,
         asked   : SUBSET Projects,
         answer  : [Projects -> Answers]]

NoAnswers == [p \in Projects |-> "none"]

Idle == [kind |-> "none", at |-> "end", since |-> Opening, listed |-> {}, enables |-> {},
         asked |-> {}, answer |-> NoAnswers]

Busy(t) == task[t].kind # "none"
At(t, labels) == task[t].at \in labels

\* A request that has ended has given its answer, or the error.
Become(t, r) == task' = [task EXCEPT ![t] = IF r.at = "end" THEN Idle ELSE r]
Goto(t, label) == Become(t, [task[t] EXCEPT !.at = label])
Begin(t, kind, label, ps) ==
    /\ ~Busy(t)
    /\ task' = [task EXCEPT ![t] = [Idle EXCEPT !.kind = kind, !.at = label,
                                                !.since = now, !.listed = ps]]

LongAgo == 0 - AllowTtl - SyncDenialTtl - 2 * RequestTime

AccessInit ==
    /\ now = Opening
    /\ allowlist = Projects /\ enabled \in SUBSET Projects
    /\ cache = [p \in Projects |-> None]
    /\ active = TRUE /\ credential = TRUE
    /\ readable \in SUBSET Projects /\ accepted = TRUE
    /\ task = [t \in Tasks |-> Idle]
    /\ lastReadable = [p \in Projects |-> IF p \in readable THEN Opening ELSE LongAgo]
    /\ lastHidden = [p \in Projects |-> IF p \in readable THEN LongAgo ELSE Opening]
    /\ syncDenied = [p \in Projects |-> LongAgo]
    /\ raced = {}

-----------------------------------------------------------------------------
(* The membership cache                                                    *)

IsFreshAtExpiry(p) == cache[p] # None /\ cache[p].expires >= now      \* mutant

\* Only a row that has not expired counts.
IsFresh(p) == cache[p] # None /\ cache[p].expires > now

WriteCacheWithoutEnd(p, allowed) ==                                   \* mutant
    cache' = [cache EXCEPT ![p] = [allowed |-> allowed,
                                   expires |-> IF allowed THEN now + AllowTtl ELSE None]]

\* A denial is never kept longer than a grant, whatever is configured.
DenialTtl == IF DenyTtl < AllowTtl THEN DenyTtl ELSE AllowTtl

WriteCache(p, allowed) ==
    cache' = [cache EXCEPT ![p] = [allowed |-> allowed,
                                   expires |-> now + IF allowed THEN AllowTtl ELSE DenialTtl]]

Forget(ps) == cache' = [p \in Projects |-> IF p \in ps THEN None ELSE cache[p]]

-----------------------------------------------------------------------------
(* resolveVisibility                                                       *)

\* Where a request goes once every listed project has its answer: a listing
\* shows them, an enable stores its row if the project is visible.
Resolved(t, answer) ==
    IF task[t].kind = "list" THEN "shown"
    ELSE IF \A p \in task[t].listed : answer[p] = "allowed" THEN "upsert" ELSE "end"

Lookup(t) ==
    /\ At(t, {"lookup"})
    /\ LET fresh == {p \in task[t].listed : IsFresh(p)}
           answer == [p \in Projects |->
                        IF p \notin fresh THEN "none"
                        ELSE IF cache[p].allowed THEN "allowed" ELSE "denied"]
           asked == task[t].listed \ fresh
       IN  Become(t, [task[t] EXCEPT !.answer = answer, !.asked = asked,
                                     !.at = IF asked = {} THEN Resolved(t, answer)
                                            ELSE "token"])
    /\ UNCHANGED <<tables, history>>

\* resolveVisibility throws: a listing shows no project, an enable is refused.
Fail(t) == Goto(t, "end")

\* Without a credential nothing is asked and nothing cached.
GetAccessToken(t) ==
    /\ At(t, {"token"})
    /\ IF credential THEN Goto(t, "probe") ELSE Fail(t)
    /\ UNCHANGED <<tables, history>>

Unanswered(t) == {p \in task[t].asked : task[t].answer[p] = "none"}

\* The workers of mapWithConcurrency take the projects in order.
InFlight(t) ==
    {p \in Unanswered(t) : Cardinality({q \in Unanswered(t) : q < p}) < Concurrency}

Answered(t, p, verdict) ==
    task' = [task EXCEPT ![t].answer[p] = verdict,
                         ![t].at = IF Unanswered(t) = {p} THEN "write" ELSE @]

\* GitLab says 200, or 403 or 404 ...
Probe(t, p) ==
    /\ At(t, {"probe"}) /\ p \in InFlight(t)
    /\ accepted
    /\ Answered(t, p, IF p \in readable THEN "allowed" ELSE "denied")
    /\ UNCHANGED <<tables, history>>

\* ... or gives no answer for this project: it is not known ...
ProbeFails(t, p) ==
    /\ At(t, {"probe"}) /\ p \in InFlight(t)
    /\ Answered(t, p, "unknown")
    /\ UNCHANGED <<tables, history>>

\* ... or 401, which ends the batch whatever the others said.
ProbeRejected(t) ==
    /\ At(t, {"probe"})
    /\ ~accepted
    /\ Goto(t, "revoke")
    /\ UNCHANGED <<tables, history>>

\* The answers are cached one by one, once the whole batch has them; one that
\* is not known is not cached.
Write(t) ==
    /\ At(t, {"write"})
    /\ LET known == {p \in task[t].asked : task[t].answer[p] \in {"allowed", "denied"}}
       IN  \/ /\ known = {}
              /\ Become(t, [task[t] EXCEPT !.asked = {},
                                           !.at = Resolved(t, task[t].answer)])
              /\ UNCHANGED tables
           \/ \E next \in known :
                 /\ \A q \in known : next <= q
                 /\ WriteCache(next, task[t].answer[next] = "allowed")
                 /\ Become(t, [task[t] EXCEPT
                                 !.asked = known \ {next},
                                 !.at = IF known = {next} THEN Resolved(t, task[t].answer)
                                        ELSE @])
                 /\ UNCHANGED <<allowlist, enabled, active, credential>>
    /\ UNCHANGED history

\* handleGitLabUnauthorized: three writes; the request then fails.
Revoke(t) ==
    /\ At(t, {"revoke"})
    /\ credential' = FALSE
    /\ Goto(t, "mark")
    /\ UNCHANGED <<allowlist, enabled, cache, active, history>>

Mark(t) ==
    /\ At(t, {"mark"})
    /\ active' = FALSE
    /\ Goto(t, "clear")
    /\ UNCHANGED <<allowlist, enabled, cache, credential, history>>

Clear(t) ==
    /\ At(t, {"clear"})
    /\ Forget(Projects)
    /\ Fail(t)
    /\ UNCHANGED <<allowlist, enabled, active, credential, history>>

Resolve(t) ==
    \/ Lookup(t) \/ GetAccessToken(t)
    \/ \E p \in Projects : Probe(t, p) \/ ProbeFails(t, p)
    \/ ProbeRejected(t) \/ Write(t) \/ Revoke(t) \/ Mark(t) \/ Clear(t)

-----------------------------------------------------------------------------
(* listForUser, enable and disable                                         *)

\* A user without an active connection sees nothing.
BeginList(t) ==
    /\ active
    /\ Begin(t, "list", "begin", {})
    /\ UNCHANGED <<tables, history>>

ReadAllowlist(t) ==
    /\ At(t, {"begin"})
    /\ task' = [task EXCEPT ![t].listed = allowlist, ![t].at = "enables"]
    /\ UNCHANGED <<tables, history>>

ReadEnables(t) ==
    /\ At(t, {"enables"})
    /\ Become(t, [task[t] EXCEPT !.enables = enabled,
                                 !.at = IF task[t].listed = {} THEN "end" ELSE "lookup"])
    /\ UNCHANGED <<tables, history>>

\* authorizedProjectIds: enabled, visible, and no error.
Shown(t) == {p \in task[t].listed \cap task[t].enables : task[t].answer[p] = "allowed"}

\* A project that is not on the allowlist is refused at once.
BeginEnable(t, p) ==
    /\ p \in allowlist
    /\ Begin(t, "enable", "connection", {p})
    /\ UNCHANGED <<tables, history>>

FindConnection(t) ==
    /\ At(t, {"connection"})
    /\ Goto(t, IF active THEN "lookup" ELSE "end")
    /\ UNCHANGED <<tables, history>>

Upsert(t) ==
    /\ At(t, {"upsert"})
    /\ enabled' = enabled \cup task[t].listed
    /\ Goto(t, "end")
    /\ UNCHANGED <<allowlist, cache, active, credential, history>>

BeginDisable(t, p) ==
    /\ Begin(t, "disable", "forget", {p})
    /\ enabled' = enabled \ {p}
    /\ UNCHANGED <<allowlist, cache, active, credential, history>>

InvalidateUserProject(t) ==
    /\ At(t, {"forget"})
    /\ Forget(task[t].listed)
    /\ Goto(t, "end")
    /\ UNCHANGED <<allowlist, enabled, active, credential, history>>

-----------------------------------------------------------------------------
(* The administrator                                                       *)

AddProject(p) ==
    /\ p \notin allowlist
    /\ allowlist' = allowlist \cup {p}
    /\ UNCHANGED <<task, enabled, cache, active, credential, history>>

BeginRemove(t, p) ==
    /\ p \in allowlist
    /\ Begin(t, "remove", "remove", {p})
    /\ UNCHANGED <<tables, history>>

RemoveLeavingEnables(t) ==                                             \* mutant
    /\ At(t, {"remove"})
    /\ IF task[t].listed \subseteq allowlist
       THEN allowlist' = allowlist \ task[t].listed /\ Forget(task[t].listed)
       ELSE UNCHANGED <<allowlist, cache>>
    /\ Goto(t, "end")
    /\ UNCHANGED <<enabled, active, credential, history>>

\* One transaction.  It deletes the allowlist row last, and fails, having
\* changed nothing, if another administrator was first.
Remove(t) ==
    /\ At(t, {"remove"})
    /\ IF task[t].listed \subseteq allowlist
       THEN /\ allowlist' = allowlist \ task[t].listed
            /\ enabled' = enabled \ task[t].listed
            /\ Forget(task[t].listed)
            /\ raced' = raced \cup {p \in task[t].listed :
                           \E u \in Tasks : task[u].kind = "enable" /\ p \in task[u].listed}
       ELSE UNCHANGED <<allowlist, enabled, cache, raced>>
    /\ Goto(t, "end")
    /\ UNCHANGED <<active, credential, lastReadable, lastHidden, syncDenied>>

-----------------------------------------------------------------------------
(* GitLab and the time                                                     *)

Stamp(last, ps, at) == [p \in Projects |-> IF p \in ps THEN at ELSE last[p]]

\* The account joins or leaves a project.
ChangeMembership(p) ==
    /\ readable' = IF p \in readable THEN readable \ {p} ELSE readable \cup {p}
    /\ lastReadable' = Stamp(lastReadable, readable', now)
    /\ lastHidden' = Stamp(lastHidden, Projects \ readable', now)
    /\ UNCHANGED <<now, tables, accepted, task, syncDenied, raced>>

RevokePat ==
    /\ accepted
    /\ accepted' = FALSE
    /\ UNCHANGED <<now, tables, readable, task, history>>

\* denyMembership: a synchronisation for which the user is a candidate meets a
\* 403 or 404, and keeps the denial for a time of its own.
SyncDenies(p) ==
    /\ p \in allowlist \cap enabled /\ active /\ credential
    /\ accepted /\ p \notin readable
    /\ cache' = [cache EXCEPT ![p] = [allowed |-> FALSE, expires |-> now + SyncDenialTtl]]
    /\ syncDenied' = Stamp(syncDenied, {p}, now)
    /\ UNCHANGED <<now, allowlist, enabled, active, credential, gitlab, task,
                   lastReadable, lastHidden, raced>>

\* No request takes longer than RequestTime.
Tick ==
    /\ now < Closing
    /\ \A t \in Tasks : Busy(t) => now < task[t].since + RequestTime
    /\ now' = now + 1
    /\ lastReadable' = Stamp(lastReadable, readable, now + 1)
    /\ lastHidden' = Stamp(lastHidden, Projects \ readable, now + 1)
    /\ UNCHANGED <<tables, gitlab, task, syncDenied, raced>>

-----------------------------------------------------------------------------
\* A step of a request, but for what is done with the projects shown.
AccessStep(t) ==
    /\ \/ BeginList(t) \/ ReadAllowlist(t) \/ ReadEnables(t)
       \/ \E p \in Projects : BeginEnable(t, p) \/ BeginDisable(t, p) \/ BeginRemove(t, p)
       \/ FindConnection(t) \/ Resolve(t) \/ Upsert(t) \/ InvalidateUserProject(t)
       \/ Remove(t)
    /\ UNCHANGED <<now, gitlab>>

AccessEnvironment ==
    \/ \E p \in Projects : AddProject(p) /\ UNCHANGED <<now, gitlab>>
    \/ \E p \in Projects : ChangeMembership(p) \/ SyncDenies(p)
    \/ RevokePat
    \/ Tick

-----------------------------------------------------------------------------
(* Properties                                                              *)

\* Every row and every request is of the kind the code gives it.
AccessTypeOK ==
    /\ now \in Nat
    /\ {allowlist, enabled, readable, raced} \subseteq SUBSET Projects
    /\ cache \in [Projects -> {None} \cup CacheRow]
    /\ {active, credential, accepted} \subseteq BOOLEAN
    /\ task \in [Tasks -> Task]
    /\ {lastReadable, lastHidden, syncDenied} \subseteq [Projects -> Int]

\* The labels at which a request acts on the answers it has.
Acting == {"upsert", "shown", "count", "find", "create"}

\* Nothing is shown, enabled or counted for a user who could not read the
\* project at some moment of the last AllowTtl and two requests (the one that
\* cached the answer and the one that uses it); and nothing is withheld as
\* denied from a user who has had access for DenialTtl and two requests, unless a
\* synchronisation met a denial less than SyncDenialTtl and a request ago.  It is
\* about the batch that waits for its slowest answer before caching the first,
\* about answers that arrive after access was withdrawn or given, about the two
\* writers of the cache overtaking each other, and about a project that gives no
\* answer: listForUser, resolveVisibility and the cache.
WithheldByRequest(p) == lastHidden[p] + DenialTtl + 2 * RequestTime > now
WithheldBySync(p) == syncDenied[p] + SyncDenialTtl + RequestTime > now

VerdictsAreRecent ==
    \A t \in Tasks : At(t, Acting) =>
        \A p \in task[t].listed :
            /\ task[t].answer[p] = "allowed" =>
                   lastReadable[p] + AllowTtl + 2 * RequestTime > now
            /\ task[t].answer[p] = "denied" => WithheldByRequest(p) \/ WithheldBySync(p)

\* A denial is kept for the negative TTL and no longer, so that a user who gets
\* access back is not kept out for as long as a grant would last:
\* membership-cache-config.ts and the runbook.
DenialsAreBrief ==
    \A t \in Tasks : At(t, Acting) =>
        \A p \in task[t].listed : task[t].answer[p] = "denied" => WithheldByRequest(p)

\* A project that is off the allowlist has no enable left, so that adding it
\* again does not open it by itself, unless an enable was under way when it
\* was removed: enable and removeProject.
StrandedOnlyByRace == enabled \ allowlist \subseteq raced
=============================================================================

------------------------------ MODULE JobQueue ------------------------------
(***************************************************************************)
(* The sync_jobs table and the operations PostgresJobQueue and             *)
(* SyncScheduler perform on it.  A row is a record; an id whose status is  *)
(* "none" has not been inserted yet.  Ids stand for the pair (created_at,  *)
(* id) that breaks ties in the claim order, so they are handed out in      *)
(* increasing order.                                                       *)
(*                                                                         *)
(* One SQL statement is one step.  The two operations that need two        *)
(* statements (look for an active job, then insert one) are two steps      *)
(* under the transaction-scoped advisory lock of their project.            *)
(*                                                                         *)
(* A definition that follows a similar one with a name such as NotLocked,  *)
(* OwnedByAnyone or OneRetryTooMany is what the code does; the one before  *)
(* it is the same statement with a bug, used to see that a property        *)
(* notices.                                                                *)
(*                                                                         *)
(* The operators below say what happens to the table; the module           *)
(* SyncWorkers says who calls them and when.                               *)
(***************************************************************************)
EXTENDS Integers

CONSTANTS
    JobIds,         \* ids of rows that may ever be inserted
    Projects,       \* (gitlab_instance_id, gitlab_project_id) pairs
    Workers,        \* values of workerId
    Clients,        \* callers of JobQueue.enqueue
    None,           \* SQL NULL, and "no job" in a worker's hands
    MaxAttempts,    \* MAX_SYNC_JOB_ATTEMPTS
    Stale,          \* staleClaimSeconds, in clock ticks
    Interval        \* intervalSeconds of the scheduler, in clock ticks

ASSUME QueueAssumption ==
    /\ JobIds \subseteq Nat
    /\ MaxAttempts \in Nat \ {0}
    /\ Stale \in Nat \ {0}
    /\ Interval \in Nat \ {0}
    /\ Workers \cap Clients = {}
    /\ None \notin Workers \cup Clients \cup Projects \cup Int

VARIABLES
    clock,      \* the time the database and the workers read
    jobs,       \* the sync_jobs table
    inserting   \* per project: the transactions that hold its advisory lock,
                \* have found no active job, and have not committed yet

queueVars == <<jobs, inserting>>

Statuses == {"none", "pending", "running", "completed", "failed", "sync_blocked"}
Terminal == {"completed", "failed", "sync_blocked"}
Active == {"pending", "running"}

\* The columns the program branches on.  runAfter is kept for pending rows and
\* updatedAt for terminal ones: no query reads them of any other row, and they
\* are 0 elsewhere.
Row == [status    : Statuses,
        project   : Projects \cup {None},
        attempts  : Nat,
        runAfter  : Int,
        claimedBy : Workers \cup {None},
        claimedAt : Int \cup {None},
        updatedAt : Int]

NoRow == [status |-> "none", project |-> None, attempts |-> 0, runAfter |-> 0,
          claimedBy |-> None, claimedAt |-> None, updatedAt |-> 0]

QueueInit ==
    /\ clock = 0
    /\ jobs = [j \in JobIds |-> NoRow]
    /\ inserting = [p \in Projects |-> {}]

HasStatus(j, S) == jobs[j].status \in S
JobsOf(p, S) == {j \in JobIds : jobs[j].project = p /\ HasStatus(j, S)}

-----------------------------------------------------------------------------
(* enqueue and scheduleTarget: check, then insert, under the lock.         *)

NotLocked(p) == TRUE

\* No transaction holds the advisory lock of p.
LockFree(p) == inserting[p] = {}

\* The transaction of session s found no active job of p and will insert one.
BeginInsert(s, p) ==
    /\ LockFree(p)
    /\ JobsOf(p, Active) = {}
    /\ inserting' = [inserting EXCEPT ![p] = @ \cup {s}]

\* The transaction finds an active job: the request coalesces with it.
Coalesces(p) == LockFree(p) /\ JobsOf(p, Active) # {}

IsFresh(j) ==
    /\ HasStatus(j, {"none"})
    /\ \A k \in JobIds : HasStatus(k, {"none"}) => j <= k

\* A new row: what the insert leaves out takes the column default.
NewJob(p, runAfter) ==
    [status |-> "pending", project |-> p, attempts |-> 0, runAfter |-> runAfter,
     claimedBy |-> None, claimedAt |-> None, updatedAt |-> 0]

\* Inserts the row and commits, which releases the lock.
InsertJob(s, p, runAfter) ==
    /\ s \in inserting[p]
    /\ inserting' = [inserting EXCEPT ![p] = @ \ {s}]
    /\ \E j \in JobIds :
          /\ IsFresh(j)
          /\ jobs' = [jobs EXCEPT ![j] = NewJob(p, runAfter)]

DueAfterCompleted(p, now) ==
    {now} \cup {jobs[j].updatedAt + Interval : j \in JobsOf(p, {"completed"})}

\* scheduleTarget runs the job at the latest of these: now, and one interval
\* after the last time a job of p ended, however it ended.
DueTimes(p, now) ==
    {now} \cup {jobs[j].updatedAt + Interval : j \in JobsOf(p, Terminal)}

InsertWhenDue(s, p, now) ==
    \E t \in DueTimes(p, now) :
        /\ \A u \in DueTimes(p, now) : u <= t
        /\ InsertJob(s, p, t)

-----------------------------------------------------------------------------
(* claim: one statement picks the first due row and marks it running.      *)

Claimable(j) ==
    /\ HasStatus(j, {"pending"})
    /\ jobs[j].attempts < MaxAttempts
    /\ jobs[j].runAfter <= clock

Precedes(i, j) ==
    \/ jobs[i].runAfter < jobs[j].runAfter
    \/ jobs[i].runAfter = jobs[j].runAfter /\ i <= j

ClaimedRow(row, w) ==
    [status |-> "running", project |-> row.project, attempts |-> row.attempts + 1,
     runAfter |-> 0, claimedBy |-> w, claimedAt |-> clock, updatedAt |-> 0]

Claim(w, j) ==
    /\ Claimable(j)
    /\ \A k \in JobIds : Claimable(k) => Precedes(j, k)
    /\ jobs' = [jobs EXCEPT ![j] = ClaimedRow(@, w)]

NothingToClaim == \A j \in JobIds : ~Claimable(j)

-----------------------------------------------------------------------------
(* The statements a claim holder issues.  Each names the row by id and by  *)
(* the claim, and changes nothing when the claim is gone.                  *)

OwnedByAnyone(j, w) == HasStatus(j, {"running"})
Owned(j, w) == HasStatus(j, {"running"}) /\ jobs[j].claimedBy = w

Released(row, status) == [row EXCEPT !.status = status,
                                     !.claimedBy = None,
                                     !.claimedAt = None]
Ended(row, status) == [Released(row, status) EXCEPT !.runAfter = 0,
                                                    !.updatedAt = clock]

UpdateOwned(j, w, row) == jobs' = IF Owned(j, w) THEN [jobs EXCEPT ![j] = row] ELSE jobs

Complete(j, w) == UpdateOwned(j, w, Ended(jobs[j], "completed"))
SyncBlocked(j, w) == UpdateOwned(j, w, Ended(jobs[j], "sync_blocked"))

\* attempts < MAX_SYNC_JOB_ATTEMPTS, in fail and in recoverStaleClaims.
OneRetryTooMany(row) == row.attempts <= MaxAttempts
CanRetry(row) == row.attempts < MaxAttempts

\* fail with a retry time: back to pending while attempts remain.
FailRetry(j, w, retryAt) ==
    UpdateOwned(j, w, IF CanRetry(jobs[j])
                      THEN [Released(jobs[j], "pending") EXCEPT !.runAfter = retryAt]
                      ELSE Ended(jobs[j], "failed"))
FailFinally(j, w) == UpdateOwned(j, w, Ended(jobs[j], "failed"))

RescheduleKeepingAttempt(j, w, runAfter) ==
    UpdateOwned(j, w, [Released(jobs[j], "pending") EXCEPT !.runAfter = runAfter])

\* A paused sync gives its attempt back: attempts = GREATEST(attempts - 1, 0).
Reschedule(j, w, runAfter) ==
    UpdateOwned(j, w, [Released(jobs[j], "pending")
                          EXCEPT !.runAfter = runAfter,
                                 !.attempts = IF @ > 0 THEN @ - 1 ELSE 0])

HeartbeatForgotten(j, w, at) == UpdateOwned(j, w, jobs[j])
Heartbeat(j, w, at) == UpdateOwned(j, w, [jobs[j] EXCEPT !.claimedAt = at])

-----------------------------------------------------------------------------
(* recoverStaleClaims: one statement over every expired claim, whoever     *)
(* holds it.                                                               *)

ExpiredUnclaimed(j, now) == HasStatus(j, {"running"}) /\ jobs[j].claimedAt = None

ExpiredAtOnce(j, now) == HasStatus(j, {"running"}) /\ jobs[j].claimedAt <= now
Expired(j, now) ==
    /\ HasStatus(j, {"running"})
    /\ jobs[j].claimedAt = None \/ jobs[j].claimedAt < now - Stale

RecoverStaleClaims(now) ==
    jobs' = [j \in JobIds |->
                CASE ~Expired(j, now) -> jobs[j]
                  [] Expired(j, now) /\ CanRetry(jobs[j]) ->
                        [Released(jobs[j], "pending") EXCEPT !.runAfter = now]
                  [] Expired(j, now) /\ ~CanRetry(jobs[j]) -> Ended(jobs[j], "failed")]

BlockAllJobsOf(p) ==
    jobs' = [j \in JobIds |-> IF j \in JobsOf(p, Active \cup Terminal)
                              THEN Ended(jobs[j], "sync_blocked")
                              ELSE jobs[j]]

\* AllowlistAdmin.removeProject ends the active jobs of the project.
BlockJobsOf(p) ==
    jobs' = [j \in JobIds |-> IF j \in JobsOf(p, Active)
                              THEN Ended(jobs[j], "sync_blocked")
                              ELSE jobs[j]]
=============================================================================

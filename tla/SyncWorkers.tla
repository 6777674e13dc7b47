---------------------------- MODULE SyncWorkers ----------------------------
(***************************************************************************)
(* The worker processes (apps/worker) on top of the job queue: each runs   *)
(* runWorkerIteration forever - recover expired claims, schedule due       *)
(* targets, claim a job, execute it while a timer renews the claim, and    *)
(* settle it.  Around them: administrators and users who change what is    *)
(* to be synchronised, callers of enqueue, crashes and restarts.           *)
(***************************************************************************)
EXTENDS JobQueue, FiniteSets

CONSTANTS
    InitialDelay,   \* INITIAL_RETRY_DELAY_MS, in clock ticks
    MaxDelay,       \* MAX_RETRY_DELAY_MS, in clock ticks
    MaxClock        \* bound of the model: the clock stops here

ASSUME WorkerAssumption ==
    /\ InitialDelay \in Nat
    /\ MaxDelay \in Nat
    /\ MaxClock \in Nat

\* Arithmetic the provers do not know and TLC evaluates.
ASSUME PowersOfTwo == \A n \in 0..MaxAttempts : 2 ^ n \in Nat

VARIABLES
    allowlist,  \* reviewpulse_project_allowlist
    enabled,    \* projects an active user with an active connection enabled
    pc,         \* where each worker is in runWorkerIteration
    iterNow,    \* iterationNow of each worker
    todo,       \* targets a worker's schedule call has not handled yet
    unread,     \* the queries of schedule still to be answered
    held,       \* the job claim returned, while the worker works on it
    attempts,   \* job.attempts as claim returned it
    leaseLost,  \* the leaseLost flag of the iteration
    beat,       \* the heartbeat statement in flight
    leaseAt     \* history: the claim time the worker's claim last had

workerVars == <<pc, iterNow, todo, unread, held, attempts, leaseLost, beat, leaseAt>>
targetVars == <<allowlist, enabled>>
vars == <<clock, queueVars, targetVars, workerVars>>

\* The awaited queue call of each way an iteration settles its job.
Settling == {"complete", "pause", "block"}
Working == {"execute", "fail"} \cup Settling
PCs == {"start", "discover", "schedule", "down"} \cup Working

\* A heartbeat in flight: the job, the time it carries, and whether the
\* iteration that sent it is still there to hear the answer.
Beat == [job : JobIds, at : Int, live : BOOLEAN]

TypeOK ==
    /\ clock \in Nat
    /\ jobs \in [JobIds -> Row]
    /\ inserting \in [Projects -> SUBSET (Workers \cup Clients)]
    /\ allowlist \in SUBSET Projects
    /\ enabled \in SUBSET Projects
    /\ pc \in [Workers -> PCs]
    /\ iterNow \in [Workers -> Nat]
    /\ todo \in [Workers -> SUBSET Projects]
    /\ unread \in [Workers -> SUBSET {"enables", "allowlist"}]
    /\ held \in [Workers -> JobIds \cup {None}]
    /\ attempts \in [Workers -> Nat]
    /\ leaseLost \in [Workers -> BOOLEAN]
    /\ beat \in [Workers -> Beat \cup {None}]
    /\ leaseAt \in [Workers -> Int]

Init ==
    /\ QueueInit
    /\ allowlist = {}
    /\ enabled = {}
    /\ pc = [w \in Workers |-> "start"]
    /\ iterNow = [w \in Workers |-> 0]
    /\ todo = [w \in Workers |-> {}]
    /\ unread = [w \in Workers |-> {}]
    /\ held = [w \in Workers |-> None]
    /\ attempts = [w \in Workers |-> 0]
    /\ leaseLost = [w \in Workers |-> FALSE]
    /\ beat = [w \in Workers |-> None]
    /\ leaseAt = [w \in Workers |-> 0]

-----------------------------------------------------------------------------
(* Time, and the people around the workers.                                *)

Tick ==
    /\ clock < MaxClock
    /\ clock' = clock + 1
    /\ UNCHANGED <<queueVars, targetVars, workerVars>>

AddProject(p) ==
    /\ p \notin allowlist
    /\ allowlist' = allowlist \cup {p}
    /\ UNCHANGED <<clock, queueVars, enabled, workerVars>>

\* The upsert of enable; its allowlist check happened earlier and may be stale.
EnableProject(p) ==
    /\ enabled' = enabled \cup {p}
    /\ UNCHANGED <<clock, queueVars, allowlist, workerVars>>

\* The last enable goes, or the last enabling user or connection does.
DisableProject(p) ==
    /\ enabled' = enabled \ {p}
    /\ UNCHANGED <<clock, queueVars, allowlist, workerVars>>

\* AllowlistAdmin.removeProject, one transaction.
RemoveProject(p) ==
    /\ p \in allowlist
    /\ allowlist' = allowlist \ {p}
    /\ enabled' = enabled \ {p}
    /\ BlockJobsOf(p)
    /\ UNCHANGED <<clock, inserting, workerVars>>

\* With the table full there is no id left to insert: a bound of the model.
TableFull ==
    Cardinality({j \in JobIds : HasStatus(j, {"none"})})
        <= Cardinality({p \in Projects : inserting[p] # {}})

\* JobQueue.enqueue: the check and the insert of its transaction.
EnqueueCheck(c, p) ==
    /\ ~TableFull
    /\ \A q \in Projects : c \notin inserting[q]
    /\ BeginInsert(c, p)
    /\ UNCHANGED <<clock, jobs, targetVars, workerVars>>

EnqueueInsert(c, p) ==
    /\ InsertJob(c, p, clock)
    /\ UNCHANGED <<clock, targetVars, workerVars>>

-----------------------------------------------------------------------------
(* runWorkerIteration up to the claim.  iterationNow is set back to 0 once *)
(* nothing reads it any more, so that it tells no states apart.            *)

\* The iteration takes its time and recovers the claims expired by then.
StartIteration(w) ==
    /\ pc[w] = "start"
    /\ iterNow' = [iterNow EXCEPT ![w] = clock]
    /\ RecoverStaleClaims(clock)
    /\ pc' = [pc EXCEPT ![w] = "discover"]
    /\ todo' = [todo EXCEPT ![w] = Projects]
    /\ unread' = [unread EXCEPT ![w] = {"enables", "allowlist"}]
    /\ UNCHANGED <<clock, inserting, targetVars, held, attempts, leaseLost, beat, leaseAt>>

\* The two queries of schedule run in parallel and see different moments.
ReadTargets(w, query, found) ==
    /\ pc[w] = "discover"
    /\ query \in unread[w]
    /\ unread' = [unread EXCEPT ![w] = @ \ {query}]
    /\ todo' = [todo EXCEPT ![w] = @ \cap found]
    /\ pc' = [pc EXCEPT ![w] = IF unread[w] = {query} THEN "schedule" ELSE @]
    /\ UNCHANGED <<clock, queueVars, targetVars, iterNow, held, attempts,
                   leaseLost, beat, leaseAt>>

ReadEnables(w) == ReadTargets(w, "enables", enabled)
ReadAllowlist(w) == ReadTargets(w, "allowlist", allowlist)

InTransaction(w) == \E q \in Projects : w \in inserting[q]

CoalesceTarget(w, p) ==
    /\ pc[w] = "schedule"
    /\ ~InTransaction(w)
    /\ p \in todo[w]
    /\ Coalesces(p) \/ TableFull
    /\ todo' = [todo EXCEPT ![w] = @ \ {p}]
    /\ UNCHANGED <<clock, queueVars, targetVars, pc, iterNow, unread, held,
                   attempts, leaseLost, beat, leaseAt>>

CheckTarget(w, p) ==
    /\ pc[w] = "schedule"
    /\ ~InTransaction(w)
    /\ p \in todo[w]
    /\ ~TableFull
    /\ BeginInsert(w, p)
    /\ UNCHANGED <<clock, jobs, targetVars, workerVars>>

InsertTarget(w, p) ==
    /\ pc[w] = "schedule"
    /\ InsertWhenDue(w, p, iterNow[w])
    /\ todo' = [todo EXCEPT ![w] = @ \ {p}]
    /\ UNCHANGED <<clock, targetVars, pc, iterNow, unread, held, attempts,
                   leaseLost, beat, leaseAt>>

ReadyToClaim(w) == pc[w] = "schedule" /\ todo[w] = {}

ClaimJob(w, j) ==
    /\ ReadyToClaim(w)
    /\ Claim(w, j)
    /\ pc' = [pc EXCEPT ![w] = "execute"]
    /\ held' = [held EXCEPT ![w] = j]
    /\ attempts' = [attempts EXCEPT ![w] = jobs[j].attempts + 1]
    /\ leaseAt' = [leaseAt EXCEPT ![w] = clock]
    /\ iterNow' = [iterNow EXCEPT ![w] = 0]
    /\ UNCHANGED <<clock, inserting, targetVars, todo, unread, leaseLost, beat>>

\* The idle sleep ends some time later, with the next StartIteration.
ClaimNothing(w) ==
    /\ ReadyToClaim(w)
    /\ NothingToClaim
    /\ pc' = [pc EXCEPT ![w] = "start"]
    /\ iterNow' = [iterNow EXCEPT ![w] = 0]
    /\ UNCHANGED <<clock, queueVars, targetVars, todo, unread, held,
                   attempts, leaseLost, beat, leaseAt>>

-----------------------------------------------------------------------------
(* The heartbeat timer, from the claim until clearInterval.                *)

SendHeartbeatUncleared(w) ==
    /\ beat[w] = None
    /\ leaseAt[w] < clock
    /\ beat' = [beat EXCEPT ![w] = [job |-> held[w], at |-> clock, live |-> TRUE]]
    /\ UNCHANGED <<clock, queueVars, targetVars, pc, iterNow, todo, unread, held,
                   attempts, leaseLost, leaseAt>>

\* At most one heartbeat is in flight; a tick at least passes between two.
SendHeartbeat(w) ==
    /\ pc[w] \in Working
    /\ beat[w] = None
    /\ leaseAt[w] < clock
    /\ beat' = [beat EXCEPT ![w] = [job |-> held[w], at |-> clock, live |-> TRUE]]
    /\ UNCHANGED <<clock, queueVars, targetVars, pc, iterNow, todo, unread, held,
                   attempts, leaseLost, leaseAt>>

\* The statement runs and its answer is handled.  The answer to an iteration
\* that is over reaches nobody.
HeartbeatLands(w) ==
    /\ beat[w] # None
    /\ LET b == beat[w]
           owned == Owned(b.job, w)
       IN /\ Heartbeat(b.job, w, b.at)
          /\ leaseLost' = [leaseLost EXCEPT ![w] = @ \/ (b.live /\ ~owned)]
          /\ leaseAt' = [leaseAt EXCEPT ![w] = IF owned /\ held[w] = b.job
                                               THEN b.at ELSE @]
    /\ beat' = [beat EXCEPT ![w] = None]
    /\ UNCHANGED <<clock, inserting, targetVars, pc, iterNow, todo, unread, held, attempts>>

\* The call rejects, whether or not the statement ran: the worker gives the
\* lease up, and the row keeps its claim.
HeartbeatErrs(w) ==
    /\ beat[w] # None
    /\ LET b == beat[w]
       IN \/ Heartbeat(b.job, w, b.at)
             /\ leaseAt' = [leaseAt EXCEPT ![w] = IF Owned(b.job, w) /\ held[w] = b.job
                                                  THEN b.at ELSE @]
          \/ UNCHANGED <<jobs, leaseAt>>
    /\ leaseLost' = [leaseLost EXCEPT ![w] = @ \/ beat[w].live]
    /\ beat' = [beat EXCEPT ![w] = None]
    /\ UNCHANGED <<clock, inserting, targetVars, pc, iterNow, todo, unread, held, attempts>>

-----------------------------------------------------------------------------
(* The end of an execution.                                                *)

\* The iteration is over: its flags are gone, and the answer to a heartbeat
\* still in flight will find nobody.
Leave(w, next) ==
    /\ pc' = [pc EXCEPT ![w] = next]
    /\ held' = [held EXCEPT ![w] = None]
    /\ attempts' = [attempts EXCEPT ![w] = 0]
    /\ leaseLost' = [leaseLost EXCEPT ![w] = FALSE]
    /\ leaseAt' = [leaseAt EXCEPT ![w] = 0]
    /\ beat' = [beat EXCEPT ![w] = IF @ = None THEN None ELSE [@ EXCEPT !.live = FALSE]]

GoTo(w, next) ==
    /\ pc' = [pc EXCEPT ![w] = next]
    /\ UNCHANGED <<held, attempts, leaseLost, leaseAt, beat>>

HeartbeatAwaited(w) == beat[w] # None => ~beat[w].live

\* execute resolves; the worker first waits for the heartbeat in flight.
ExecuteReturns(w, next) ==
    /\ pc[w] = "execute"
    /\ HeartbeatAwaited(w)
    /\ IF leaseLost[w] THEN Leave(w, "start") ELSE GoTo(w, next)
    /\ UNCHANGED <<clock, queueVars, targetVars, iterNow, todo, unread>>

\* execute rejects: straight to the catch block, heartbeat or not.
ExecuteThrows(w) ==
    /\ pc[w] = "execute"
    /\ IF leaseLost[w] THEN Leave(w, "start") ELSE GoTo(w, "fail")
    /\ UNCHANGED <<clock, queueVars, targetVars, iterNow, todo, unread>>

SettleCall(w) ==
    \/ pc[w] = "complete" /\ Complete(held[w], w)
    \/ pc[w] = "pause" /\ Reschedule(held[w], w, clock)
    \/ pc[w] = "block" /\ SyncBlocked(held[w], w)

\* complete, reschedule or syncBlocked answers: done, or the claim was lost.
Settle(w) ==
    /\ SettleCall(w)
    /\ Leave(w, "start")
    /\ UNCHANGED <<clock, inserting, targetVars, iterNow, todo, unread>>

\* The call rejects, after or without its effect: the catch block again.
SettleErrs(w) ==
    /\ pc[w] \in Settling
    /\ SettleCall(w) \/ UNCHANGED jobs
    /\ IF leaseLost[w] THEN Leave(w, "start") ELSE GoTo(w, "fail")
    /\ UNCHANGED <<clock, inserting, targetVars, iterNow, todo, unread>>

retryDelay(attempt) ==
    LET doubled == InitialDelay * 2 ^ (attempt - 1)
    IN IF doubled < MaxDelay THEN doubled ELSE MaxDelay

\* The catch block: another try later, or the end after the last attempt.
Fail(w) ==
    /\ pc[w] = "fail"
    /\ IF attempts[w] >= MaxAttempts
       THEN FailFinally(held[w], w)
       ELSE FailRetry(held[w], w, clock + retryDelay(attempts[w]))
    /\ Leave(w, "start")
    /\ UNCHANGED <<clock, inserting, targetVars, iterNow, todo, unread>>

-----------------------------------------------------------------------------
(* The process dies: a signal, or a queue call outside the try block       *)
(* rejects (recover, schedule, claim, or fail itself), which ends main.    *)
(* The database rolls its open transaction back.                           *)

Crash(w) ==
    /\ pc[w] # "down"
    /\ Leave(w, "down")
    /\ inserting' = [p \in Projects |-> inserting[p] \ {w}]
    /\ todo' = [todo EXCEPT ![w] = {}]
    /\ unread' = [unread EXCEPT ![w] = {}]
    /\ iterNow' = [iterNow EXCEPT ![w] = 0]
    /\ UNCHANGED <<clock, jobs, targetVars>>

\* Restarted under the same workerId: the host and the pid may repeat.
Restart(w) ==
    /\ pc[w] = "down"
    /\ pc' = [pc EXCEPT ![w] = "start"]
    /\ UNCHANGED <<clock, queueVars, targetVars, iterNow, todo, unread, held,
                   attempts, leaseLost, beat, leaseAt>>

-----------------------------------------------------------------------------

\* What a worker that is up goes on doing, one await after another.
Proceed(w) ==
    \/ StartIteration(w)
    \/ ReadEnables(w)
    \/ ReadAllowlist(w)
    \/ \E p \in Projects : CoalesceTarget(w, p) \/ CheckTarget(w, p) \/ InsertTarget(w, p)
    \/ \E j \in JobIds : ClaimJob(w, j)
    \/ ClaimNothing(w)
    \/ Settle(w)
    \/ SettleErrs(w)
    \/ Fail(w)

EndExecution(w) == ExecuteThrows(w) \/ \E next \in Settling : ExecuteReturns(w, next)
AnswerHeartbeat(w) == HeartbeatLands(w) \/ HeartbeatErrs(w)

Environment(p) ==
    \/ AddProject(p)
    \/ EnableProject(p)
    \/ DisableProject(p)
    \/ RemoveProject(p)
    \/ \E c \in Clients : EnqueueCheck(c, p) \/ EnqueueInsert(c, p)

Next ==
    \/ Tick
    \/ \E p \in Projects : Environment(p)
    \/ \E w \in Workers :
          \/ Proceed(w)
          \/ EndExecution(w)
          \/ SendHeartbeat(w)
          \/ AnswerHeartbeat(w)
          \/ Crash(w)
          \/ Restart(w)

Spec == Init /\ [][Next]_vars

\* Awaited calls are answered (the database and the sync budget see to it), a
\* process that died is started again, and from some time on none dies.
Fairness ==
    /\ WF_vars(Tick)
    /\ \A c \in Clients, p \in Projects : WF_vars(EnqueueInsert(c, p))
    /\ \A w \in Workers :
          /\ WF_vars(Proceed(w))
          /\ WF_vars(EndExecution(w))
          /\ WF_vars(AnswerHeartbeat(w))
          /\ WF_vars(Restart(w))
    /\ <>[][\A w \in Workers : ~Crash(w)]_vars

FairSpec == Spec /\ Fairness

-----------------------------------------------------------------------------
(* Correctness.                                                            *)

\* A project never has two active jobs, however schedulers and enqueue calls
\* of several processes interleave their check and their insert.  The table
\* has no unique index to enforce it: the advisory lock must.
AtMostOneActiveJob ==
    \A i, j \in JobIds :
        /\ HasStatus(i, Active)
        /\ HasStatus(j, Active)
        /\ jobs[i].project = jobs[j].project
        => i = j

\* A pending job can still be claimed, a claim has used one to MaxAttempts
\* attempts, and a job is given up only with all of them used: no order of
\* claims, pauses, failures and recoveries makes a pending row nobody may
\* claim, which would coalesce every later request for its project for ever.
AttemptBudget ==
    \A j \in JobIds :
        /\ HasStatus(j, {"pending"}) => jobs[j].attempts < MaxAttempts
        /\ HasStatus(j, {"running"}) => jobs[j].attempts \in 1..MaxAttempts
        /\ HasStatus(j, {"failed"}) => jobs[j].attempts = MaxAttempts

\* Executing, or about to settle.  (After a settle call that failed the worker
\* is in its catch block, and the call may have given the claim back.)
Syncing(w) == pc[w] \in {"execute"} \cup Settling
LeaseFresh(w) == clock <= leaseAt[w] + Stale

\* A worker that syncs within Stale of the claim time it last had still holds
\* the claim, unless an administrator removed its project: whatever other
\* workers recover, settle or claim meanwhile, and whatever heartbeat of an
\* earlier iteration lands late.
LeaseHolds ==
    \A w \in Workers :
        Syncing(w) /\ LeaseFresh(w) =>
            Owned(held[w], w) \/ HasStatus(held[w], {"sync_blocked"})

\* Two workers that sync the same project under fresh leases: at least one of
\* them runs a job that removeProject ended under it.
NoDoubleSync ==
    \A v, w \in Workers :
        /\ v # w
        /\ Syncing(v) /\ LeaseFresh(v)
        /\ Syncing(w) /\ LeaseFresh(w)
        /\ jobs[held[v]].project = jobs[held[w]].project
        => \E x \in {v, w} : HasStatus(held[x], {"sync_blocked"})

\* A job that ended stays as it ended: no late settle call, heartbeat,
\* recovery or removal reaches it.
TerminalIsFinal ==
    [][\A j \in JobIds : HasStatus(j, Terminal) => jobs'[j] = jobs[j]]_vars

\* A job is first claimed one Interval or more after every earlier job of its
\* project ended, however it ended and whichever scheduler inserted it.
\* (JobQueue.enqueue inserts at once.  Nothing in the repository calls it yet,
\* and the run that checks this has no Clients.)
SyncsAreSpaced ==
    [][\A j \in JobIds :
          HasStatus(j, {"pending"}) /\ jobs'[j].status = "running" =>
              \A k \in JobsOf(jobs[j].project, Terminal) :
                  jobs[k].updatedAt + Interval <= clock]_vars

\* The lease of each project, as ProjectLease describes it.
ActiveJob(p) == CHOOSE j \in JobIds : jobs[j].project = p /\ HasStatus(j, Active)

Holder(p) ==
    CASE JobsOf(p, Active) = {} -> "idle"
      [] JobsOf(p, {"pending"}) # {} -> "queued"
      [] OTHER -> jobs[ActiveJob(p)].claimedBy

RenewedAt(p) == IF JobsOf(p, {"running"}) = {} THEN 0 ELSE jobs[ActiveJob(p)].claimedAt

Lease == INSTANCE ProjectLease
    WITH holder <- [p \in Projects |-> Holder(p)],
         renewedAt <- [p \in Projects |-> RenewedAt(p)],
         busy <- [w \in Workers |-> IF pc[w] \in Working THEN jobs[held[w]].project
                                                         ELSE None]

\* No claim lasts for ever: whatever became of its worker - crashed, gone on
\* after a heartbeat error, or settled it with a call that failed - a claim
\* not renewed is over once it is old enough.  (Claims younger than Stale when
\* the bounded clock stops are left out.)
Outlived(j) == HasStatus(j, {"running"}) /\ jobs[j].claimedAt + Stale < MaxClock
ClaimsEnd == \A j \in JobIds : Outlived(j) ~> ~Outlived(j)

\* A project that stays on the allowlist and stays enabled is synchronised:
\* some job of it is claimed in the end.  (Left out: a job put off past the
\* time the bounded clock stops, and a table without room for a job.)
PutOff(p) == \E j \in JobsOf(p, {"pending"}) : jobs[j].runAfter > MaxClock
TargetsAreSynced ==
    \A p \in Projects :
        [](p \in allowlist \cap enabled) ~>
            JobsOf(p, {"running"} \cup Terminal) # {} \/ PutOff(p) \/ TableFull

\* The queue and its workers implement the lease: in particular only its
\* holder, its expiry or an administrator ends a claim.
ImplementsLease == Lease!Spec
=============================================================================

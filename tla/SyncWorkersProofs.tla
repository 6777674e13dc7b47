------------------------- MODULE SyncWorkersProofs -------------------------
(***************************************************************************)
(* Proofs about SyncWorkers, for every value of its constants.             *)
(*                                                                         *)
(* The inductive invariant IndInv adds to the properties what makes them   *)
(* inductive: a working worker holds a job and 1 to MaxAttempts attempts   *)
(* (HoldsWork), the advisory lock admits one transaction per project, and  *)
(* that one has found no active job (LockInv), and a worker that still     *)
(* owns its row remembers the row's attempts (RemembersAttempts).          *)
(***************************************************************************)
EXTENDS SyncWorkers, TLAPS

HoldsWork ==
    \A w \in Workers : pc[w] \in Working => held[w] \in JobIds /\ attempts[w] \in 1..MaxAttempts

LockInv ==
    \A p \in Projects :
        /\ \A s, t \in inserting[p] : s = t
        /\ inserting[p] # {} => JobsOf(p, Active) = {}

RemembersAttempts ==
    \A w \in Workers :
        pc[w] \in Working /\ Owned(held[w], w) => jobs[held[w]].attempts = attempts[w]

IndInv ==
    /\ TypeOK
    /\ HoldsWork
    /\ LockInv
    /\ AtMostOneActiveJob
    /\ AttemptBudget
    /\ RemembersAttempts

-----------------------------------------------------------------------------

LEMMA RetryDelayType ==
    \A n \in 1..MaxAttempts : retryDelay(n) \in Nat
  <1> TAKE n \in 1..MaxAttempts
  <1>1. n - 1 \in 0..MaxAttempts
    BY QueueAssumption
  <1>2. 2 ^ (n - 1) \in Nat
    BY <1>1, PowersOfTwo
  <1>3. ASSUME NEW x \in Nat PROVE InitialDelay * x \in Nat
    BY WorkerAssumption
  <1> QED
    BY <1>2, <1>3, WorkerAssumption DEF retryDelay

-----------------------------------------------------------------------------
(* Most steps only let active rows end, wait or be renewed.  TameRow says  *)
(* what they may make of a row, Tame that a step does nothing worse.       *)

RowBudget(row) ==
    /\ row.status = "pending" => row.attempts < MaxAttempts
    /\ row.status = "running" => row.attempts \in 1..MaxAttempts
    /\ row.status = "failed" => row.attempts = MaxAttempts

TameRow(old, new) ==
    /\ old.status \in Active
    /\ new \in Row
    /\ new.status # "none"
    /\ new.project = old.project
    /\ RowBudget(new)
    /\ new.status = "pending" => old.status = "running"
    /\ new.status = "running" => /\ old.status = "running"
                                 /\ new.claimedBy = old.claimedBy
                                 /\ new.claimedAt \in Int
                                 /\ new.attempts = old.attempts

Tame ==
    /\ jobs' \in [JobIds -> Row]
    /\ \A j \in JobIds : jobs'[j] = jobs[j] \/ TameRow(jobs[j], jobs'[j])

\* A step that keeps the workers it leaves working at the job they had.
SameWork ==
    \A w \in Workers :
        pc'[w] \in Working => /\ pc[w] \in Working
                              /\ held'[w] = held[w]
                              /\ attempts'[w] = attempts[w]

LEMMA TameKeepsJobInvs ==
    ASSUME IndInv, Tame, SameWork,
           inserting' \in [Projects -> SUBSET (Workers \cup Clients)],
           \A p \in Projects : inserting'[p] \subseteq inserting[p]
    PROVE  /\ HoldsWork'
           /\ LockInv'
           /\ AtMostOneActiveJob'
           /\ AttemptBudget'
           /\ RemembersAttempts'
  <1>1. \A j \in JobIds : HasStatus(j, Active)' =>
            HasStatus(j, Active) /\ jobs'[j].project = jobs[j].project
    BY DEF Tame, TameRow, HasStatus
  <1>2. \A j \in JobIds : jobs'[j].project = jobs[j].project
    BY DEF Tame, TameRow
  <1>3. HoldsWork'
    BY DEF IndInv, HoldsWork, SameWork
  <1>4. LockInv'
    <2> SUFFICES ASSUME NEW p \in Projects
                 PROVE  /\ \A s, t \in inserting'[p] : s = t
                        /\ inserting'[p] # {} => JobsOf(p, Active)' = {}
      BY DEF LockInv
    <2>1. \A s, t \in inserting'[p] : s = t
      BY DEF IndInv, LockInv
    <2>2. ASSUME inserting'[p] # {} PROVE JobsOf(p, Active)' = {}
      <3>1. JobsOf(p, Active) = {}
        BY <2>2 DEF IndInv, LockInv
      <3> QED BY <1>1, <3>1 DEF JobsOf
    <2> QED BY <2>1, <2>2
  <1>5. AtMostOneActiveJob'
    BY <1>1 DEF IndInv, AtMostOneActiveJob
  <1>6. AttemptBudget'
    <2> SUFFICES ASSUME NEW j \in JobIds PROVE RowBudget(jobs'[j])
      BY DEF AttemptBudget, RowBudget, HasStatus
    <2>1. RowBudget(jobs[j])
      BY DEF IndInv, AttemptBudget, RowBudget, HasStatus
    <2> QED BY <2>1 DEF Tame, TameRow
  <1>7. RemembersAttempts'
    <2> SUFFICES ASSUME NEW w \in Workers, pc'[w] \in Working, Owned(held[w], w)'
                 PROVE  jobs'[held'[w]].attempts = attempts'[w]
      BY DEF RemembersAttempts
    <2>1. pc[w] \in Working /\ held'[w] = held[w] /\ attempts'[w] = attempts[w]
      BY DEF SameWork
    <2>2. held[w] \in JobIds
      BY <2>1 DEF IndInv, HoldsWork
    <2>3. Owned(held[w], w) /\ jobs'[held[w]].attempts = jobs[held[w]].attempts
      BY <2>1, <2>2 DEF Owned, HasStatus, Tame, TameRow
    <2> QED BY <2>1, <2>3 DEF IndInv, RemembersAttempts
  <1> QED BY <1>3, <1>4, <1>5, <1>6, <1>7
-----------------------------------------------------------------------------
(* The statements of the queue are tame.                                   *)

LEMMA ReleasedType ==
    ASSUME NEW row \in Row, NEW status \in Statuses
    PROVE  Released(row, status) \in Row
  BY DEF Row, Released

LEMMA EndedType ==
    ASSUME NEW row \in Row, NEW status \in Statuses, clock \in Nat
    PROVE  Ended(row, status) \in Row
  <1>1. ASSUME NEW r \in Row, NEW t \in Int
        PROVE  [r EXCEPT !.runAfter = 0, !.updatedAt = t] \in Row
    <2>1. [r EXCEPT !.runAfter = 0] \in Row
      BY DEF Row
    <2>2. ASSUME NEW q \in Row PROVE [q EXCEPT !.updatedAt = t] \in Row
      BY DEF Row
    <2>3. [r EXCEPT !.runAfter = 0, !.updatedAt = t]
            = [[r EXCEPT !.runAfter = 0] EXCEPT !.updatedAt = t]
      OBVIOUS
    <2> QED BY <2>1, <2>2, <2>3
  <1>2. clock \in Int
    OBVIOUS
  <1> QED BY <1>1, <1>2, ReleasedType DEF Ended

LEMMA RequeuedType ==
    ASSUME NEW row \in Row, NEW status \in Statuses, NEW t \in Int
    PROVE  [Released(row, status) EXCEPT !.runAfter = t] \in Row
  <1>1. ASSUME NEW r \in Row PROVE [r EXCEPT !.runAfter = t] \in Row
    BY DEF Row
  <1> QED BY <1>1, ReleasedType

LEMMA ReleasedFields ==
    ASSUME NEW row \in Row, NEW status \in Statuses
    PROVE  /\ Released(row, status).status = status
           /\ Released(row, status).project = row.project
           /\ Released(row, status).attempts = row.attempts
           /\ Ended(row, status).status = status
           /\ Ended(row, status).project = row.project
           /\ Ended(row, status).attempts = row.attempts
  <1>1. /\ Released(row, status).status = status
        /\ Released(row, status).project = row.project
        /\ Released(row, status).attempts = row.attempts
    BY DEF Row, Released
  <1>2. ASSUME NEW r \in Row
        PROVE  /\ [r EXCEPT !.runAfter = 0, !.updatedAt = clock].status = r.status
               /\ [r EXCEPT !.runAfter = 0, !.updatedAt = clock].project = r.project
               /\ [r EXCEPT !.runAfter = 0, !.updatedAt = clock].attempts = r.attempts
    BY DEF Row
  <1>3. Released(row, status) \in Row
    BY ReleasedType
  <1> DEFINE r == Released(row, status)
  <1> HIDE DEF r
  <1>4. /\ Ended(row, status).status = r.status
        /\ Ended(row, status).project = r.project
        /\ Ended(row, status).attempts = r.attempts
    BY <1>2, <1>3 DEF Ended, r
  <1> QED BY <1>1, <1>4 DEF r

LEMMA EndedIsTame ==
    ASSUME TypeOK, NEW j \in JobIds, NEW status \in Terminal,
           HasStatus(j, Active),
           status = "failed" => jobs[j].attempts = MaxAttempts
    PROVE  TameRow(jobs[j], Ended(jobs[j], status))
  <1>1. jobs[j] \in Row /\ clock \in Nat
    BY DEF TypeOK
  <1>2. Ended(jobs[j], status) \in Row
    BY <1>1, EndedType DEF Terminal, Statuses
  <1>3. status \in Statuses
    BY DEF Terminal, Statuses
  <1> QED
    BY <1>1, <1>2, <1>3, ReleasedFields DEF TameRow, RowBudget, HasStatus, Terminal

LEMMA RequeuedIsTame ==
    ASSUME TypeOK, NEW j \in JobIds, NEW t \in Int,
           HasStatus(j, {"running"}), CanRetry(jobs[j])
    PROVE  TameRow(jobs[j], [Released(jobs[j], "pending") EXCEPT !.runAfter = t])
  <1>1. jobs[j] \in Row /\ clock \in Nat
    BY DEF TypeOK
  <1>2. [Released(jobs[j], "pending") EXCEPT !.runAfter = t] \in Row
    BY <1>1, RequeuedType DEF Statuses
  <1> QED
    BY <1>1, <1>2 DEF TameRow, Released, RowBudget, HasStatus, Row, CanRetry, Active

LEMMA UpdateIsTame ==
    ASSUME TypeOK, NEW j \in JobIds, NEW w \in Workers, NEW row,
           UpdateOwned(j, w, row),
           Owned(j, w) => TameRow(jobs[j], row)
    PROVE  Tame
  <1>1. CASE Owned(j, w)
    <2>1. row \in Row
      BY <1>1 DEF TameRow
    <2>2. jobs' = [jobs EXCEPT ![j] = row]
      BY <1>1 DEF UpdateOwned
    <2> QED BY <1>1, <2>1, <2>2 DEF TypeOK, Tame
  <1>2. CASE ~Owned(j, w)
    BY <1>2 DEF TypeOK, Tame, UpdateOwned
  <1> QED BY <1>1, <1>2

LEMMA OwnedIsActive ==
    ASSUME NEW j \in JobIds, NEW w \in Workers, Owned(j, w)
    PROVE  HasStatus(j, Active) /\ HasStatus(j, {"running"})
  BY DEF Owned, HasStatus, Active

LEMMA SettleIsTame ==
    ASSUME IndInv, NEW j \in JobIds, NEW w \in Workers
    PROVE  /\ Complete(j, w) => Tame
           /\ SyncBlocked(j, w) => Tame
           /\ \A t \in Int : Reschedule(j, w, t) => Tame
           /\ \A t \in Int : FailRetry(j, w, t) => Tame
           /\ \A t \in Int : Heartbeat(j, w, t) => Tame
           /\ (Owned(j, w) => jobs[j].attempts = MaxAttempts)
                => (FailFinally(j, w) => Tame)
  <1> USE OwnedIsActive
  <1>0. TypeOK /\ jobs[j] \in Row /\ clock \in Nat
    BY DEF IndInv, TypeOK
  <1>0a. HasStatus(j, {"running"}) => jobs[j].attempts \in 1..MaxAttempts
    BY DEF IndInv, AttemptBudget
  <1>1. Complete(j, w) => Tame
    <2> "completed" \in Terminal /\ "completed" # "failed"
      BY DEF Terminal
    <2> QED BY <1>0, EndedIsTame, UpdateIsTame DEF Complete
  <1>2. SyncBlocked(j, w) => Tame
    <2> "sync_blocked" \in Terminal /\ "sync_blocked" # "failed"
      BY DEF Terminal
    <2> QED BY <1>0, EndedIsTame, UpdateIsTame DEF SyncBlocked
  <1>3. ASSUME NEW t \in Int, Reschedule(j, w, t) PROVE Tame
    <2> DEFINE row == [Released(jobs[j], "pending")
                          EXCEPT !.runAfter = t,
                                 !.attempts = IF @ > 0 THEN @ - 1 ELSE 0]
    <2> DEFINE r == Released(jobs[j], "pending")
    <2>1. ASSUME Owned(j, w) PROVE TameRow(jobs[j], row)
      <3>1. r \in Row /\ r.project = jobs[j].project /\ r.attempts = jobs[j].attempts
        BY <1>0, ReleasedType, ReleasedFields DEF Statuses
      <3>2. r.status = "pending"
        BY <1>0, ReleasedFields DEF Statuses
      <3>3. jobs[j].attempts \in 1..MaxAttempts
        BY <1>0a, <2>1
      <3> HIDE DEF r
      <3>4. /\ row \in Row
            /\ row.status = "pending"
            /\ row.project = r.project
            /\ row.attempts = r.attempts - 1
        <4>1. row = [r EXCEPT !.runAfter = t, !.attempts = IF @ > 0 THEN @ - 1 ELSE 0]
          BY DEF r
        <4>2. r.attempts > 0 /\ r.attempts - 1 \in Nat
          BY <3>1, <3>3, QueueAssumption
        <4> HIDE DEF row
        <4> QED BY <3>1, <3>2, <4>1, <4>2 DEF Row
      <3> QED BY <2>1, <3>1, <3>3, <3>4, QueueAssumption DEF TameRow, RowBudget, HasStatus
    <2> HIDE DEF row
    <2>2. UpdateOwned(j, w, row)
      BY <1>3 DEF row, Reschedule
    <2> QED BY <1>0, <2>1, <2>2, UpdateIsTame
  <1>4. ASSUME NEW t \in Int, FailRetry(j, w, t) PROVE Tame
    <2> DEFINE row == IF CanRetry(jobs[j])
                      THEN [Released(jobs[j], "pending") EXCEPT !.runAfter = t]
                      ELSE Ended(jobs[j], "failed")
    <2>1. ASSUME Owned(j, w) PROVE TameRow(jobs[j], row)
      <3>1. CASE CanRetry(jobs[j])
        BY <1>0, <2>1, <3>1, RequeuedIsTame
      <3>2. CASE ~CanRetry(jobs[j])
        <4>1. jobs[j].attempts = MaxAttempts
          BY <1>0a, <2>1, <3>2, QueueAssumption DEF CanRetry
        <4> QED BY <1>0, <2>1, <3>2, <4>1, EndedIsTame DEF Terminal
      <3> QED BY <3>1, <3>2
    <2> HIDE DEF row
    <2>2. UpdateOwned(j, w, row)
      BY <1>4 DEF row, FailRetry
    <2> QED BY <1>0, <2>1, <2>2, UpdateIsTame
  <1>5. ASSUME NEW t \in Int, Heartbeat(j, w, t) PROVE Tame
    <2>1. ASSUME Owned(j, w) PROVE TameRow(jobs[j], [jobs[j] EXCEPT !.claimedAt = t])
      BY <1>0, <1>0a, <2>1 DEF TameRow, RowBudget, HasStatus, Row
    <2> QED BY <1>0, <1>5, <2>1, UpdateIsTame DEF Heartbeat
  <1>6. ASSUME Owned(j, w) => jobs[j].attempts = MaxAttempts, FailFinally(j, w)
        PROVE  Tame
    BY <1>0, <1>6, EndedIsTame, UpdateIsTame DEF FailFinally, Terminal
  <1> QED BY <1>1, <1>2, <1>3, <1>4, <1>5, <1>6

LEMMA RecoverIsTame ==
    ASSUME IndInv, NEW now \in Int, RecoverStaleClaims(now)
    PROVE  Tame
  <1>0. TypeOK /\ jobs \in [JobIds -> Row]
    BY DEF IndInv, TypeOK
  <1>1. ASSUME NEW j \in JobIds
        PROVE  jobs'[j] = jobs[j] \/ TameRow(jobs[j], jobs'[j])
    <2>1. CASE ~Expired(j, now)
      BY <2>1 DEF RecoverStaleClaims
    <2>2. CASE Expired(j, now) /\ CanRetry(jobs[j])
      <3>1. jobs'[j] = [Released(jobs[j], "pending") EXCEPT !.runAfter = now]
        BY <2>2 DEF RecoverStaleClaims
      <3> QED BY <1>0, <2>2, <3>1, RequeuedIsTame DEF Expired, HasStatus, Active
    <2>3. CASE Expired(j, now) /\ ~CanRetry(jobs[j])
      <3>1. jobs'[j] = Ended(jobs[j], "failed")
        BY <2>3 DEF RecoverStaleClaims
      <3>2. jobs[j].attempts = MaxAttempts
        BY <2>3, QueueAssumption DEF IndInv, AttemptBudget, Expired, CanRetry
      <3> QED BY <1>0, <2>3, <3>1, <3>2, EndedIsTame
              DEF Expired, HasStatus, Active, Terminal
    <2> QED BY <2>1, <2>2, <2>3
  <1>2. \A j \in JobIds : jobs'[j] \in Row
    BY <1>0, <1>1 DEF TameRow
  <1>3. jobs' = [j \in JobIds |-> jobs'[j]]
    BY DEF RecoverStaleClaims
  <1> QED BY <1>1, <1>2, <1>3 DEF Tame

LEMMA BlockIsTame ==
    ASSUME IndInv, NEW p \in Projects, BlockJobsOf(p)
    PROVE  Tame
  <1>0. TypeOK /\ jobs \in [JobIds -> Row]
    BY DEF IndInv, TypeOK
  <1>1. ASSUME NEW j \in JobIds
        PROVE  jobs'[j] = jobs[j] \/ TameRow(jobs[j], jobs'[j])
    <2>1. CASE j \in JobsOf(p, Active)
      <3>1. jobs'[j] = Ended(jobs[j], "sync_blocked") /\ HasStatus(j, Active)
        BY <2>1 DEF BlockJobsOf, JobsOf
      <3> QED BY <1>0, <3>1, EndedIsTame DEF Terminal
    <2>2. CASE j \notin JobsOf(p, Active)
      BY <2>2 DEF BlockJobsOf
    <2> QED BY <2>1, <2>2
  <1>2. \A j \in JobIds : jobs'[j] \in Row
    BY <1>0, <1>1 DEF TameRow
  <1>3. jobs' = [j \in JobIds |-> jobs'[j]]
    BY DEF BlockJobsOf
  <1> QED BY <1>1, <1>2, <1>3 DEF Tame
-----------------------------------------------------------------------------
(* Each action keeps IndInv.                                               *)

LEMMA TameStep ==
    ASSUME IndInv, TypeOK', Tame, SameWork,
           \A p \in Projects : inserting'[p] \subseteq inserting[p]
    PROVE  IndInv'
  BY TameKeepsJobInvs DEF IndInv, TypeOK

LEMMA SameJobsTame ==
    ASSUME IndInv, jobs' = jobs
    PROVE  Tame
  BY DEF IndInv, TypeOK, Tame

LEMMA EnvironmentSteps ==
    ASSUME IndInv, NEW p \in Projects
    PROVE  /\ Tick => IndInv'
           /\ AddProject(p) => IndInv'
           /\ EnableProject(p) => IndInv'
           /\ DisableProject(p) => IndInv'
           /\ RemoveProject(p) => IndInv'
  <1> USE DEF vars, queueVars, targetVars, workerVars, SameWork
  <1>0. TypeOK
    BY DEF IndInv
  <1>1. ASSUME Tick PROVE IndInv'
    <2>1. TypeOK' /\ SameWork /\ jobs' = jobs
      BY <1>0, <1>1 DEF Tick, TypeOK
    <2> QED BY <1>1, <2>1, SameJobsTame, TameStep DEF Tick
  <1>2. ASSUME AddProject(p) PROVE IndInv'
    <2>1. TypeOK' /\ SameWork /\ jobs' = jobs
      BY <1>0, <1>2 DEF AddProject, TypeOK
    <2> QED BY <1>2, <2>1, SameJobsTame, TameStep DEF AddProject
  <1>3. ASSUME EnableProject(p) PROVE IndInv'
    <2>1. TypeOK' /\ SameWork /\ jobs' = jobs
      BY <1>0, <1>3 DEF EnableProject, TypeOK
    <2> QED BY <1>3, <2>1, SameJobsTame, TameStep DEF EnableProject
  <1>4. ASSUME DisableProject(p) PROVE IndInv'
    <2>1. TypeOK' /\ SameWork /\ jobs' = jobs
      BY <1>0, <1>4 DEF DisableProject, TypeOK
    <2> QED BY <1>4, <2>1, SameJobsTame, TameStep DEF DisableProject
  <1>5. ASSUME RemoveProject(p) PROVE IndInv'
    <2>1. Tame
      BY <1>5, BlockIsTame DEF RemoveProject
    <2>2. TypeOK' /\ SameWork
      BY <1>0, <1>5, <2>1 DEF RemoveProject, TypeOK, Tame
    <2> QED BY <1>5, <2>1, <2>2, TameStep DEF RemoveProject
  <1> QED BY <1>1, <1>2, <1>3, <1>4, <1>5

\* Both transactions, by a worker and by an enqueue caller: the check.
LEMMA BeginInsertKeeps ==
    ASSUME IndInv, TypeOK', jobs' = jobs, SameWork,
           NEW s \in Workers \cup Clients, NEW p \in Projects, BeginInsert(s, p)
    PROVE  IndInv'
  <1>1. /\ inserting \in [Projects -> SUBSET (Workers \cup Clients)]
        /\ inserting' = [inserting EXCEPT ![p] = {s}]
    BY DEF IndInv, TypeOK, BeginInsert, LockFree
  <1>2. LockInv'
    BY <1>1 DEF IndInv, LockInv, BeginInsert, JobsOf, HasStatus
  <1>3. HoldsWork' /\ RemembersAttempts'
    BY DEF IndInv, HoldsWork, RemembersAttempts, SameWork, Owned, HasStatus
  <1>4. AtMostOneActiveJob' /\ AttemptBudget'
    BY DEF IndInv, AtMostOneActiveJob, AttemptBudget, HasStatus
  <1> QED BY <1>2, <1>3, <1>4 DEF IndInv

\* The insert: the lock's holder found no active job, and nobody else may
\* have inserted one since.
LEMMA InsertKeeps ==
    ASSUME IndInv, SameWork, NEW s, NEW p \in Projects, NEW t \in Int,
           InsertJob(s, p, t)
    PROVE  /\ jobs' \in [JobIds -> Row]
           /\ inserting' \in [Projects -> SUBSET (Workers \cup Clients)]
           /\ TypeOK' => IndInv'
  <1>0. TypeOK
    BY DEF IndInv
  <1> PICK j \in JobIds :
           /\ IsFresh(j)
           /\ jobs' = [jobs EXCEPT ![j] = NewJob(p, t)]
    BY DEF InsertJob
  <1> DEFINE row == NewJob(p, t)
  <1>1. /\ row \in Row
        /\ row.status = "pending" /\ row.project = p /\ row.attempts = 0
    BY DEF NewJob, Row, Statuses
  <1> HIDE DEF row
  <1>2. jobs' = [jobs EXCEPT ![j] = row] /\ jobs \in [JobIds -> Row]
    BY <1>0 DEF row, TypeOK
  <1>3. jobs' \in [JobIds -> Row]
    BY <1>1, <1>2
  <1>4. inserting' = [inserting EXCEPT ![p] = @ \ {s}] /\ s \in inserting[p]
    BY DEF InsertJob
  <1>5. inserting' \in [Projects -> SUBSET (Workers \cup Clients)]
    BY <1>0, <1>4 DEF TypeOK
  <1>6. JobsOf(p, Active) = {} /\ inserting'[p] = {}
    BY <1>0, <1>4 DEF IndInv, LockInv, TypeOK
  <1>7. \A i \in JobIds : i # j => jobs'[i] = jobs[i]
    BY <1>2
  <1>8. jobs'[j] = row
    BY <1>2
  <1>9. LockInv'
    <2> SUFFICES ASSUME NEW q \in Projects
                 PROVE  /\ \A u, v \in inserting'[q] : u = v
                        /\ inserting'[q] # {} => JobsOf(q, Active)' = {}
      BY DEF LockInv
    <2>1. CASE q = p
      BY <1>6, <2>1
    <2>2. CASE q # p
      <3>1. inserting'[q] = inserting[q]
        BY <1>0, <1>4, <2>2 DEF TypeOK
      <3>2. JobsOf(q, Active)' = JobsOf(q, Active)
        BY <1>1, <1>7, <1>8, <2>2 DEF JobsOf, HasStatus, IsFresh, Active
      <3> QED BY <3>1, <3>2 DEF IndInv, LockInv
    <2> QED BY <2>1, <2>2
  <1>10. AtMostOneActiveJob'
    <2> SUFFICES ASSUME NEW i \in JobIds, NEW k \in JobIds,
                        HasStatus(i, Active)', HasStatus(k, Active)',
                        jobs'[i].project = jobs'[k].project
                 PROVE  i = k
      BY DEF AtMostOneActiveJob
    <2>1. \A l \in JobIds : l # j /\ HasStatus(l, Active)' => jobs'[l].project # p
      BY <1>6, <1>7 DEF JobsOf, HasStatus
    <2>2. CASE i # j /\ k # j
      BY <1>7, <2>2 DEF IndInv, AtMostOneActiveJob, HasStatus
    <2>3. CASE i = j \/ k = j
      BY <1>1, <1>8, <2>1, <2>3
    <2> QED BY <2>2, <2>3
  <1>11. AttemptBudget'
    <2> SUFFICES ASSUME NEW i \in JobIds PROVE RowBudget(jobs'[i])
      BY DEF AttemptBudget, RowBudget, HasStatus
    <2>1. CASE i = j
      BY <1>1, <1>8, <2>1, QueueAssumption DEF RowBudget
    <2>2. CASE i # j
      BY <1>7, <2>2 DEF IndInv, AttemptBudget, RowBudget, HasStatus
    <2> QED BY <2>1, <2>2
  <1>12. HoldsWork'
    BY DEF IndInv, HoldsWork, SameWork
  <1>13. RemembersAttempts'
    <2> SUFFICES ASSUME NEW w \in Workers, pc'[w] \in Working, Owned(held[w], w)'
                 PROVE  jobs'[held'[w]].attempts = attempts'[w]
      BY DEF RemembersAttempts
    <2>1. pc[w] \in Working /\ held'[w] = held[w] /\ attempts'[w] = attempts[w]
          /\ held[w] \in JobIds
      BY DEF SameWork, IndInv, HoldsWork
    <2>2. held[w] # j
      BY <1>1, <1>8, <2>1 DEF Owned, HasStatus
    <2> QED BY <1>7, <2>1, <2>2 DEF IndInv, RemembersAttempts, Owned, HasStatus
  <1> QED BY <1>3, <1>5, <1>9, <1>10, <1>11, <1>12, <1>13 DEF IndInv

LEMMA EnqueueSteps ==
    ASSUME IndInv, NEW c \in Clients, NEW p \in Projects
    PROVE  /\ EnqueueCheck(c, p) => IndInv'
           /\ EnqueueInsert(c, p) => IndInv'
  <1> USE DEF queueVars, targetVars, workerVars
  <1>0. TypeOK /\ clock \in Int
    BY DEF IndInv, TypeOK
  <1>1. ASSUME EnqueueCheck(c, p) PROVE IndInv'
    <2>1. SameWork /\ jobs' = jobs /\ BeginInsert(c, p)
      BY <1>1 DEF EnqueueCheck, SameWork
    <2>2. TypeOK'
      BY <1>0, <1>1 DEF EnqueueCheck, BeginInsert, TypeOK
    <2> QED BY <2>1, <2>2, BeginInsertKeeps
  <1>2. ASSUME EnqueueInsert(c, p) PROVE IndInv'
    <2>1. SameWork /\ InsertJob(c, p, clock)
      BY <1>2 DEF EnqueueInsert, SameWork
    <2>2. /\ jobs' \in [JobIds -> Row]
          /\ inserting' \in [Projects -> SUBSET (Workers \cup Clients)]
          /\ TypeOK' => IndInv'
      BY <1>0, <2>1, InsertKeeps
    <2>3. TypeOK'
      BY <1>0, <1>2, <2>2 DEF EnqueueInsert, TypeOK
    <2> QED BY <2>2, <2>3
  <1> QED BY <1>1, <1>2

LEMMA IterationSteps ==
    ASSUME IndInv, NEW w \in Workers
    PROVE  /\ StartIteration(w) => IndInv'
           /\ ReadEnables(w) => IndInv'
           /\ ReadAllowlist(w) => IndInv'
           /\ ClaimNothing(w) => IndInv'
  <1> USE DEF queueVars, targetVars, workerVars
  <1>0. TypeOK
    BY DEF IndInv
  <1>a. {"start", "discover", "schedule", "down"} \subseteq PCs
        /\ {"start", "discover", "schedule", "down"} \cap Working = {}
    BY DEF PCs, Working, Settling
  <1>1. ASSUME StartIteration(w) PROVE IndInv'
    <2>1. Tame
      BY <1>0, <1>1, RecoverIsTame DEF StartIteration, TypeOK
    <2>2. TypeOK'
      BY <1>0, <1>a, <1>1, <2>1 DEF StartIteration, TypeOK, Tame
    <2>3. SameWork
      BY <1>0, <1>a, <1>1 DEF StartIteration, SameWork, TypeOK
    <2> QED BY <1>1, <2>1, <2>2, <2>3, TameStep DEF StartIteration
  <1>2. ASSUME NEW query \in {"enables", "allowlist"}, NEW found \in SUBSET Projects,
               ReadTargets(w, query, found)
        PROVE  IndInv'
    <2>1. TypeOK'
      BY <1>0, <1>a, <1>2 DEF ReadTargets, TypeOK
    <2>2. SameWork
      BY <1>0, <1>a, <1>2 DEF ReadTargets, SameWork, TypeOK
    <2> QED BY <1>2, <2>1, <2>2, SameJobsTame, TameStep DEF ReadTargets
  <1>3. ReadEnables(w) => IndInv'
    BY <1>0, <1>2 DEF ReadEnables, TypeOK
  <1>4. ReadAllowlist(w) => IndInv'
    BY <1>0, <1>2 DEF ReadAllowlist, TypeOK
  <1>5. ASSUME ClaimNothing(w) PROVE IndInv'
    <2>1. TypeOK'
      BY <1>0, <1>a, <1>5 DEF ClaimNothing, TypeOK
    <2>2. SameWork
      BY <1>0, <1>a, <1>5 DEF ClaimNothing, SameWork, TypeOK
    <2> QED BY <1>5, <2>1, <2>2, SameJobsTame, TameStep DEF ClaimNothing
  <1> QED BY <1>1, <1>3, <1>4, <1>5

LEMMA ScheduleSteps ==
    ASSUME IndInv, NEW w \in Workers, NEW p \in Projects
    PROVE  /\ CoalesceTarget(w, p) => IndInv'
           /\ CheckTarget(w, p) => IndInv'
           /\ InsertTarget(w, p) => IndInv'
  <1> USE DEF queueVars, targetVars, workerVars
  <1>0. TypeOK
    BY DEF IndInv
  <1>1. ASSUME CoalesceTarget(w, p) PROVE IndInv'
    <2>1. TypeOK' /\ SameWork
      BY <1>0, <1>1 DEF CoalesceTarget, TypeOK, SameWork
    <2> QED BY <1>1, <2>1, SameJobsTame, TameStep DEF CoalesceTarget
  <1>2. ASSUME CheckTarget(w, p) PROVE IndInv'
    <2>1. SameWork /\ jobs' = jobs /\ BeginInsert(w, p)
      BY <1>2 DEF CheckTarget, SameWork
    <2>2. TypeOK'
      BY <1>0, <1>2 DEF CheckTarget, BeginInsert, TypeOK
    <2> QED BY <2>1, <2>2, BeginInsertKeeps
  <1>3. ASSUME InsertTarget(w, p) PROVE IndInv'
    <2>1. SameWork
      BY <1>3 DEF InsertTarget, SameWork
    <2>2. PICK t \in DueTimes(p, iterNow[w]) : InsertJob(w, p, t)
      BY <1>3 DEF InsertTarget, InsertWhenDue
    <2>3. t \in Int
      BY <1>0, <2>2, QueueAssumption DEF DueTimes, JobsOf, TypeOK, Row
    <2>4. /\ jobs' \in [JobIds -> Row]
          /\ inserting' \in [Projects -> SUBSET (Workers \cup Clients)]
          /\ TypeOK' => IndInv'
      BY <2>1, <2>2, <2>3, InsertKeeps
    <2>5. TypeOK'
      BY <1>0, <1>3, <2>4 DEF InsertTarget, TypeOK
    <2> QED BY <2>4, <2>5
  <1> QED BY <1>1, <1>2, <1>3

LEMMA HeartbeatSteps ==
    ASSUME IndInv, NEW w \in Workers
    PROVE  /\ SendHeartbeat(w) => IndInv'
           /\ HeartbeatLands(w) => IndInv'
           /\ HeartbeatErrs(w) => IndInv'
  <1> USE DEF queueVars, targetVars, workerVars
  <1>0. TypeOK
    BY DEF IndInv
  <1>1. ASSUME SendHeartbeat(w) PROVE IndInv'
    <2>1. held[w] \in JobIds
      BY <1>1 DEF IndInv, HoldsWork, SendHeartbeat
    <2>2. [job |-> held[w], at |-> clock, live |-> TRUE] \in Beat
      BY <1>0, <2>1 DEF Beat, TypeOK
    <2>3. TypeOK' /\ SameWork
      BY <1>0, <1>1, <2>2 DEF SendHeartbeat, TypeOK, SameWork
    <2> QED BY <1>1, <2>3, SameJobsTame, TameStep DEF SendHeartbeat
  <1>2. ASSUME beat[w] # None
        PROVE  beat[w].job \in JobIds /\ beat[w].at \in Int /\ beat[w].live \in BOOLEAN
    BY <1>0, <1>2 DEF TypeOK, Beat
  <1>3. ASSUME HeartbeatLands(w) PROVE IndInv'
    <2>1. Tame
      BY <1>2, <1>3, SettleIsTame DEF HeartbeatLands
    <2>2. TypeOK' /\ SameWork
      BY <1>0, <1>2, <1>3, <2>1 DEF HeartbeatLands, TypeOK, SameWork, Tame
    <2> QED BY <1>3, <2>1, <2>2, TameStep DEF HeartbeatLands
  <1>4. ASSUME HeartbeatErrs(w) PROVE IndInv'
    <2>1. Tame
      BY <1>2, <1>4, SettleIsTame, SameJobsTame DEF HeartbeatErrs
    <2>2. TypeOK' /\ SameWork
      BY <1>0, <1>2, <1>4, <2>1 DEF HeartbeatErrs, TypeOK, SameWork, Tame
    <2> QED BY <1>4, <2>1, <2>2, TameStep DEF HeartbeatErrs
  <1> QED BY <1>1, <1>3, <1>4

\* The row claim returned is now w's, and only w's.
LEMMA ClaimStep ==
    ASSUME IndInv, NEW w \in Workers, NEW j \in JobIds, ClaimJob(w, j)
    PROVE  IndInv'
  <1> USE DEF queueVars, targetVars, workerVars
  <1>0. TypeOK /\ jobs[j] \in Row
    BY DEF IndInv, TypeOK
  <1> DEFINE row == ClaimedRow(jobs[j], w)
  <1>1. /\ row \in Row
        /\ row.status = "running"
        /\ row.project = jobs[j].project
        /\ row.attempts = jobs[j].attempts + 1
        /\ row.claimedBy = w
    BY <1>0 DEF Row, Statuses, TypeOK, ClaimedRow
  <1> HIDE DEF row
  <1>2. HasStatus(j, {"pending"}) /\ jobs[j].attempts + 1 \in 1..MaxAttempts
    BY <1>0, QueueAssumption DEF ClaimJob, Claim, Claimable, Row
  <1>2a. jobs' = [jobs EXCEPT ![j] = row]
    BY DEF ClaimJob, Claim, row
  <1>3. jobs'[j] = row /\ (\A i \in JobIds \ {j} : jobs'[i] = jobs[i])
    BY <1>0, <1>2a DEF TypeOK
  <1>4. pc[w] \notin Working /\ "execute" \in PCs /\ "execute" \in Working
    BY DEF ClaimJob, ReadyToClaim, Working, Settling, PCs
  <1>5. TypeOK'
    <2>1. jobs' \in [JobIds -> Row]
      BY <1>0, <1>1, <1>2a DEF TypeOK
    <2> QED BY <1>0, <1>2, <1>4, <2>1 DEF TypeOK, ClaimJob
  <1>6. /\ pc' = [pc EXCEPT ![w] = "execute"]
        /\ held' = [held EXCEPT ![w] = j]
        /\ attempts' = [attempts EXCEPT ![w] = jobs[j].attempts + 1]
        /\ inserting' = inserting
    BY DEF ClaimJob
  <1>7. HoldsWork'
    BY <1>0, <1>2, <1>6 DEF IndInv, HoldsWork, TypeOK
  <1>8. \A i \in JobIds : /\ HasStatus(i, Active)' <=> HasStatus(i, Active)
                          /\ jobs'[i].project = jobs[i].project
    BY <1>1, <1>2, <1>3 DEF HasStatus, Active
  <1>9. LockInv'
    BY <1>6, <1>8 DEF IndInv, LockInv, JobsOf
  <1>10. AtMostOneActiveJob'
    BY <1>8 DEF IndInv, AtMostOneActiveJob
  <1>11. AttemptBudget'
    <2> SUFFICES ASSUME NEW i \in JobIds PROVE RowBudget(jobs'[i])
      BY DEF AttemptBudget, RowBudget, HasStatus
    <2>1. CASE i = j
      BY <1>1, <1>2, <1>3, <2>1 DEF RowBudget
    <2>2. CASE i # j
      BY <1>3, <2>2 DEF IndInv, AttemptBudget, RowBudget, HasStatus
    <2> QED BY <2>1, <2>2
  <1>12. RemembersAttempts'
    <2> SUFFICES ASSUME NEW v \in Workers, pc'[v] \in Working, Owned(held[v], v)'
                 PROVE  jobs'[held'[v]].attempts = attempts'[v]
      BY DEF RemembersAttempts
    <2>1. CASE v = w
      BY <1>0, <1>1, <1>3, <1>6, <2>1 DEF TypeOK
    <2>2. CASE v # w
      <3>1. /\ pc[v] \in Working
            /\ held'[v] = held[v] /\ attempts'[v] = attempts[v] /\ held[v] \in JobIds
        BY <1>0, <1>6, <2>2 DEF TypeOK, IndInv, HoldsWork
      <3>2. held[v] # j
        BY <1>1, <1>3, <2>2, <3>1 DEF Owned
      <3> QED BY <1>3, <3>1, <3>2 DEF IndInv, RemembersAttempts, Owned, HasStatus
    <2> QED BY <2>1, <2>2
  <1> QED BY <1>5, <1>7, <1>9, <1>10, <1>11, <1>12 DEF IndInv

\* Leave and GoTo, whatever the queue did.
LEMMA LeaveKeeps ==
    ASSUME IndInv, NEW w \in Workers, NEW next \in {"start", "down"}, Leave(w, next)
    PROVE  /\ pc' \in [Workers -> PCs]
           /\ held' \in [Workers -> JobIds \cup {None}]
           /\ attempts' \in [Workers -> Nat]
           /\ leaseLost' \in [Workers -> BOOLEAN]
           /\ beat' \in [Workers -> Beat \cup {None}]
           /\ leaseAt' \in [Workers -> Int]
           /\ SameWork
  <1>0. TypeOK
    BY DEF IndInv
  <1>1. next \in PCs /\ next \notin Working
    BY DEF PCs, Working, Settling
  <1>2. ASSUME NEW b \in Beat PROVE [b EXCEPT !.live = FALSE] \in Beat
    BY DEF Beat
  <1>3. beat' \in [Workers -> Beat \cup {None}]
    BY <1>0, <1>2 DEF Leave, TypeOK
  <1> QED BY <1>0, <1>1, <1>3 DEF Leave, TypeOK, SameWork

LEMMA GoToKeeps ==
    ASSUME IndInv, NEW w \in Workers, NEW next \in Settling \cup {"fail"}, GoTo(w, next),
           pc[w] \in Working
    PROVE  /\ pc' \in [Workers -> PCs]
           /\ held' \in [Workers -> JobIds \cup {None}]
           /\ attempts' \in [Workers -> Nat]
           /\ leaseLost' \in [Workers -> BOOLEAN]
           /\ beat' \in [Workers -> Beat \cup {None}]
           /\ leaseAt' \in [Workers -> Int]
           /\ SameWork
  <1>1. next \in PCs
    BY DEF PCs, Working
  <1> QED BY <1>1 DEF IndInv, TypeOK, GoTo, SameWork

LEMMA SettleSteps ==
    ASSUME IndInv, NEW w \in Workers
    PROVE  /\ \A next \in Settling : ExecuteReturns(w, next) => IndInv'
           /\ ExecuteThrows(w) => IndInv'
           /\ Settle(w) => IndInv'
           /\ SettleErrs(w) => IndInv'
           /\ Fail(w) => IndInv'
           /\ Crash(w) => IndInv'
           /\ Restart(w) => IndInv'
  <1> USE DEF queueVars, targetVars, workerVars
  <1>0. TypeOK /\ clock \in Int
    BY DEF IndInv, TypeOK
  <1>a. pc[w] \in Working => held[w] \in JobIds /\ attempts[w] \in 1..MaxAttempts
    BY DEF IndInv, HoldsWork
  <1>b. "execute" \in Working /\ "fail" \in Working /\ Settling \subseteq Working
    BY DEF Working
  <1>c. SettleCall(w) => Tame
    <2>1. pc[w] \in Settling => held[w] \in JobIds
      BY <1>a, <1>b
    <2> QED BY <1>0, <2>1, SettleIsTame DEF SettleCall, Settling
  <1>1. ASSUME NEW next \in Settling, ExecuteReturns(w, next) PROVE IndInv'
    <2>1. SameWork /\ TypeOK'
      <3>1. CASE leaseLost[w]
        BY <1>0, <1>1, <3>1, LeaveKeeps DEF ExecuteReturns, TypeOK
      <3>2. CASE ~leaseLost[w]
        BY <1>0, <1>b, <1>1, <3>2, GoToKeeps DEF ExecuteReturns, TypeOK
      <3> QED BY <3>1, <3>2
    <2> QED BY <1>1, <2>1, SameJobsTame, TameStep DEF ExecuteReturns
  <1>2. ASSUME ExecuteThrows(w) PROVE IndInv'
    <2>1. SameWork /\ TypeOK'
      <3>1. CASE leaseLost[w]
        BY <1>0, <1>2, <3>1, LeaveKeeps DEF ExecuteThrows, TypeOK
      <3>2. CASE ~leaseLost[w]
        BY <1>0, <1>b, <1>2, <3>2, GoToKeeps DEF ExecuteThrows, TypeOK
      <3> QED BY <3>1, <3>2
    <2> QED BY <1>2, <2>1, SameJobsTame, TameStep DEF ExecuteThrows
  <1>3. ASSUME Settle(w) PROVE IndInv'
    <2>1. Tame
      BY <1>c, <1>3 DEF Settle
    <2>2. SameWork /\ TypeOK'
      BY <1>0, <1>3, <2>1, LeaveKeeps DEF Settle, TypeOK, Tame
    <2> QED BY <1>3, <2>1, <2>2, TameStep DEF Settle
  <1>4. ASSUME SettleErrs(w) PROVE IndInv'
    <2>1. Tame
      BY <1>c, <1>4, SameJobsTame DEF SettleErrs
    <2>2. SameWork /\ TypeOK'
      <3>1. CASE leaseLost[w]
        BY <1>0, <1>4, <2>1, <3>1, LeaveKeeps DEF SettleErrs, TypeOK, Tame
      <3>2. CASE ~leaseLost[w]
        BY <1>0, <1>b, <1>4, <2>1, <3>2, GoToKeeps DEF SettleErrs, TypeOK, Tame
      <3> QED BY <3>1, <3>2
    <2> QED BY <1>4, <2>1, <2>2, TameStep DEF SettleErrs
  <1>5. ASSUME Fail(w) PROVE IndInv'
    <2>0. held[w] \in JobIds /\ attempts[w] \in 1..MaxAttempts
      BY <1>a, <1>b, <1>5 DEF Fail
    <2>1. Tame
      <3>1. CASE attempts[w] >= MaxAttempts
        <4>1. Owned(held[w], w) => jobs[held[w]].attempts = MaxAttempts
          BY <1>b, <1>5, <2>0, <3>1, QueueAssumption DEF IndInv, RemembersAttempts, Fail
        <4>2. FailFinally(held[w], w)
          BY <1>5, <3>1 DEF Fail
        <4> QED BY <2>0, <4>1, <4>2, SettleIsTame
      <3>2. CASE ~(attempts[w] >= MaxAttempts)
        <4>1. clock + retryDelay(attempts[w]) \in Int
          BY <1>0, <2>0, RetryDelayType
        <4>2. FailRetry(held[w], w, clock + retryDelay(attempts[w]))
          BY <1>5, <3>2 DEF Fail
        <4> QED BY <2>0, <4>1, <4>2, SettleIsTame
      <3> QED BY <3>1, <3>2
    <2>2. SameWork /\ TypeOK'
      BY <1>0, <1>5, <2>1, LeaveKeeps DEF Fail, TypeOK, Tame
    <2> QED BY <1>5, <2>1, <2>2, TameStep DEF Fail
  <1>6. ASSUME Crash(w) PROVE IndInv'
    <2>1. SameWork /\ TypeOK'
      BY <1>0, <1>6, LeaveKeeps DEF Crash, TypeOK
    <2> QED BY <1>6, <2>1, SameJobsTame, TameStep DEF Crash
  <1>7. ASSUME Restart(w) PROVE IndInv'
    <2>1. "start" \in PCs /\ "start" \notin Working
      BY DEF PCs, Working, Settling
    <2>2. SameWork /\ TypeOK'
      BY <1>0, <1>7, <2>1 DEF Restart, TypeOK, SameWork
    <2> QED BY <1>7, <2>2, SameJobsTame, TameStep DEF Restart
  <1> QED BY <1>1, <1>2, <1>3, <1>4, <1>5, <1>6, <1>7

-----------------------------------------------------------------------------
(* The invariants.                                                         *)

\* IndInv is inductive: it holds at the start and every step keeps it.
THEOREM Invariance == Spec => []IndInv
  <1>1. Init => IndInv
    <2> SUFFICES ASSUME Init PROVE IndInv
      OBVIOUS
    <2> USE DEF Init, QueueInit
    <2>1. NoRow \in Row
      BY DEF NoRow, Row, Statuses
    <2>2. "start" \in PCs /\ "start" \notin Working
      BY DEF PCs, Working, Settling
    <2>3. TypeOK
      BY <2>1, <2>2 DEF TypeOK
    <2>4. \A j \in JobIds : jobs[j].status = "none"
      BY DEF NoRow
    <2>5. HoldsWork /\ RemembersAttempts
      BY <2>2 DEF HoldsWork, RemembersAttempts
    <2>6. LockInv
      BY DEF LockInv
    <2>7. AtMostOneActiveJob /\ AttemptBudget
      BY <2>4 DEF AtMostOneActiveJob, AttemptBudget, HasStatus, Active
    <2> QED BY <2>3, <2>5, <2>6, <2>7 DEF IndInv
  <1>2. IndInv /\ [Next]_vars => IndInv'
    <2> SUFFICES ASSUME IndInv, [Next]_vars PROVE IndInv'
      OBVIOUS
    <2>1. CASE UNCHANGED vars
      BY <2>1 DEF vars, queueVars, targetVars, workerVars, IndInv, TypeOK, HoldsWork,
         LockInv, AtMostOneActiveJob, AttemptBudget, RemembersAttempts, Owned,
         JobsOf, HasStatus
    <2>2. CASE Tick
      <3>1. TypeOK' /\ SameWork /\ jobs' = jobs /\ inserting' = inserting
        BY <2>2 DEF IndInv, TypeOK, Tick, queueVars, targetVars, workerVars, SameWork
      <3> QED BY <3>1, SameJobsTame, TameStep
    <2>3. ASSUME NEW p \in Projects, Environment(p) PROVE IndInv'
      BY <2>3, EnvironmentSteps, EnqueueSteps DEF Environment
    <2>4. ASSUME NEW w \in Workers, Proceed(w) PROVE IndInv'
      <3>1. CASE \E p \in Projects : CoalesceTarget(w, p) \/ CheckTarget(w, p)
                                        \/ InsertTarget(w, p)
        BY <3>1, ScheduleSteps
      <3>2. CASE \E j \in JobIds : ClaimJob(w, j)
        BY <3>2, ClaimStep
      <3>3. CASE Settle(w) \/ SettleErrs(w) \/ Fail(w)
        BY <3>3, SettleSteps
      <3>4. CASE StartIteration(w) \/ ReadEnables(w) \/ ReadAllowlist(w) \/ ClaimNothing(w)
        BY <3>4, IterationSteps
      <3> QED BY <2>4, <3>1, <3>2, <3>3, <3>4 DEF Proceed
    <2>5. ASSUME NEW w \in Workers, EndExecution(w) PROVE IndInv'
      BY <2>5, SettleSteps DEF EndExecution
    <2>6. ASSUME NEW w \in Workers, SendHeartbeat(w) \/ AnswerHeartbeat(w) PROVE IndInv'
      BY <2>6, HeartbeatSteps DEF AnswerHeartbeat
    <2>7. ASSUME NEW w \in Workers, Crash(w) \/ Restart(w) PROVE IndInv'
      BY <2>7, SettleSteps
    <2> QED BY <2>1, <2>2, <2>3, <2>4, <2>5, <2>6, <2>7 DEF Next
  <1> QED BY <1>1, <1>2, PTL DEF Spec

\* Every variable keeps its type.
THEOREM TypeCorrect == Spec => []TypeOK
  <1>1. IndInv => TypeOK
    BY DEF IndInv
  <1> QED BY <1>1, Invariance, PTL

\* No project ever has two active jobs, for any number of workers, enqueue
\* callers and projects.
THEOREM OneActiveJobPerProject == Spec => []AtMostOneActiveJob
  <1>1. IndInv => AtMostOneActiveJob
    BY DEF IndInv
  <1> QED BY <1>1, Invariance, PTL

\* A pending job can be claimed and a failed one has used all its attempts.
THEOREM AttemptsAccounted == Spec => []AttemptBudget
  <1>1. IndInv => AttemptBudget
    BY DEF IndInv
  <1> QED BY <1>1, Invariance, PTL

-----------------------------------------------------------------------------
(* Ended jobs.                                                             *)

\* What a scheduler inserts is due when it may be; enqueue asks for any time.
WhenDue(s, p, t) == s \in Clients \/ \A k \in JobsOf(p, Terminal) : jobs[k].updatedAt + Interval <= t

\* A step does one of three things to the table.
LEMMA JobsStep ==
    ASSUME IndInv, [Next]_vars
    PROVE  \/ Tame
           \/ \E s \in Workers \cup Clients, p \in Projects, t \in Int :
                 InsertJob(s, p, t) /\ WhenDue(s, p, t)
           \/ \E w \in Workers, j \in JobIds : Claim(w, j)
  <1> USE DEF vars, queueVars, targetVars, workerVars
  <1>0. TypeOK /\ clock \in Int
    BY DEF IndInv, TypeOK
  <1>1. CASE jobs' = jobs
    BY <1>1, SameJobsTame
  <1>2. ASSUME NEW p \in Projects, Environment(p), jobs' # jobs
        PROVE  Tame \/ \E s \in Workers \cup Clients, t \in Int : InsertJob(s, p, t) /\ WhenDue(s, p, t)
    <2>1. CASE RemoveProject(p)
      BY <2>1, BlockIsTame DEF RemoveProject
    <2>2. CASE \E c \in Clients : EnqueueInsert(c, p)
      BY <1>0, <2>2 DEF EnqueueInsert, WhenDue
    <2> QED BY <1>2, <2>1, <2>2 DEF Environment, AddProject, EnableProject,
               DisableProject, EnqueueCheck
  <1>3. ASSUME NEW w \in Workers, jobs' # jobs,
               \/ Proceed(w) \/ EndExecution(w) \/ SendHeartbeat(w)
               \/ AnswerHeartbeat(w) \/ Crash(w) \/ Restart(w)
        PROVE  \/ Tame
               \/ \E p \in Projects, t \in Int : InsertJob(w, p, t) /\ WhenDue(w, p, t)
               \/ \E j \in JobIds : Claim(w, j)
    <2>1. CASE StartIteration(w)
      BY <1>0, <2>1, RecoverIsTame DEF StartIteration
    <2>2. ASSUME NEW p \in Projects, InsertTarget(w, p)
          PROVE  \E t \in Int : InsertJob(w, p, t) /\ WhenDue(w, p, t)
      <3>1. PICK t \in DueTimes(p, iterNow[w]) :
                (\A u \in DueTimes(p, iterNow[w]) : u <= t) /\ InsertJob(w, p, t)
        BY <2>2 DEF InsertTarget, InsertWhenDue
      <3>2. t \in Int
        BY <1>0, <3>1, QueueAssumption DEF DueTimes, JobsOf, TypeOK, Row
      <3>3. WhenDue(w, p, t)
        BY <3>1 DEF DueTimes, WhenDue
      <3> QED BY <3>1, <3>2, <3>3
    <2>3. CASE \E j \in JobIds : ClaimJob(w, j)
      BY <2>3 DEF ClaimJob
    <2>4. CASE AnswerHeartbeat(w)
      <3>1. beat[w] # None => beat[w].job \in JobIds /\ beat[w].at \in Int
        BY <1>0 DEF TypeOK, Beat
      <3> QED BY <1>3, <2>4, <3>1, SettleIsTame
              DEF AnswerHeartbeat, HeartbeatLands, HeartbeatErrs
    <2>5. CASE Settle(w) \/ SettleErrs(w)
      <3>1. SettleCall(w)
        BY <1>3, <2>5 DEF Settle, SettleErrs
      <3>2. held[w] \in JobIds
        BY <3>1 DEF SettleCall, IndInv, HoldsWork, Working, Settling
      <3> QED BY <1>0, <3>1, <3>2, SettleIsTame DEF SettleCall
    <2>6. CASE Fail(w)
      <3>1. held[w] \in JobIds /\ attempts[w] \in 1..MaxAttempts /\ pc[w] \in Working
        BY <2>6 DEF Fail, IndInv, HoldsWork, Working
      <3>2. CASE attempts[w] >= MaxAttempts
        <4>1. Owned(held[w], w) => jobs[held[w]].attempts = MaxAttempts
          BY <3>1, <3>2, QueueAssumption DEF IndInv, RemembersAttempts
        <4> QED BY <2>6, <3>1, <3>2, <4>1, SettleIsTame DEF Fail
      <3>3. CASE ~(attempts[w] >= MaxAttempts)
        <4>1. clock + retryDelay(attempts[w]) \in Int
          BY <1>0, <3>1, RetryDelayType
        <4> QED BY <2>6, <3>1, <3>3, <4>1, SettleIsTame DEF Fail
      <3> QED BY <3>2, <3>3
    <2>7. jobs' = jobs \/ StartIteration(w) \/ (\E p \in Projects : InsertTarget(w, p))
          \/ (\E j \in JobIds : ClaimJob(w, j)) \/ AnswerHeartbeat(w)
          \/ Settle(w) \/ SettleErrs(w) \/ Fail(w)
      BY <1>3 DEF Proceed, EndExecution, ReadEnables, ReadAllowlist, ReadTargets,
         CoalesceTarget, CheckTarget, ClaimNothing, ExecuteReturns, ExecuteThrows,
         SendHeartbeat, Crash, Restart
    <2> QED BY <1>3, <2>1, <2>2, <2>3, <2>4, <2>5, <2>6, <2>7
  <1>4. jobs' = jobs \/ (\E p \in Projects : Environment(p))
        \/ (\E w \in Workers : \/ Proceed(w) \/ EndExecution(w) \/ SendHeartbeat(w)
                               \/ AnswerHeartbeat(w) \/ Crash(w) \/ Restart(w))
    BY DEF Next, Tick
  <1> QED BY <1>1, <1>2, <1>3, <1>4

LEMMA EndedStays ==
    ASSUME IndInv, [Next]_vars, NEW j \in JobIds, HasStatus(j, Terminal)
    PROVE  jobs'[j] = jobs[j]
  <1>1. ~HasStatus(j, Active) /\ ~HasStatus(j, {"none"}) /\ ~HasStatus(j, {"pending"})
    BY DEF HasStatus, Terminal, Active
  <1>2. CASE Tame
    BY <1>1, <1>2 DEF Tame, TameRow, HasStatus
  <1>3. CASE \E s \in Workers \cup Clients, p \in Projects, t \in Int : InsertJob(s, p, t)
    BY <1>1, <1>3 DEF InsertJob, IsFresh, IndInv, TypeOK
  <1>4. CASE \E w \in Workers, i \in JobIds : Claim(w, i)
    BY <1>1, <1>4 DEF Claim, Claimable, IndInv, TypeOK
  <1> QED BY <1>2, <1>3, <1>4, JobsStep

\* Whatever arrives late, a job that ended stays as it ended.
THEOREM EndedJobsAreFinal == Spec => TerminalIsFinal
  <1>1. IndInv /\ [Next]_vars =>
            [\A j \in JobIds : HasStatus(j, Terminal) => jobs'[j] = jobs[j]]_vars
    BY EndedStays
  <1> QED BY <1>1, Invariance, PTL DEF Spec, TerminalIsFinal

-----------------------------------------------------------------------------
(* Leases.  What makes LeaseHolds inductive: a syncing worker owns its row *)
(* at the claim time it remembers, or the row was blocked under it, or     *)
(* the claim time is older than Stale.                                     *)

LeaseOf(w) ==
    \/ Owned(held[w], w) /\ jobs[held[w]].claimedAt = leaseAt[w]
    \/ HasStatus(held[w], {"sync_blocked"})
    \/ leaseAt[w] + Stale < clock

LeaseInv == \A w \in Workers : Syncing(w) => LeaseOf(w)

LEMMA SyncingIsWorking ==
    ASSUME IndInv, NEW w \in Workers, Syncing(w)
    PROVE  pc[w] \in Working /\ held[w] \in JobIds
  BY DEF IndInv, HoldsWork, Syncing, Working, Settling

\* A statement issued under v's claim leaves the rows of w alone.
LEMMA OthersRowsUntouched ==
    ASSUME TypeOK, NEW v \in Workers, NEW w \in Workers, v # w,
           NEW i \in JobIds, Owned(i, w),
           NEW j \in JobIds, NEW row, UpdateOwned(j, v, row)
    PROVE  jobs'[i] = jobs[i]
  BY DEF TypeOK, UpdateOwned, Owned

\* A step that leaves w's lease record alone and its row as it was, or blocked,
\* or recovered after Stale, keeps w's lease as LeaseOf describes it.
LEMMA LeaseKept ==
    ASSUME IndInv, [Next]_vars, NEW w \in Workers, Syncing(w), LeaseOf(w),
           held'[w] = held[w], leaseAt'[w] = leaseAt[w],
           Owned(held[w], w) => \/ jobs'[held[w]] = jobs[held[w]]
                                \/ jobs'[held[w]].status = "sync_blocked"
                                \/ leaseAt[w] + Stale < clock
    PROVE  LeaseOf(w)'
  <1>0. held[w] \in JobIds
    BY SyncingIsWorking
  <1>1. clock' \in {clock, clock + 1} /\ clock \in Nat
    BY DEF IndInv, TypeOK, Next, vars, Tick, Environment, AddProject, EnableProject,
       DisableProject, RemoveProject, EnqueueCheck, EnqueueInsert, Proceed, EndExecution,
       AnswerHeartbeat, StartIteration, ReadEnables, ReadAllowlist, ReadTargets,
       CoalesceTarget, CheckTarget, InsertTarget, ClaimJob, ClaimNothing, Settle,
       SettleErrs, Fail, ExecuteReturns, ExecuteThrows, SendHeartbeat, HeartbeatLands,
       HeartbeatErrs, Crash, Restart
  <1>2. CASE Owned(held[w], w) /\ jobs[held[w]].claimedAt = leaseAt[w]
            /\ jobs'[held[w]] = jobs[held[w]]
    BY <1>2 DEF LeaseOf, Owned, HasStatus
  <1>3. CASE jobs'[held[w]].status = "sync_blocked"
    BY <1>3 DEF LeaseOf, HasStatus
  <1>4. CASE HasStatus(held[w], {"sync_blocked"})
    <2>1. jobs'[held[w]] = jobs[held[w]]
      BY <1>0, <1>4, EndedStays DEF HasStatus, Terminal
    <2> QED BY <1>4, <2>1 DEF LeaseOf, HasStatus
  <1>5. CASE leaseAt[w] + Stale < clock
    <2>1. leaseAt'[w] + Stale < clock'
      BY <1>1, <1>5, QueueAssumption DEF IndInv, TypeOK
    <2> QED BY <2>1 DEF LeaseOf
  <1> QED BY <1>2, <1>3, <1>4, <1>5 DEF LeaseOf

\* The steps of another worker, and of the environment, on the row w owns.
LEMMA OthersSteps ==
    ASSUME IndInv, [Next]_vars, NEW w \in Workers, Syncing(w), LeaseOf(w),
           NEW v \in Workers, v # w,
           \/ Proceed(v) \/ EndExecution(v) \/ SendHeartbeat(v)
           \/ AnswerHeartbeat(v) \/ Crash(v) \/ Restart(v)
    PROVE  LeaseOf(w)'
  <1> USE DEF queueVars, targetVars, workerVars
  <1>0. TypeOK /\ held[w] \in JobIds
    BY SyncingIsWorking DEF IndInv
  <1>1. held'[w] = held[w] /\ leaseAt'[w] = leaseAt[w]
    BY <1>0 DEF TypeOK, Proceed, EndExecution, AnswerHeartbeat, StartIteration,
       ReadEnables, ReadAllowlist, ReadTargets, CoalesceTarget, CheckTarget, InsertTarget,
       ClaimJob, ClaimNothing, Settle, SettleErrs, Fail, ExecuteReturns, ExecuteThrows,
       SendHeartbeat, HeartbeatLands, HeartbeatErrs, Crash, Restart, Leave, GoTo
  <1>2. ASSUME Owned(held[w], w)
        PROVE  \/ jobs'[held[w]] = jobs[held[w]]
               \/ leaseAt[w] + Stale < clock
    <2> DEFINE i == held[w]
    <2>0. /\ jobs[i].status = "running"
          /\ jobs[i].claimedAt = leaseAt[w] \/ leaseAt[w] + Stale < clock
      BY <1>2 DEF LeaseOf, Owned, HasStatus
    <2>1. CASE jobs' = jobs
      BY <2>1
    <2>2. CASE StartIteration(v)
      <3>1. CASE ~Expired(i, clock)
        BY <1>0, <2>2, <3>1 DEF StartIteration, RecoverStaleClaims
      <3>2. CASE Expired(i, clock)
        BY <1>0, <2>0, <3>2, QueueAssumption DEF Expired, TypeOK
      <3> QED BY <3>1, <3>2
    <2>3. CASE \E p \in Projects : InsertTarget(v, p)
      BY <1>0, <2>0, <2>3 DEF InsertTarget, InsertWhenDue, InsertJob, IsFresh, HasStatus,
         TypeOK
    <2>4. CASE \E j \in JobIds : ClaimJob(v, j)
      BY <1>0, <2>0, <2>4 DEF ClaimJob, Claim, Claimable, HasStatus, TypeOK
    <2>5. ASSUME NEW j \in JobIds, NEW row, UpdateOwned(j, v, row)
          PROVE  jobs'[i] = jobs[i]
      BY <1>0, <1>2, <2>5, OthersRowsUntouched
    <2>6. CASE AnswerHeartbeat(v)
      <3>1. beat[v] # None => beat[v].job \in JobIds
        BY <1>0 DEF TypeOK, Beat
      <3> QED BY <2>5, <2>6, <3>1
              DEF AnswerHeartbeat, HeartbeatLands, HeartbeatErrs, Heartbeat
    <2>7. CASE Settle(v) \/ SettleErrs(v) \/ Fail(v)
      <3>1. pc[v] \in Working => held[v] \in JobIds
        BY DEF IndInv, HoldsWork
      <3> QED BY <2>5, <2>7, <3>1
              DEF Settle, SettleErrs, SettleCall, Fail, Complete, Reschedule, SyncBlocked,
                  FailRetry, FailFinally, Working, Settling
    <2> QED BY <2>1, <2>2, <2>3, <2>4, <2>6, <2>7
            DEF Proceed, EndExecution, ReadEnables, ReadAllowlist, ReadTargets,
                CoalesceTarget, CheckTarget, ClaimNothing, ExecuteReturns, ExecuteThrows,
                SendHeartbeat, Crash, Restart
  <1> QED BY <1>1, <1>2, LeaseKept

LEMMA OutsideSteps ==
    ASSUME IndInv, [Next]_vars, NEW w \in Workers, Syncing(w), LeaseOf(w),
           UNCHANGED vars \/ Tick \/ \E p \in Projects : Environment(p)
    PROVE  LeaseOf(w)'
  <1> USE DEF queueVars, targetVars, workerVars
  <1>0. TypeOK /\ held[w] \in JobIds
    BY SyncingIsWorking DEF IndInv
  <1>1. held'[w] = held[w] /\ leaseAt'[w] = leaseAt[w]
    BY DEF vars, Tick, Environment, AddProject, EnableProject, DisableProject,
       RemoveProject, EnqueueCheck, EnqueueInsert
  <1>2. ASSUME Owned(held[w], w)
        PROVE  \/ jobs'[held[w]] = jobs[held[w]]
               \/ jobs'[held[w]].status = "sync_blocked"
    <2> DEFINE i == held[w]
    <2>0. jobs[i].status = "running" /\ jobs[i] \in Row
      BY <1>0, <1>2 DEF Owned, HasStatus, TypeOK
    <2>1. CASE jobs' = jobs
      BY <2>1
    <2>2. CASE \E p \in Projects : RemoveProject(p)
      <3>1. Ended(jobs[i], "sync_blocked").status = "sync_blocked"
        BY <2>0, ReleasedFields DEF Statuses
      <3> QED BY <1>0, <2>2, <3>1 DEF RemoveProject, BlockJobsOf
    <2>3. CASE \E c \in Clients, p \in Projects : EnqueueInsert(c, p)
      BY <1>0, <2>0, <2>3 DEF EnqueueInsert, InsertJob, IsFresh, HasStatus, TypeOK
    <2> QED BY <2>1, <2>2, <2>3
            DEF vars, Tick, Environment, AddProject, EnableProject, DisableProject,
                EnqueueCheck
  <1> QED BY <1>1, <1>2, LeaseKept

LEMMA OwnSteps ==
    ASSUME IndInv, [Next]_vars, NEW w \in Workers, Syncing(w), LeaseOf(w), Syncing(w)',
           \/ Proceed(w) \/ EndExecution(w) \/ SendHeartbeat(w)
           \/ AnswerHeartbeat(w) \/ Crash(w) \/ Restart(w)
    PROVE  LeaseOf(w)'
  <1> USE DEF queueVars, targetVars, workerVars
  <1>0. /\ TypeOK
        /\ held[w] \in JobIds
        /\ pc[w] \in {"execute", "complete", "pause", "block"}
        /\ pc'[w] \in {"execute", "complete", "pause", "block"}
    BY SyncingIsWorking DEF IndInv, Syncing, Settling
  <1>1. CASE ExecuteThrows(w) \/ Settle(w) \/ SettleErrs(w) \/ Fail(w) \/ Crash(w)
    BY <1>0, <1>1 DEF ExecuteThrows, Settle, SettleErrs, Fail, Crash, Leave, GoTo, TypeOK
  <1>2. ASSUME NEW next \in Settling, ExecuteReturns(w, next) PROVE LeaseOf(w)'
    <2>1. held'[w] = held[w] /\ leaseAt'[w] = leaseAt[w] /\ jobs' = jobs
      BY <1>0, <1>2 DEF ExecuteReturns, Leave, GoTo, TypeOK
    <2> QED BY <2>1, LeaseKept
  <1>3. CASE SendHeartbeat(w)
    <2>1. held'[w] = held[w] /\ leaseAt'[w] = leaseAt[w] /\ jobs' = jobs
      BY <1>3 DEF SendHeartbeat
    <2> QED BY <2>1, LeaseKept
  <1>4. CASE AnswerHeartbeat(w)
    <2> DEFINE b == beat[w]
    <2>0. b.job \in JobIds /\ b.at \in Int /\ held' = held
      BY <1>0, <1>4 DEF AnswerHeartbeat, HeartbeatLands, HeartbeatErrs, TypeOK, Beat
    <2>1. CASE jobs' = jobs /\ leaseAt' = leaseAt
      BY <2>0, <2>1, LeaseKept
    <2>2. CASE /\ Heartbeat(b.job, w, b.at)
               /\ leaseAt' = [leaseAt EXCEPT ![w] = IF Owned(b.job, w) /\ held[w] = b.job
                                                    THEN b.at ELSE @]
      <3>1. CASE Owned(b.job, w) /\ held[w] = b.job
        <4>1. jobs'[held[w]] = [jobs[held[w]] EXCEPT !.claimedAt = b.at]
          BY <1>0, <2>2, <3>1 DEF Heartbeat, UpdateOwned, TypeOK
        <4>2. jobs[held[w]] \in Row
          BY <1>0 DEF TypeOK
        <4>3. /\ jobs'[held[w]].claimedAt = b.at
              /\ jobs'[held[w]].status = jobs[held[w]].status
              /\ jobs'[held[w]].claimedBy = jobs[held[w]].claimedBy
          BY <4>1, <4>2 DEF Row
        <4>4. leaseAt'[w] = b.at
          BY <1>0, <2>2, <3>1 DEF TypeOK
        <4> QED BY <2>0, <3>1, <4>3, <4>4 DEF LeaseOf, Owned, HasStatus
      <3>2. CASE ~(Owned(b.job, w) /\ held[w] = b.job)
        <4>1. leaseAt'[w] = leaseAt[w]
          BY <1>0, <2>2, <3>2 DEF TypeOK
        <4>2. Owned(held[w], w) => jobs'[held[w]] = jobs[held[w]]
          BY <1>0, <2>0, <2>2, <3>2 DEF Heartbeat, UpdateOwned, TypeOK
        <4> QED BY <2>0, <4>1, <4>2, LeaseKept
      <3> QED BY <3>1, <3>2
    <2> QED BY <1>4, <2>1, <2>2 DEF AnswerHeartbeat, HeartbeatLands, HeartbeatErrs
  <1> QED BY <1>0, <1>1, <1>2, <1>3, <1>4
          DEF Proceed, EndExecution, StartIteration, ReadEnables, ReadAllowlist,
              ReadTargets, CoalesceTarget, CheckTarget, InsertTarget, ClaimJob,
              ClaimNothing, ReadyToClaim, Restart

LEMMA LeaseInvariance == Spec => []LeaseInv
  <1>1. Init => LeaseInv
    BY DEF Init, LeaseInv, Syncing, Settling
  <1>2. IndInv /\ IndInv' /\ LeaseInv /\ [Next]_vars => LeaseInv'
    <2> SUFFICES ASSUME IndInv, IndInv', LeaseInv, [Next]_vars,
                        NEW w \in Workers, Syncing(w)'
                 PROVE  LeaseOf(w)'
      BY DEF LeaseInv
    <2>1. CASE Syncing(w)
      <3>1. LeaseOf(w)
        BY <2>1 DEF LeaseInv
      <3>2. CASE UNCHANGED vars \/ Tick \/ \E p \in Projects : Environment(p)
        BY <2>1, <3>1, <3>2, OutsideSteps
      <3>3. ASSUME NEW v \in Workers,
                   \/ Proceed(v) \/ EndExecution(v) \/ SendHeartbeat(v)
                   \/ AnswerHeartbeat(v) \/ Crash(v) \/ Restart(v)
            PROVE  LeaseOf(w)'
        BY <2>1, <3>1, <3>3, OthersSteps, OwnSteps
      <3> QED BY <3>2, <3>3 DEF Next
    <2>2. CASE ~Syncing(w)
      <3>0. TypeOK /\ "execute" \notin Settling
        BY DEF IndInv, Settling
      <3>1. pc[w] # "execute" /\ pc'[w] \in {"execute"} \cup Settling /\ pc'[w] # pc[w]
        BY <2>2 DEF Syncing
      <3>2. PICK j \in JobIds : ClaimJob(w, j)
        <4>1. pc' # pc
          BY <3>1
        <4>2. ASSUME NEW v \in Workers,
                     \/ \E label : /\ pc' = [pc EXCEPT ![v] = label]
                                  /\ label \in {"start", "discover", "schedule", "fail", "down"}
                     \/ \E label : pc[v] = "execute" /\ pc' = [pc EXCEPT ![v] = label]
              PROVE  FALSE
          <5>1. pc \in [Workers -> PCs] /\ pc[w] # "execute"
            BY <3>0, <3>1 DEF TypeOK
          <5> QED BY <3>1, <4>2, <5>1 DEF Settling
        <4>3. ASSUME NEW v \in Workers, Proceed(v), ~\E j \in JobIds : ClaimJob(v, j)
              PROVE  FALSE
          <5>1. CASE \/ StartIteration(v) \/ ClaimNothing(v) \/ Settle(v) \/ SettleErrs(v) \/ Fail(v)
            BY <4>2, <4>3, <5>1 DEF StartIteration, ClaimNothing, Settle, SettleErrs, Fail, Leave, GoTo
          <5>2. CASE ReadEnables(v) \/ ReadAllowlist(v)
            <6>1. PICK query : pc' = [pc EXCEPT ![v] = IF unread[v] = {query} THEN "schedule" ELSE @]
              BY <5>2 DEF ReadEnables, ReadAllowlist, ReadTargets
            <6>2. CASE unread[v] = {query}
              BY <4>2, <4>3, <6>1, <6>2
            <6>3. CASE unread[v] # {query}
              BY <3>0, <4>1, <6>1, <6>3 DEF TypeOK
            <6> QED BY <6>2, <6>3
          <5>3. CASE \E p \in Projects : CoalesceTarget(v, p) \/ CheckTarget(v, p) \/ InsertTarget(v, p)
            BY <4>1, <5>3 DEF CoalesceTarget, CheckTarget, InsertTarget, workerVars
          <5> QED BY <4>3, <5>1, <5>2, <5>3 DEF Proceed
        <4>4. ASSUME NEW v \in Workers,
                     EndExecution(v) \/ Crash(v) \/ Restart(v) \/ SendHeartbeat(v) \/ AnswerHeartbeat(v)
              PROVE  FALSE
          <5>1. CASE EndExecution(v)
            BY <4>2, <4>4, <5>1 DEF EndExecution, ExecuteReturns, ExecuteThrows, Leave, GoTo
          <5>2. CASE Crash(v) \/ Restart(v)
            BY <4>2, <4>4, <5>2 DEF Crash, Restart, Leave
          <5>3. CASE SendHeartbeat(v) \/ AnswerHeartbeat(v)
            BY <4>1, <5>3 DEF SendHeartbeat, AnswerHeartbeat, HeartbeatLands, HeartbeatErrs
          <5> QED BY <4>4, <5>1, <5>2, <5>3
        <4>5. ASSUME UNCHANGED vars \/ Tick \/ \E p \in Projects : Environment(p)
              PROVE  FALSE
          BY <4>1, <4>5 DEF vars, Tick, Environment, AddProject, EnableProject, DisableProject,
             RemoveProject, EnqueueCheck, EnqueueInsert, workerVars
        <4>6. PICK v \in Workers, j \in JobIds : ClaimJob(v, j)
          BY <4>3, <4>4, <4>5 DEF Next
        <4>7. v = w
          BY <3>0, <3>1, <4>6 DEF TypeOK, ClaimJob
        <4> QED BY <4>6, <4>7
      <3>3. jobs'[j] = ClaimedRow(jobs[j], w) /\ held'[w] = j /\ leaseAt'[w] = clock
        BY <3>0, <3>2 DEF ClaimJob, Claim, TypeOK
      <3> QED BY <3>3 DEF LeaseOf, Owned, HasStatus, ClaimedRow
    <2> QED BY <2>1, <2>2
  <1> QED BY <1>1, <1>2, Invariance, PTL DEF Spec

\* A worker within its lease still holds its claim, or its project was removed.
THEOREM LeasesHold == Spec => []LeaseHolds
  <1>1. IndInv /\ LeaseInv => LeaseHolds
    <2> SUFFICES ASSUME IndInv, LeaseInv, NEW w \in Workers, Syncing(w), LeaseFresh(w)
                 PROVE  Owned(held[w], w) \/ HasStatus(held[w], {"sync_blocked"})
      BY DEF LeaseHolds
    <2>1. ~(leaseAt[w] + Stale < clock)
      BY QueueAssumption DEF LeaseFresh, IndInv, TypeOK
    <2> QED BY <2>1 DEF LeaseInv, LeaseOf
  <1> QED BY <1>1, Invariance, LeaseInvariance, PTL

\* Two workers within their leases never synchronise one project, removals aside.
THEOREM NoDoubleSyncs == Spec => []NoDoubleSync
  <1>1. IndInv /\ LeaseHolds => NoDoubleSync
    <2> SUFFICES ASSUME IndInv, LeaseHolds, NEW v \in Workers, NEW w \in Workers, v # w,
                        Syncing(v), LeaseFresh(v), Syncing(w), LeaseFresh(w),
                        jobs[held[v]].project = jobs[held[w]].project,
                        ~ \E x \in {v, w} : HasStatus(held[x], {"sync_blocked"})
                 PROVE  FALSE
      BY DEF NoDoubleSync
    <2>1. Owned(held[v], v) /\ Owned(held[w], w)
      BY DEF LeaseHolds
    <2>2. held[v] \in JobIds /\ held[w] \in JobIds
      BY SyncingIsWorking
    <2>3. held[v] = held[w]
      BY <2>1, <2>2, OwnedIsActive DEF IndInv, AtMostOneActiveJob
    <2> QED BY <2>1, <2>3 DEF Owned
  <1> QED BY <1>1, Invariance, LeasesHold, PTL

-----------------------------------------------------------------------------
(* The time between two jobs of a project.  A job that waits for its time  *)
(* waits an interval after every job of its project that ended, or that    *)
(* time has passed; a job that runs has passed it.                         *)

SpacedInv ==
    \A j, k \in JobIds :
        HasStatus(k, Terminal) /\ jobs[j].project = jobs[k].project =>
            /\ HasStatus(j, {"pending"}) => \/ jobs[k].updatedAt + Interval <= jobs[j].runAfter
                                           \/ jobs[k].updatedAt + Interval <= clock
            /\ HasStatus(j, {"running"}) => jobs[k].updatedAt + Interval <= clock

LEMMA ClockAdvances ==
    ASSUME TypeOK, [Next]_vars
    PROVE  clock <= clock'
  <1>1. clock \in Nat
    BY DEF TypeOK
  <1>2. clock' = clock \/ clock' = clock + 1
    <2>1. CASE Tick \/ UNCHANGED vars
      BY <2>1 DEF Tick, vars, queueVars
    <2>2. ASSUME NEW p \in Projects, Environment(p) PROVE clock' = clock
      BY <2>2 DEF Environment, AddProject, EnableProject, DisableProject, RemoveProject,
         EnqueueCheck, EnqueueInsert
    <2>3. ASSUME NEW w \in Workers, Proceed(w) PROVE clock' = clock
      BY <2>3 DEF Proceed, StartIteration, ReadEnables, ReadAllowlist, ReadTargets, CoalesceTarget,
         CheckTarget, InsertTarget, ClaimJob, ClaimNothing, Settle, SettleErrs, Fail
    <2>4. ASSUME NEW w \in Workers,
                 EndExecution(w) \/ SendHeartbeat(w) \/ AnswerHeartbeat(w) \/ Crash(w) \/ Restart(w)
          PROVE  clock' = clock
      BY <2>4 DEF EndExecution, ExecuteReturns, ExecuteThrows, SendHeartbeat, AnswerHeartbeat,
         HeartbeatLands, HeartbeatErrs, Crash, Restart
    <2> QED BY <2>1, <2>2, <2>3, <2>4 DEF Next
  <1> QED BY <1>1, <1>2

\* While every insert is a scheduler's.
LEMMA SpacedStep ==
    ASSUME Clients = {}, IndInv, IndInv', SpacedInv, [Next]_vars
    PROVE  SpacedInv'
  <1>0. /\ jobs \in [JobIds -> Row] /\ clock \in Int /\ clock' \in Int /\ clock <= clock'
        /\ Interval \in Int
    <2>1. clock \in Nat /\ clock' \in Nat /\ clock <= clock'
      BY ClockAdvances DEF IndInv, TypeOK
    <2> QED BY <2>1, QueueAssumption DEF IndInv, TypeOK
  <1> SUFFICES ASSUME NEW j \in JobIds, NEW k \in JobIds,
                      HasStatus(k, Terminal)', jobs'[j].project = jobs'[k].project,
                      HasStatus(j, Active)'
               PROVE  \/ jobs'[k].updatedAt + Interval <= clock'
                      \/ /\ jobs'[j].status = "pending"
                         /\ jobs'[k].updatedAt + Interval <= jobs'[j].runAfter
    BY DEF SpacedInv, HasStatus, Active
  <1>1. jobs[k].updatedAt \in Int /\ jobs[j].runAfter \in Int
    BY <1>0 DEF Row
  <1>2. ASSUME HasStatus(j, Active), HasStatus(k, Terminal),
               jobs[j].project = jobs[k].project, jobs'[k] = jobs[k]
        PROVE  \/ jobs'[k].updatedAt + Interval <= clock'
               \/ jobs[j].status = "pending" /\ jobs'[k].updatedAt + Interval <= jobs[j].runAfter
    BY <1>0, <1>1, <1>2 DEF SpacedInv, HasStatus, Active
  <1>3. CASE Tame
    <2>1. HasStatus(j, Active) /\ jobs[j].project = jobs[k].project
      BY <1>3 DEF Tame, TameRow, HasStatus
    <2>2. j # k
      BY DEF HasStatus, Active, Terminal
    <2>3. jobs'[k] = jobs[k]
      BY <1>3, <2>1, <2>2 DEF Tame, TameRow, IndInv, AtMostOneActiveJob, HasStatus
    <2>4. HasStatus(k, Terminal)
      BY <2>3 DEF HasStatus
    <2>5. CASE jobs'[j] = jobs[j]
      BY <1>2, <2>1, <2>3, <2>4, <2>5
    <2>6. CASE TameRow(jobs[j], jobs'[j])
      <3>1. jobs[j].status = "running"
        BY <2>6 DEF TameRow, HasStatus, Active
      <3> QED BY <1>2, <2>1, <2>3, <2>4, <3>1
    <2> QED BY <1>3, <2>5, <2>6 DEF Tame
  <1>4. ASSUME NEW s \in Workers \cup Clients, NEW p \in Projects, NEW t \in Int,
               InsertJob(s, p, t), WhenDue(s, p, t)
        PROVE  \/ jobs'[k].updatedAt + Interval <= clock'
               \/ jobs'[j].status = "pending" /\ jobs'[k].updatedAt + Interval <= jobs'[j].runAfter
    <2>1. PICK i \in JobIds : IsFresh(i) /\ jobs' = [jobs EXCEPT ![i] = NewJob(p, t)]
      BY <1>4 DEF InsertJob
    <2>2. /\ NewJob(p, t).status = "pending" /\ NewJob(p, t).project = p
          /\ NewJob(p, t).runAfter = t
      BY DEF NewJob
    <2>3. k # i /\ jobs'[k] = jobs[k] /\ HasStatus(k, Terminal)
      BY <1>0, <2>1, <2>2 DEF HasStatus, Terminal
    <2>4. CASE j = i
      <3>1. jobs'[j] = NewJob(p, t) /\ k \in JobsOf(p, Terminal)
        BY <1>0, <2>1, <2>2, <2>3, <2>4 DEF JobsOf
      <3>2. jobs[k].updatedAt + Interval <= t
        BY <1>4, <3>1 DEF WhenDue
      <3> QED BY <2>2, <2>3, <3>1, <3>2
    <2>5. CASE j # i
      <3>1. jobs'[j] = jobs[j]
        BY <1>0, <2>1, <2>5
      <3>2. HasStatus(j, Active)
        BY <3>1 DEF HasStatus
      <3> QED BY <1>2, <2>3, <3>1, <3>2
    <2> QED BY <2>4, <2>5
  <1>5. ASSUME NEW w \in Workers, NEW i \in JobIds, Claim(w, i)
        PROVE  \/ jobs'[k].updatedAt + Interval <= clock'
               \/ jobs'[j].status = "pending" /\ jobs'[k].updatedAt + Interval <= jobs'[j].runAfter
    <2>1. /\ jobs[i].status = "pending" /\ jobs[i].runAfter <= clock
          /\ jobs' = [jobs EXCEPT ![i] = ClaimedRow(jobs[i], w)]
      BY <1>5 DEF Claim, Claimable, HasStatus
    <2>2. /\ ClaimedRow(jobs[i], w).status = "running"
          /\ ClaimedRow(jobs[i], w).project = jobs[i].project
      BY DEF ClaimedRow
    <2>3. k # i /\ jobs'[k] = jobs[k] /\ HasStatus(k, Terminal)
      BY <1>0, <2>1, <2>2 DEF HasStatus, Terminal
    <2>4. HasStatus(j, Active) /\ jobs[j].project = jobs[k].project
      BY <1>0, <2>1, <2>2, <2>3 DEF HasStatus, Active
    <2>5. CASE j = i
      BY <1>0, <1>1, <1>2, <2>1, <2>3, <2>4, <2>5
    <2>6. CASE j # i
      <3>1. jobs'[j] = jobs[j]
        BY <1>0, <2>1, <2>6
      <3> QED BY <1>2, <2>3, <2>4, <3>1
    <2> QED BY <2>5, <2>6
  <1> QED BY <1>3, <1>4, <1>5, JobsStep

\* No job of a project is first claimed before an interval has passed since every
\* earlier one ended, for any number of workers, projects and jobs, as long as
\* nothing but the scheduler inserts them.
THEOREM SyncsKeepInterval ==
    ASSUME Clients = {}
    PROVE  Spec => SyncsAreSpaced
  <1>1. Init => SpacedInv
    BY DEF Init, QueueInit, NoRow, SpacedInv, HasStatus, Terminal
  <1>2. IndInv /\ IndInv' /\ SpacedInv /\ [Next]_vars => SpacedInv'
    BY SpacedStep
  <1>3. IndInv /\ SpacedInv /\ [Next]_vars =>
          [\A j \in JobIds :
              HasStatus(j, {"pending"}) /\ jobs'[j].status = "running" =>
                  \A k \in JobsOf(jobs[j].project, Terminal) :
                      jobs[k].updatedAt + Interval <= clock]_vars
    <2> SUFFICES ASSUME IndInv, SpacedInv, [Next]_vars, NEW j \in JobIds,
                        HasStatus(j, {"pending"}), jobs'[j].status = "running",
                        NEW k \in JobsOf(jobs[j].project, Terminal)
                 PROVE  jobs[k].updatedAt + Interval <= clock
      OBVIOUS
    <2>1. jobs \in [JobIds -> Row] /\ clock \in Int /\ Interval \in Int
      BY QueueAssumption DEF IndInv, TypeOK
    <2>2. k \in JobIds /\ HasStatus(k, Terminal) /\ jobs[j].project = jobs[k].project
      BY DEF JobsOf
    <2>3. \/ jobs[k].updatedAt + Interval <= jobs[j].runAfter
          \/ jobs[k].updatedAt + Interval <= clock
      BY <2>2 DEF SpacedInv
    <2>4. ~Tame
      BY DEF Tame, TameRow, HasStatus
    <2>5. ASSUME NEW s, NEW p, NEW t, InsertJob(s, p, t) PROVE FALSE
      BY <2>1, <2>5 DEF InsertJob, NewJob, IsFresh, HasStatus
    <2>6. PICK w \in Workers, i \in JobIds : Claim(w, i)
      BY <2>4, <2>5, JobsStep
    <2>7. i = j /\ jobs[j].runAfter <= clock
      BY <2>1, <2>6 DEF Claim, Claimable, HasStatus
    <2>8. jobs[k].updatedAt \in Int /\ jobs[j].runAfter \in Int
      BY <2>1, <2>2 DEF Row
    <2> QED BY <2>1, <2>3, <2>7, <2>8
  <1> QED BY <1>1, <1>2, <1>3, Invariance, PTL DEF Spec, SyncsAreSpaced
=============================================================================

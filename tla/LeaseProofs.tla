----------------------------- MODULE LeaseProofs -----------------------------
(***************************************************************************)
(* SyncWorkers implements ProjectLease, for every value of its constants.  *)
(*                                                                         *)
(* The argument.  A project has at most one active row, so that who holds  *)
(* its lease, and since when, is read off that row (RowDecides).  A step   *)
(* touches the active row of one project, or the expired rows of several,  *)
(* and is the step of the lease that the row's old and new status name.    *)
(* RowsInv adds to IndInv what a claimed row carries, and that no          *)
(* heartbeat in flight is from the future.                                 *)
(***************************************************************************)
EXTENDS SyncWorkersProofs

RowOK(row) ==
    /\ row.status # "none" => row.project \in Projects
    /\ row.status = "running" => row.claimedBy \in Workers /\ row.claimedAt \in Int

RowsInv ==
    /\ \A j \in JobIds : RowOK(jobs[j])
    /\ \A w \in Workers : pc[w] \in Working => jobs[held[w]].status # "none"
    /\ \A w \in Workers : beat[w] # None => beat[w].at <= clock

-----------------------------------------------------------------------------
(* The lease that a table gives a project.                                 *)

Of(T, p, S) == {j \in JobIds : T[j].project = p /\ T[j].status \in S}
RowIn(T, p) == T[CHOOSE j \in JobIds : T[j].project = p /\ T[j].status \in Active]

HolderIn(T, p) ==
    CASE Of(T, p, Active) = {} -> "idle"
      [] Of(T, p, {"pending"}) # {} -> "queued"
      [] OTHER -> RowIn(T, p).claimedBy

RenewedIn(T, p) == IF Of(T, p, {"running"}) = {} THEN 0 ELSE RowIn(T, p).claimedAt

LEMMA Mapped ==
    ASSUME NEW p \in Projects
    PROVE  /\ Holder(p) = HolderIn(jobs, p) /\ Holder(p)' = HolderIn(jobs', p)
           /\ RenewedAt(p) = RenewedIn(jobs, p) /\ RenewedAt(p)' = RenewedIn(jobs', p)
  BY DEF Holder, RenewedAt, HolderIn, RenewedIn, RowIn, Of, ActiveJob, JobsOf, HasStatus

LEMMA NobodyHolds ==
    ASSUME NEW T, NEW p, Of(T, p, Active) = {}
    PROVE  HolderIn(T, p) = "idle" /\ RenewedIn(T, p) = 0
  BY DEF HolderIn, RenewedIn, Of, Active

\* The only row of p that may be active decides.
LEMMA RowDecides ==
    ASSUME NEW T, NEW p, NEW j \in JobIds, T[j].project = p,
           \A i \in JobIds : i # j /\ T[i].project = p => T[i].status \notin Active
    PROVE  /\ T[j].status = "pending" => HolderIn(T, p) = "queued" /\ RenewedIn(T, p) = 0
           /\ T[j].status = "running" => /\ HolderIn(T, p) = T[j].claimedBy
                                         /\ RenewedIn(T, p) = T[j].claimedAt
           /\ T[j].status \notin Active => HolderIn(T, p) = "idle" /\ RenewedIn(T, p) = 0
<1>1. CASE T[j].status \notin Active
  <2>1. Of(T, p, Active) = {}
    BY <1>1 DEF Of
  <2> QED  BY <1>1, <2>1, NobodyHolds DEF Active
<1>2. CASE T[j].status \in Active
  <2>1. Of(T, p, Active) = {j}
    BY <1>2 DEF Of
  <2>2. RowIn(T, p) = T[j]
    <3>1. (CHOOSE i \in JobIds : T[i].project = p /\ T[i].status \in Active) = j
      BY <1>2
    <3> QED  BY <3>1 DEF RowIn
  <2>3. CASE T[j].status = "pending"
    <3>1. Of(T, p, {"pending"}) = {j} /\ Of(T, p, {"running"}) = {}
      BY <2>1, <2>3 DEF Of, Active
    <3>2. Of(T, p, Active) # {}
      BY <2>1
    <3> QED  BY <2>3, <3>1, <3>2 DEF HolderIn, RenewedIn, Active
  <2>4. CASE T[j].status = "running"
    <3>1. Of(T, p, {"pending"}) = {} /\ Of(T, p, {"running"}) = {j}
      BY <2>1, <2>4 DEF Of, Active
    <3>2. Of(T, p, Active) # {}
      BY <2>1
    <3> QED  BY <2>2, <2>4, <3>1, <3>2 DEF HolderIn, RenewedIn, Active
  <2> QED  BY <1>2, <2>3, <2>4 DEF Active
<1> QED  BY <1>1, <1>2

\* A table with the same active row of p gives p the same lease.
LEMMA SameRowSameLease ==
    ASSUME NEW T, NEW U, NEW p,
           \A i, j \in Of(T, p, Active) : i = j,
           \A j \in JobIds : U[j] = T[j] \/ (j \notin Of(T, p, Active) /\ j \notin Of(U, p, Active))
    PROVE  HolderIn(U, p) = HolderIn(T, p) /\ RenewedIn(U, p) = RenewedIn(T, p)
<1>0. Of(U, p, Active) = Of(T, p, Active)
  BY DEF Of
<1>1. CASE Of(T, p, Active) = {}
  BY <1>0, <1>1, NobodyHolds
<1>2. CASE Of(T, p, Active) # {}
  <2>1. PICK j \in JobIds : j \in Of(T, p, Active)
    BY <1>2 DEF Of
  <2>2. U[j] = T[j] /\ T[j].project = p /\ T[j].status \in Active
    BY <2>1 DEF Of
  <2>3. \A i \in JobIds : i # j /\ T[i].project = p => T[i].status \notin Active
    BY <2>1 DEF Of
  <2>4. \A i \in JobIds : i # j /\ U[i].project = p => U[i].status \notin Active
    BY <1>0, <2>1 DEF Of
  <2>5. U[j].project = p
    BY <2>2
  <2> QED  BY <2>2, <2>3, <2>4, <2>5, RowDecides DEF Active
<1> QED  BY <1>1, <1>2

-----------------------------------------------------------------------------
(* RowsInv is inductive.                                                   *)

\* Rows stay, and stay with their project.
LEMMA RowsStay ==
    ASSUME IndInv, [Next]_vars, NEW j \in JobIds, jobs[j].status # "none"
    PROVE  jobs'[j].status # "none" /\ jobs'[j].project = jobs[j].project
<1>0. jobs \in [JobIds -> Row]
  BY DEF IndInv, TypeOK
<1>1. CASE Tame
  BY <1>1 DEF Tame, TameRow
<1>2. ASSUME NEW s \in Workers \cup Clients, NEW p \in Projects, NEW t \in Int, InsertJob(s, p, t)
      PROVE  jobs'[j] = jobs[j]
  BY <1>0, <1>2 DEF InsertJob, IsFresh, HasStatus
<1>3. ASSUME NEW w \in Workers, NEW i \in JobIds, Claim(w, i)
      PROVE  jobs'[j].status # "none" /\ jobs'[j].project = jobs[j].project
  BY <1>0, <1>3 DEF Claim, ClaimedRow
<1> QED  BY <1>1, <1>2, <1>3, JobsStep

LEMMA RowsKeepTypes ==
    ASSUME IndInv, RowsInv, [Next]_vars, NEW j \in JobIds
    PROVE  RowOK(jobs'[j])
<1>0. jobs \in [JobIds -> Row] /\ clock \in Int /\ RowOK(jobs[j])
  BY DEF IndInv, TypeOK, RowsInv
<1>1. CASE Tame
  <2>1. CASE jobs'[j] = jobs[j]
    BY <1>0, <2>1 DEF RowOK
  <2>2. CASE TameRow(jobs[j], jobs'[j])
    BY <1>0, <2>2 DEF RowOK, TameRow, Active
  <2> QED  BY <1>1, <2>1, <2>2 DEF Tame
<1>2. ASSUME NEW s \in Workers \cup Clients, NEW p \in Projects, NEW t \in Int, InsertJob(s, p, t)
      PROVE  RowOK(jobs'[j])
  <2>1. PICK i \in JobIds : jobs' = [jobs EXCEPT ![i] = NewJob(p, t)]
    BY <1>2 DEF InsertJob
  <2>2. NewJob(p, t).status = "pending" /\ NewJob(p, t).project = p
    BY DEF NewJob
  <2>3. jobs'[j] = jobs[j] \/ jobs'[j] = NewJob(p, t)
    BY <1>0, <2>1
  <2> QED  BY <1>0, <2>2, <2>3 DEF RowOK
<1>3. ASSUME NEW w \in Workers, NEW i \in JobIds, Claim(w, i)
      PROVE  RowOK(jobs'[j])
  <2>1. jobs[i].status = "pending" /\ jobs' = [jobs EXCEPT ![i] = ClaimedRow(jobs[i], w)]
    BY <1>3 DEF Claim, Claimable, HasStatus
  <2>2. RowOK(ClaimedRow(jobs[i], w))
    BY <1>0, <2>1 DEF RowsInv, RowOK, ClaimedRow
  <2>3. jobs'[j] = jobs[j] \/ jobs'[j] = ClaimedRow(jobs[i], w)
    BY <1>0, <2>1
  <2> QED  BY <1>0, <2>2, <2>3
<1> QED  BY <1>1, <1>2, <1>3, JobsStep

\* What a step does to a worker that works after it: it did before, or claims.
LEMMA StillOrClaims ==
    ASSUME IndInv, [Next]_vars, NEW w \in Workers, pc'[w] \in Working
    PROVE  \/ pc[w] \in Working /\ held'[w] = held[w]
           \/ \E j \in JobIds : ClaimJob(w, j)
<1>0. /\ pc \in [Workers -> PCs] /\ held \in [Workers -> JobIds \cup {None}]
      /\ {"start", "down", "discover", "schedule"} \cap Working = {}
      /\ {"execute", "fail"} \cup Settling = Working
  BY DEF IndInv, TypeOK, Working, Settling
<1>1. CASE UNCHANGED <<pc, held>>
  BY <1>1
<1>2. ASSUME NEW v \in Workers, Proceed(v), ~ \E j \in JobIds : ClaimJob(v, j)
      PROVE  pc[w] \in Working /\ held'[w] = held[w]
  <2>1. CASE StartIteration(v) \/ ReadEnables(v) \/ ReadAllowlist(v) \/ ClaimNothing(v)
    BY <1>0, <2>1 DEF StartIteration, ReadEnables, ReadAllowlist, ReadTargets, ClaimNothing
  <2>2. CASE \E p \in Projects : CoalesceTarget(v, p) \/ CheckTarget(v, p) \/ InsertTarget(v, p)
    BY <1>1, <2>2 DEF CoalesceTarget, CheckTarget, InsertTarget, workerVars
  <2>3. CASE Settle(v) \/ Fail(v)
    BY <1>0, <2>3 DEF Settle, Fail, Leave
  <2>4. CASE SettleErrs(v)
    BY <1>0, <2>4 DEF SettleErrs, Leave, GoTo
  <2> QED  BY <1>2, <2>1, <2>2, <2>3, <2>4 DEF Proceed
<1>3. ASSUME NEW v \in Workers, NEW j \in JobIds, ClaimJob(v, j), v # w
      PROVE  pc[w] \in Working /\ held'[w] = held[w]
  BY <1>0, <1>3 DEF ClaimJob
<1>4. ASSUME NEW v \in Workers, EndExecution(v) \/ Crash(v) \/ Restart(v)
      PROVE  pc[w] \in Working /\ held'[w] = held[w]
  BY <1>0, <1>4 DEF EndExecution, ExecuteThrows, ExecuteReturns, Leave, GoTo, Crash, Restart
<1>5. ASSUME NEW v \in Workers, SendHeartbeat(v) \/ AnswerHeartbeat(v)
      PROVE  UNCHANGED <<pc, held>>
  BY <1>5 DEF SendHeartbeat, AnswerHeartbeat, HeartbeatLands, HeartbeatErrs
<1>6. CASE UNCHANGED vars \/ Tick \/ \E p \in Projects : Environment(p)
  BY <1>1, <1>6 DEF vars, Tick, Environment, AddProject, EnableProject, DisableProject,
     RemoveProject, EnqueueCheck, EnqueueInsert, workerVars
<1> QED  BY <1>1, <1>2, <1>3, <1>4, <1>5, <1>6 DEF Next

LEMMA BeatsKeep ==
    ASSUME IndInv, RowsInv, [Next]_vars, NEW w \in Workers, beat'[w] # None
    PROVE  beat'[w].at <= clock'
<1>0. beat \in [Workers -> Beat \cup {None}] /\ clock \in Nat
  BY DEF IndInv, TypeOK
<1>1. ASSUME beat[w] # None PROVE beat[w].at \in Int /\ beat[w].at <= clock /\ beat[w] \in Beat
  BY <1>0, <1>1 DEF Beat, RowsInv
<1>2. CASE beat' = beat /\ clock' \in {clock, clock + 1}
  BY <1>0, <1>1, <1>2
<1>3. ASSUME NEW v \in Workers, NEW next, Leave(v, next), clock' = clock
      PROVE  beat'[w].at <= clock'
  <2>1. ASSUME NEW b \in Beat PROVE [b EXCEPT !.live = FALSE].at = b.at
    BY DEF Beat
  <2>2. beat'[w] = beat[w] \/ (beat[w] # None /\ beat'[w] = [beat[w] EXCEPT !.live = FALSE])
    BY <1>0, <1>3 DEF Leave
  <2> QED  BY <1>1, <1>3, <2>1, <2>2
<1>4. ASSUME NEW v \in Workers, SendHeartbeat(v) PROVE beat'[w].at <= clock'
  <2>1. /\ beat' = [beat EXCEPT ![v] = [job |-> held[v], at |-> clock, live |-> TRUE]]
        /\ clock' = clock
    BY <1>4 DEF SendHeartbeat
  <2>2. beat'[w] = beat[w] \/ beat'[w] = [job |-> held[v], at |-> clock, live |-> TRUE]
    BY <1>0, <2>1
  <2> QED  BY <1>0, <1>1, <2>1, <2>2
<1>5. ASSUME NEW v \in Workers, AnswerHeartbeat(v) PROVE beat'[w].at <= clock'
  <2>1. beat' = [beat EXCEPT ![v] = None] /\ clock' = clock
    BY <1>5 DEF AnswerHeartbeat, HeartbeatLands, HeartbeatErrs
  <2> QED  BY <1>0, <1>1, <2>1
<1>6. ASSUME NEW v \in Workers, Proceed(v) \/ EndExecution(v) \/ Crash(v) \/ Restart(v)
      PROVE  clock' = clock /\ (beat' = beat \/ \E next : Leave(v, next))
  BY <1>6 DEF Proceed, EndExecution, StartIteration, ReadEnables, ReadAllowlist, ReadTargets,
     CoalesceTarget, CheckTarget, InsertTarget, ClaimJob, ClaimNothing, Settle, SettleErrs,
     Fail, ExecuteReturns, ExecuteThrows, Crash, Restart, GoTo, workerVars
<1>7. CASE UNCHANGED vars \/ Tick \/ \E p \in Projects : Environment(p)
  BY <1>2, <1>7 DEF vars, Tick, Environment, AddProject, EnableProject, DisableProject,
     RemoveProject, EnqueueCheck, EnqueueInsert, workerVars
<1> QED  BY <1>2, <1>3, <1>4, <1>5, <1>6, <1>7 DEF Next

LEMMA RowsInvariance == Spec => []RowsInv
<1>1. Init => RowsInv
  <2> SUFFICES ASSUME Init PROVE RowsInv
    OBVIOUS
  <2>1. "start" \notin Working
    BY DEF Working, Settling
  <2> QED  BY <2>1 DEF Init, QueueInit, NoRow, RowsInv, RowOK
<1>2. IndInv /\ IndInv' /\ RowsInv /\ [Next]_vars => RowsInv'
  <2> SUFFICES ASSUME IndInv, IndInv', RowsInv, [Next]_vars PROVE RowsInv'
    OBVIOUS
  <2>1. ASSUME NEW w \in Workers, pc'[w] \in Working
        PROVE  jobs'[held'[w]].status # "none"
    <3>1. CASE pc[w] \in Working /\ held'[w] = held[w]
      <4>1. held[w] \in JobIds /\ jobs[held[w]].status # "none"
        BY <3>1 DEF IndInv, HoldsWork, RowsInv
      <4> DEFINE i == held[w]
      <4>2. i \in JobIds /\ held'[w] = i
        BY <3>1, <4>1
      <4> HIDE DEF i
      <4>3. jobs[i].status # "none"
        BY <4>1 DEF i
      <4> QED  BY <4>2, <4>3, RowsStay
    <3>2. CASE \E j \in JobIds : ClaimJob(w, j)
      <4>1. PICK j \in JobIds : ClaimJob(w, j)
        BY <3>2
      <4>2. held'[w] = j /\ jobs'[j] = ClaimedRow(jobs[j], w)
        BY <4>1 DEF ClaimJob, Claim, IndInv, TypeOK
      <4> QED  BY <4>2 DEF ClaimedRow
    <3> QED  BY <2>1, <3>1, <3>2, StillOrClaims
  <2>2. \A j \in JobIds : RowOK(jobs'[j])
    BY RowsKeepTypes
  <2>3. \A w \in Workers : beat'[w] # None => beat'[w].at <= clock'
    BY BeatsKeep
  <2>4. \A j \in JobIds : RowOK(jobs[j])'
    BY <2>2 DEF RowOK
  <2> QED  BY <2>1, <2>3, <2>4 DEF RowsInv
<1> QED  BY <1>1, <1>2, Invariance, PTL DEF Spec

-----------------------------------------------------------------------------
(* Steps of the lease, by what they do to the project and the worker.      *)

BusyWith(w) == IF pc[w] \in Working THEN jobs[held[w]].project ELSE None

SameBusy(W) == \A w \in W : BusyWith(w)' = BusyWith(w)
SameLease(P) == \A p \in P : Holder(p)' = Holder(p) /\ RenewedAt(p)' = RenewedAt(p)

LEMMA AbstractStutter ==
    ASSUME SameLease(Projects), SameBusy(Workers), clock' = clock
    PROVE  UNCHANGED Lease!vars
  BY DEF Lease!vars, SameLease, SameBusy, BusyWith

LEMMA AbstractTick ==
    ASSUME SameLease(Projects), SameBusy(Workers), clock' = clock + 1
    PROVE  Lease!Next
  BY DEF Lease!Next, Lease!Tick, SameLease, SameBusy, BusyWith

LEMMA AbstractRequest ==
    ASSUME NEW p \in Projects, Holder(p) = "idle", Holder(p)' = "queued",
           RenewedAt(p)' = RenewedAt(p), SameLease(Projects \ {p}), SameBusy(Workers),
           clock' = clock
    PROVE  Lease!Next
<1>1. Lease!Request(p)
  BY DEF Lease!Request, SameLease, SameBusy, BusyWith
<1> QED  BY <1>1 DEF Lease!Next

LEMMA AbstractGrant ==
    ASSUME NEW p \in Projects, NEW w \in Workers, Holder(p) = "queued", Holder(p)' = w,
           RenewedAt(p)' = clock, SameLease(Projects \ {p}),
           BusyWith(w) = None, BusyWith(w)' = p, SameBusy(Workers \ {w}), clock' = clock
    PROVE  Lease!Next
<1>1. Lease!Grant(p, w)
  BY DEF Lease!Grant, SameLease, SameBusy, BusyWith
<1> QED  BY <1>1 DEF Lease!Next

LEMMA AbstractRenew ==
    ASSUME NEW p \in Projects, Holder(p) \in Workers, Holder(p)' = Holder(p),
           RenewedAt(p)' <= clock, SameLease(Projects \ {p}), SameBusy(Workers),
           clock' = clock
    PROVE  Lease!Next
<1>1. Lease!Renew(p)
  BY DEF Lease!Renew, SameLease, SameBusy, BusyWith
<1> QED  BY <1>1 DEF Lease!Next

LEMMA AbstractHandBack ==
    ASSUME NEW p \in Projects, NEW w \in Workers, Holder(p) = w,
           Holder(p)' \in {"idle", "queued"}, RenewedAt(p)' = 0, SameLease(Projects \ {p}),
           BusyWith(w) = p, BusyWith(w)' \in {p, None}, SameBusy(Workers \ {w}),
           clock' = clock
    PROVE  Lease!Next
<1>1. Lease!HandBack(p, w)
  BY DEF Lease!HandBack, SameLease, SameBusy, BusyWith
<1> QED  BY <1>1 DEF Lease!Next

LEMMA AbstractGiveUp ==
    ASSUME NEW w \in Workers, BusyWith(w) # None, BusyWith(w)' = None,
           SameBusy(Workers \ {w}), SameLease(Projects), clock' = clock
    PROVE  Lease!Next
<1>1. Lease!GiveUp(w)
  BY DEF Lease!GiveUp, SameLease, SameBusy, BusyWith
<1> QED  BY <1>1 DEF Lease!Next

LEMMA AbstractRevoke ==
    ASSUME NEW S \in SUBSET Projects,
           \A p \in S : /\ Holder(p) \in Workers /\ RenewedAt(p) < clock - Stale
                        /\ Holder(p)' \in {"idle", "queued"} /\ RenewedAt(p)' = 0,
           SameLease(Projects \ S), SameBusy(Workers), clock' = clock
    PROVE  Lease!Next
<1>1. Lease!Revoke(S)
  BY DEF Lease!Revoke, SameLease, SameBusy, BusyWith
<1> QED  BY <1>1 DEF Lease!Next

LEMMA AbstractCancel ==
    ASSUME NEW p \in Projects, Holder(p) # "idle", Holder(p)' = "idle", RenewedAt(p)' = 0,
           SameLease(Projects \ {p}), SameBusy(Workers), clock' = clock
    PROVE  Lease!Next
<1>1. Lease!Cancel(p)
  BY DEF Lease!Cancel, SameLease, SameBusy, BusyWith
<1> QED  BY <1>1 DEF Lease!Next

AbstractStep == Lease!Next \/ UNCHANGED Lease!vars

-----------------------------------------------------------------------------
(* What the statements do to leases.                                       *)

LEMMA OnlyActive ==
    ASSUME IndInv, NEW j \in JobIds, HasStatus(j, Active)
    PROVE  \A i \in JobIds : i # j /\ jobs[i].project = jobs[j].project
                                => jobs[i].status \notin Active
  BY DEF IndInv, AtMostOneActiveJob, HasStatus

LEMMA LeaseBefore ==
    ASSUME IndInv, NEW p \in Projects, NEW j \in JobIds, jobs[j].project = p
    PROVE  /\ HasStatus(j, {"pending"}) => Holder(p) = "queued" /\ RenewedAt(p) = 0
           /\ HasStatus(j, {"running"}) => /\ Holder(p) = jobs[j].claimedBy
                                           /\ RenewedAt(p) = jobs[j].claimedAt
<1> SUFFICES ASSUME HasStatus(j, Active)
             PROVE  /\ HasStatus(j, {"pending"}) => Holder(p) = "queued" /\ RenewedAt(p) = 0
                    /\ HasStatus(j, {"running"}) => /\ Holder(p) = jobs[j].claimedBy
                                                    /\ RenewedAt(p) = jobs[j].claimedAt
  BY DEF HasStatus, Active
<1>1. \A i \in JobIds : i # j /\ jobs[i].project = p => jobs[i].status \notin Active
  BY OnlyActive
<1>2. /\ jobs[j].status = "pending" => HolderIn(jobs, p) = "queued" /\ RenewedIn(jobs, p) = 0
      /\ jobs[j].status = "running" => /\ HolderIn(jobs, p) = jobs[j].claimedBy
                                       /\ RenewedIn(jobs, p) = jobs[j].claimedAt
  BY <1>1, RowDecides
<1> QED  BY <1>2, Mapped DEF HasStatus

LEMMA SameTable ==
    ASSUME jobs' = jobs
    PROVE  SameLease(Projects)
  BY Mapped DEF SameLease

\* One row of p changes, and p has no other active one.
LEMMA OneRowChanges ==
    ASSUME IndInv, NEW p \in Projects, NEW j \in JobIds, NEW row,
           jobs'[j] = row, \A i \in JobIds : i # j => jobs'[i] = jobs[i], row.project = p,
           jobs[j].project = p \/ jobs[j].status = "none",
           \A i \in JobIds : i # j /\ jobs[i].project = p => jobs[i].status \notin Active
    PROVE  /\ SameLease(Projects \ {p})
           /\ row.status = "pending" => Holder(p)' = "queued" /\ RenewedAt(p)' = 0
           /\ row.status = "running" => /\ Holder(p)' = row.claimedBy
                                        /\ RenewedAt(p)' = row.claimedAt
           /\ row.status \notin Active => Holder(p)' = "idle" /\ RenewedAt(p)' = 0
<1>1. SameLease(Projects \ {p})
  <2> SUFFICES ASSUME NEW q \in Projects \ {p}
               PROVE  Holder(q)' = Holder(q) /\ RenewedAt(q)' = RenewedAt(q)
    BY DEF SameLease
  <2>1. \A i, k \in Of(jobs, q, Active) : i = k
    BY DEF IndInv, AtMostOneActiveJob, HasStatus, Of
  <2>2. j \notin Of(jobs, q, Active) /\ j \notin Of(jobs', q, Active)
    BY DEF Of, Active
  <2>0. PICK U : U = jobs'
    OBVIOUS
  <2>3. \A i \in JobIds :
           U[i] = jobs[i] \/ (i \notin Of(jobs, q, Active) /\ i \notin Of(U, q, Active))
    BY <2>0, <2>2
  <2>4. HolderIn(U, q) = HolderIn(jobs, q) /\ RenewedIn(U, q) = RenewedIn(jobs, q)
    BY <2>1, <2>3, SameRowSameLease
  <2> QED  BY <2>0, <2>4, Mapped
<1>2. \A i \in JobIds : i # j /\ jobs'[i].project = p => jobs'[i].status \notin Active
  OBVIOUS
<1>3. jobs'[j].project = p
  OBVIOUS
<1>4. /\ row.status = "pending" => HolderIn(jobs', p) = "queued" /\ RenewedIn(jobs', p) = 0
      /\ row.status = "running" => /\ HolderIn(jobs', p) = row.claimedBy
                                   /\ RenewedIn(jobs', p) = row.claimedAt
      /\ row.status \notin Active => HolderIn(jobs', p) = "idle" /\ RenewedIn(jobs', p) = 0
  <2>0. PICK U : U = jobs'
    OBVIOUS
  <2>1. U[j] = row /\ U[j].project = p
    BY <2>0
  <2>2. \A i \in JobIds : i # j /\ U[i].project = p => U[i].status \notin Active
    BY <1>2, <2>0
  <2>3. /\ U[j].status = "pending" => HolderIn(U, p) = "queued" /\ RenewedIn(U, p) = 0
        /\ U[j].status = "running" => /\ HolderIn(U, p) = U[j].claimedBy
                                      /\ RenewedIn(U, p) = U[j].claimedAt
        /\ U[j].status \notin Active => HolderIn(U, p) = "idle" /\ RenewedIn(U, p) = 0
    BY <2>1, <2>2, RowDecides
  <2> QED  BY <2>0, <2>1, <2>3
<1> QED  BY <1>1, <1>4, Mapped

\* A worker that keeps its job stays busy with the same project.
LEMMA KeepsBusy ==
    ASSUME IndInv, RowsInv, [Next]_vars, NEW w \in Workers, pc[w] \in Working,
           pc'[w] \in Working, held'[w] = held[w]
    PROVE  BusyWith(w)' = BusyWith(w) /\ BusyWith(w) \in Projects
<1>1. held[w] \in JobIds /\ jobs[held[w]].status # "none"
  BY DEF IndInv, HoldsWork, RowsInv
<1>2. jobs'[held[w]].project = jobs[held[w]].project
  BY <1>1, RowsStay
<1>3. jobs[held[w]].project \in Projects
  BY <1>1 DEF RowsInv, RowOK
<1> QED  BY <1>2, <1>3 DEF BusyWith

LEMMA OthersBusy ==
    ASSUME IndInv, RowsInv, [Next]_vars, NEW W \in SUBSET Workers,
           \A w \in W : pc'[w] \in Working => pc[w] \in Working /\ held'[w] = held[w],
           \A w \in W : pc[w] \in Working => pc'[w] \in Working
    PROVE  SameBusy(W)
<1> SUFFICES ASSUME NEW w \in W PROVE BusyWith(w)' = BusyWith(w)
  BY DEF SameBusy
<1>1. CASE pc[w] \in Working
  BY <1>1, KeepsBusy
<1>2. CASE pc[w] \notin Working
  BY <1>2 DEF BusyWith
<1> QED  BY <1>1, <1>2

LEMMA BusyWithOne ==
    ASSUME IndInv, RowsInv, NEW w \in Workers, pc[w] \in Working
    PROVE  /\ held[w] \in JobIds /\ jobs[held[w]].status # "none"
           /\ jobs[held[w]].project \in Projects
           /\ BusyWith(w) = jobs[held[w]].project /\ BusyWith(w) # None
  BY QueueAssumption DEF IndInv, HoldsWork, RowsInv, RowOK, BusyWith

-----------------------------------------------------------------------------
(* Each action is a step of the lease.                                     *)

\* The other workers go on with what they do.
Undisturbed(w) == \A v \in Workers \ {w} : pc'[v] = pc[v] /\ held'[v] = held[v]

LEMMA QuietStep ==
    ASSUME IndInv, RowsInv, [Next]_vars, jobs' = jobs, clock' = clock,
           \A w \in Workers : pc'[w] \in Working => pc[w] \in Working /\ held'[w] = held[w],
           \A w \in Workers : pc[w] \in Working => pc'[w] \in Working
    PROVE  AbstractStep
<1>1. SameBusy(Workers)
  BY OthersBusy
<1> QED  BY <1>1, SameTable, AbstractStutter DEF AbstractStep

\* The table stays, and one worker may stop working.
LEMMA LeavingStep ==
    ASSUME IndInv, RowsInv, [Next]_vars, NEW w \in Workers, jobs' = jobs, clock' = clock,
           Undisturbed(w), pc'[w] \in Working => pc[w] \in Working /\ held'[w] = held[w]
    PROVE  AbstractStep
<1>1. CASE pc[w] \in Working /\ pc'[w] \notin Working
  <2>1. SameBusy(Workers \ {w})
    BY OthersBusy DEF Undisturbed
  <2>2. BusyWith(w) # None
    BY <1>1, BusyWithOne
  <2>3. BusyWith(w)' = None
    BY <1>1 DEF BusyWith
  <2> QED  BY <2>1, <2>2, <2>3, SameTable, AbstractGiveUp DEF AbstractStep
<1>2. CASE ~(pc[w] \in Working /\ pc'[w] \notin Working)
  BY <1>2, QuietStep DEF Undisturbed
<1> QED  BY <1>1, <1>2

\* A transaction inserts: the project was idle, for the lock says so.
LEMMA InsertingStep ==
    ASSUME IndInv, RowsInv, [Next]_vars, NEW s, NEW p \in Projects, NEW t,
           InsertJob(s, p, t), clock' = clock, pc' = pc, held' = held
    PROVE  AbstractStep
<1>1. PICK j \in JobIds : /\ HasStatus(j, {"none"})
                          /\ jobs' = [jobs EXCEPT ![j] = NewJob(p, t)]
  BY DEF InsertJob, IsFresh
<1>2. PICK row : row = NewJob(p, t)
  OBVIOUS
<1>3. Of(jobs, p, Active) = {}
  BY DEF InsertJob, IndInv, LockInv, JobsOf, HasStatus, Of
<1>4. Holder(p) = "idle" /\ RenewedAt(p) = 0
  BY <1>3, NobodyHolds, Mapped
<1>5. \A i \in JobIds : i # j /\ jobs[i].project = p => jobs[i].status \notin Active
  BY <1>3 DEF Of
<1>6. row.status = "pending" /\ row.project = p /\ jobs' = [jobs EXCEPT ![j] = row]
  BY <1>1, <1>2 DEF NewJob
<1>7a. jobs'[j] = row /\ \A i \in JobIds : i # j => jobs'[i] = jobs[i]
  BY <1>6 DEF IndInv, TypeOK
<1>7. jobs[j].status = "none"
  BY <1>1 DEF HasStatus
<1>8. SameLease(Projects \ {p}) /\ Holder(p)' = "queued" /\ RenewedAt(p)' = 0
  BY <1>5, <1>6, <1>7, <1>7a, OneRowChanges
<1>9. SameBusy(Workers)
  BY OthersBusy
<1> QED  BY <1>4, <1>8, <1>9, AbstractRequest DEF AbstractStep

LEMMA ClaimingStep ==
    ASSUME IndInv, RowsInv, [Next]_vars, NEW w \in Workers, NEW j \in JobIds, ClaimJob(w, j)
    PROVE  AbstractStep
<1>a. PICK p : p = jobs[j].project
  OBVIOUS
<1>b. PICK row : row = ClaimedRow(jobs[j], w)
  OBVIOUS
<1>0. /\ jobs \in [JobIds -> Row] /\ pc \in [Workers -> PCs]
      /\ held \in [Workers -> JobIds \cup {None}]
  BY DEF IndInv, TypeOK
<1>1. /\ HasStatus(j, {"pending"}) /\ jobs' = [jobs EXCEPT ![j] = row]
      /\ pc' = [pc EXCEPT ![w] = "execute"] /\ held' = [held EXCEPT ![w] = j]
      /\ pc[w] = "schedule" /\ clock' = clock
  BY <1>b DEF ClaimJob, Claim, Claimable, ReadyToClaim
<1>2. row.status = "running" /\ row.project = p /\ row.claimedBy = w /\ row.claimedAt = clock
  BY <1>a, <1>b DEF ClaimedRow
<1>3. p \in Projects
  BY <1>a, <1>1 DEF RowsInv, RowOK, HasStatus
<1>4. \A i \in JobIds : i # j /\ jobs[i].project = p => jobs[i].status \notin Active
  BY <1>a, <1>1, OnlyActive DEF HasStatus, Active
<1>5. Holder(p) = "queued"
  BY <1>a, <1>1, <1>3, LeaseBefore
<1>6. jobs'[j] = row /\ \A i \in JobIds : i # j => jobs'[i] = jobs[i]
  BY <1>0, <1>1
<1>7. "schedule" \notin Working /\ "execute" \in Working
  BY DEF Working, Settling
<1>8. BusyWith(w) = None /\ BusyWith(w)' = p
  BY <1>0, <1>1, <1>2, <1>6, <1>7 DEF BusyWith
<1>9. SameBusy(Workers \ {w})
  BY <1>0, <1>1, OthersBusy
<1>10. SameLease(Projects \ {p}) /\ Holder(p)' = w /\ RenewedAt(p)' = clock
  <2>1. jobs[j].project = p /\ row.project = p /\ row.status = "running"
    BY <1>a, <1>2
  <2>2. /\ SameLease(Projects \ {p})
        /\ Holder(p)' = row.claimedBy /\ RenewedAt(p)' = row.claimedAt
    BY <2>1, <1>3, <1>4, <1>6, OneRowChanges
  <2> QED  BY <1>2, <2>2
<1> QED  BY <1>1, <1>3, <1>5, <1>8, <1>9, <1>10, AbstractGrant DEF AbstractStep

\* A heartbeat renews the claim it finds, or finds none.
LEMMA RenewingStep ==
    ASSUME IndInv, RowsInv, [Next]_vars, NEW w \in Workers, NEW j \in JobIds,
           NEW at \in Int, at <= clock, Heartbeat(j, w, at),
           clock' = clock, pc' = pc, held' = held
    PROVE  AbstractStep
<1>1. CASE Owned(j, w)
  <2>a. PICK p : p = jobs[j].project
    OBVIOUS
  <2>b. PICK row : row = [jobs[j] EXCEPT !.claimedAt = at]
    OBVIOUS
  <2>0. jobs[j] \in Row
    BY DEF IndInv, TypeOK
  <2>1. /\ row.status = "running" /\ row.project = p /\ row.claimedBy = w /\ row.claimedAt = at
        /\ HasStatus(j, {"running"}) /\ jobs[j].claimedBy = w
    BY <1>1, <2>0, <2>a, <2>b DEF Owned, HasStatus, Row
  <2>2. jobs'[j] = row /\ \A i \in JobIds : i # j => jobs'[i] = jobs[i]
    BY <1>1, <2>b DEF Heartbeat, UpdateOwned, IndInv, TypeOK
  <2>3. p \in Projects
    BY <2>1, <2>a DEF RowsInv, RowOK, HasStatus
  <2>4. \A i \in JobIds : i # j /\ jobs[i].project = p => jobs[i].status \notin Active
    BY <1>1, <2>a, OwnedIsActive, OnlyActive
  <2>5. Holder(p) = w
    BY <2>1, <2>3, <2>a, LeaseBefore
  <2>6. SameBusy(Workers)
    BY OthersBusy
  <2>7. SameLease(Projects \ {p}) /\ Holder(p)' = w /\ RenewedAt(p)' = at
    BY <2>1, <2>2, <2>3, <2>4, <2>a, OneRowChanges
  <2> QED  BY <2>3, <2>5, <2>6, <2>7, AbstractRenew DEF AbstractStep
<1>2. CASE ~Owned(j, w)
  BY <1>2, QuietStep DEF Heartbeat, UpdateOwned
<1> QED  BY <1>1, <1>2

\* The holder settles its job, or finds that it holds none; it may not learn of it.
LEMMA SettlingStep ==
    ASSUME IndInv, RowsInv, [Next]_vars, NEW w \in Workers, pc[w] \in Working, NEW row,
           UpdateOwned(held[w], w, row),
           Owned(held[w], w) => /\ row.project = jobs[held[w]].project
                                /\ row.status \in Terminal \cup {"pending"},
           clock' = clock, Undisturbed(w), pc'[w] \in Working => held'[w] = held[w]
    PROVE  AbstractStep
<1>1. CASE Owned(held[w], w)
  <2>a. PICK j : j = held[w]
    OBVIOUS
  <2>b. PICK p : p = jobs[j].project
    OBVIOUS
  <2>1. j \in JobIds /\ p \in Projects /\ BusyWith(w) = p
    BY <2>a, <2>b, BusyWithOne
  <2>2. jobs'[j] = row /\ \A i \in JobIds : i # j => jobs'[i] = jobs[i]
    BY <1>1, <2>1, <2>a DEF UpdateOwned, IndInv, TypeOK
  <2>3. \A i \in JobIds : i # j /\ jobs[i].project = p => jobs[i].status \notin Active
    BY <1>1, <2>1, <2>a, <2>b, OwnedIsActive, OnlyActive
  <2>4. HasStatus(j, {"running"}) /\ jobs[j].claimedBy = w
    BY <1>1, <2>a DEF Owned
  <2>5. Holder(p) = w
    BY <2>1, <2>4, <2>b, LeaseBefore
  <2>6. SameBusy(Workers \ {w})
    BY OthersBusy DEF Undisturbed
  <2>7. BusyWith(w)' \in {p, None}
    <3>1. CASE pc'[w] \in Working
      BY <2>1, <3>1, KeepsBusy
    <3>2. CASE pc'[w] \notin Working
      BY <3>2 DEF BusyWith
    <3> QED  BY <3>1, <3>2
  <2>8. row.project = p /\ (row.status = "pending" \/ row.status \notin Active)
    BY <1>1, <2>a, <2>b DEF Terminal, Active
  <2>9. /\ SameLease(Projects \ {p})
        /\ Holder(p)' \in {"idle", "queued"} /\ RenewedAt(p)' = 0
    BY <2>1, <2>2, <2>3, <2>8, <2>b, OneRowChanges
  <2>10. BusyWith(w) = p /\ Holder(p) = w /\ p \in Projects
    BY <2>1, <2>5
  <2>11. Lease!Next
    BY <2>6, <2>7, <2>9, <2>10, AbstractHandBack
  <2> QED  BY <2>11 DEF AbstractStep
<1>2. CASE ~Owned(held[w], w)
  BY <1>2, LeavingStep DEF UpdateOwned
<1> QED  BY <1>1, <1>2

\* recoverStaleClaims takes the leases away that were not renewed in time.
LEMMA RecoveringStep ==
    ASSUME IndInv, RowsInv, [Next]_vars, NEW w \in Workers, StartIteration(w)
    PROVE  AbstractStep
<1> DEFINE S == {p \in Projects : \E j \in JobIds : jobs[j].project = p /\ Expired(j, clock)}
<1>0. jobs \in [JobIds -> Row] /\ clock \in Nat /\ pc \in [Workers -> PCs]
  BY DEF IndInv, TypeOK
<1>1. /\ RecoverStaleClaims(clock) /\ clock' = clock /\ held' = held
      /\ pc[w] = "start" /\ pc' = [pc EXCEPT ![w] = "discover"]
  BY DEF StartIteration
<1>2. SameBusy(Workers)
  <2>1. "start" \notin Working /\ "discover" \notin Working
    BY DEF Working, Settling
  <2> QED  BY <1>0, <1>1, <2>1, OthersBusy
<1>3. ASSUME NEW j \in JobIds
      PROVE  /\ ~Expired(j, clock) => jobs'[j] = jobs[j]
             /\ Expired(j, clock) => /\ jobs[j].status = "running"
                                     /\ jobs'[j].project = jobs[j].project
                                     /\ jobs'[j].status \in {"pending", "failed"}
                                     /\ jobs[j].claimedAt < clock - Stale
                                     /\ jobs[j].claimedBy \in Workers
                                     /\ jobs[j].project \in Projects
  <2>1. CASE ~Expired(j, clock)
    BY <1>1, <2>1 DEF RecoverStaleClaims
  <2>2. CASE Expired(j, clock)
    <3>1. jobs[j].status = "running" /\ (jobs[j].claimedAt = None \/ jobs[j].claimedAt < clock - Stale)
      BY <2>2 DEF Expired, HasStatus
    <3>2. jobs[j].claimedBy \in Workers /\ jobs[j].claimedAt \in Int /\ jobs[j].project \in Projects
      BY <3>1 DEF RowsInv, RowOK
    <3>3. jobs[j].claimedAt < clock - Stale
      BY <3>1, <3>2, QueueAssumption
    <3>4. jobs'[j].project = jobs[j].project
      BY <3>1, RowsStay
    <3>5. jobs'[j].status \in {"pending", "failed"}
      <4>1. CASE CanRetry(jobs[j])
        <5>1. jobs'[j] = [Released(jobs[j], "pending") EXCEPT !.runAfter = clock]
          BY <1>1, <2>2, <4>1 DEF RecoverStaleClaims
        <5>2. jobs[j] \in Row
          BY <1>0
        <5> QED  BY <5>1, <5>2 DEF Released, Row
      <4>2. CASE ~CanRetry(jobs[j])
        <5>1. jobs'[j] = Ended(jobs[j], "failed")
          BY <1>1, <2>2, <4>2 DEF RecoverStaleClaims
        <5>2. jobs[j] \in Row
          BY <1>0
        <5> QED  BY <5>1, <5>2, ReleasedFields DEF Statuses
      <4> QED  BY <4>1, <4>2
    <3> QED  BY <2>2, <3>1, <3>2, <3>3, <3>4, <3>5
  <2> QED  BY <2>1, <2>2
<1>4. ASSUME NEW p \in Projects \ S
      PROVE  Holder(p)' = Holder(p) /\ RenewedAt(p)' = RenewedAt(p)
  <2>0. PICK U : U = jobs'
    OBVIOUS
  <2>1. \A i, k \in Of(jobs, p, Active) : i = k
    BY DEF IndInv, AtMostOneActiveJob, HasStatus, Of
  <2>2. ASSUME NEW i \in JobIds
        PROVE  U[i] = jobs[i] \/ (i \notin Of(jobs, p, Active) /\ i \notin Of(U, p, Active))
    <3>1. CASE Expired(i, clock)
      <4>1. jobs[i].project # p
        BY <3>1
      <4>2. U[i].project # p
        BY <1>3, <2>0, <3>1, <4>1
      <4> QED  BY <4>1, <4>2 DEF Of
    <3>2. CASE ~Expired(i, clock)
      BY <1>3, <2>0, <3>2
    <3> QED  BY <3>1, <3>2
  <2>3. HolderIn(U, p) = HolderIn(jobs, p) /\ RenewedIn(U, p) = RenewedIn(jobs, p)
    BY <2>1, <2>2, SameRowSameLease
  <2> QED  BY <2>0, <2>3, Mapped
<1>5. ASSUME NEW p \in S
      PROVE  /\ Holder(p) \in Workers /\ RenewedAt(p) < clock - Stale
             /\ Holder(p)' \in {"idle", "queued"} /\ RenewedAt(p)' = 0
  <2>1. PICK j \in JobIds : jobs[j].project = p /\ Expired(j, clock)
    OBVIOUS
  <2>2. Holder(p) = jobs[j].claimedBy /\ RenewedAt(p) = jobs[j].claimedAt
    BY <1>3, <2>1, LeaseBefore DEF HasStatus
  <2>3. \A i \in JobIds : i # j /\ jobs[i].project = p => jobs[i].status \notin Active
    BY <1>3, <2>1, OnlyActive DEF HasStatus, Active
  <2>0. PICK U : U = jobs'
    OBVIOUS
  <2>4. ASSUME NEW i \in JobIds, i # j, U[i].project = p PROVE U[i].status \notin Active
    <3>1. ~Expired(i, clock)
      <4> SUFFICES ASSUME Expired(i, clock) PROVE FALSE
        OBVIOUS
      <4>1. jobs[i].project = p /\ jobs[i].status = "running"
        BY <1>3, <2>0, <2>4
      <4> QED  BY <2>3, <2>4, <4>1 DEF Active
    <3>2. U[i] = jobs[i]
      BY <1>3, <2>0, <3>1
    <3> QED  BY <2>3, <2>4, <3>2
  <2>5. U[j].project = p /\ U[j].status \in {"pending", "failed"}
    BY <1>3, <2>0, <2>1
  <2>6. HolderIn(U, p) \in {"idle", "queued"} /\ RenewedIn(U, p) = 0
    BY <2>4, <2>5, RowDecides DEF Active
  <2> QED  BY <1>3, <2>0, <2>1, <2>2, <2>6, Mapped
<1> HIDE DEF S
<1>6. SameLease(Projects \ S) /\ S \in SUBSET Projects
  BY <1>4 DEF SameLease, S
<1> QED  BY <1>1, <1>2, <1>5, <1>6, AbstractRevoke DEF AbstractStep

\* removeProject cancels the lease of its project, whoever holds it.
LEMMA RemovingStep ==
    ASSUME "idle" \notin Workers, IndInv, RowsInv, [Next]_vars, NEW p \in Projects, RemoveProject(p)
    PROVE  AbstractStep
<1>0. jobs \in [JobIds -> Row]
  BY DEF IndInv, TypeOK
<1>1. BlockJobsOf(p) /\ clock' = clock /\ pc' = pc /\ held' = held
  BY DEF RemoveProject, workerVars
<1>2. SameBusy(Workers)
  BY <1>1, OthersBusy
<1>3. CASE JobsOf(p, Active) = {}
  <2>1. jobs' = jobs
    BY <1>0, <1>1, <1>3 DEF BlockJobsOf
  <2> QED  BY <1>1, <1>2, <2>1, SameTable, AbstractStutter DEF AbstractStep
<1>4. CASE JobsOf(p, Active) # {}
  <2>1. PICK j \in JobIds : jobs[j].project = p /\ HasStatus(j, Active)
    BY <1>4 DEF JobsOf
  <2>2. \A i \in JobIds : i # j /\ jobs[i].project = p => jobs[i].status \notin Active
    BY <2>1, OnlyActive
  <2>3. PICK row : row = Ended(jobs[j], "sync_blocked")
    OBVIOUS
  <2>4. row.project = p /\ row.status \notin Active
    BY <1>0, <2>1, <2>3, ReleasedFields DEF Statuses, Active
  <2>5. jobs'[j] = row /\ \A i \in JobIds : i # j => jobs'[i] = jobs[i]
    BY <1>1, <2>1, <2>2, <2>3 DEF BlockJobsOf, JobsOf, HasStatus
  <2>6. SameLease(Projects \ {p}) /\ Holder(p)' = "idle" /\ RenewedAt(p)' = 0
    BY <2>1, <2>2, <2>4, <2>5, OneRowChanges
  <2>7. Holder(p) # "idle"
    <3>1. CASE HasStatus(j, {"pending"})
      BY <2>1, <3>1, LeaseBefore
    <3>2. CASE HasStatus(j, {"running"})
      <4>1. jobs[j].claimedBy \in Workers
        BY <3>2 DEF RowsInv, RowOK, HasStatus
      <4> QED  BY <2>1, <3>2, <4>1, LeaseBefore
    <3> QED  BY <2>1, <3>1, <3>2 DEF HasStatus, Active
  <2> QED  BY <1>1, <1>2, <2>6, <2>7, AbstractCancel DEF AbstractStep
<1> QED  BY <1>3, <1>4

\* A statement that ends or requeues the job of w, if w still owns it.
EndsOrWaits(j, w) ==
    \E row : /\ UpdateOwned(j, w, row)
             /\ row.project = jobs[j].project
             /\ row.status \in Terminal \cup {"pending"}

LEMMA SettlingStatements ==
    ASSUME IndInv, NEW j \in JobIds, NEW w \in Workers
    PROVE  /\ Complete(j, w) => EndsOrWaits(j, w)
           /\ SyncBlocked(j, w) => EndsOrWaits(j, w)
           /\ FailFinally(j, w) => EndsOrWaits(j, w)
           /\ \A t : Reschedule(j, w, t) => EndsOrWaits(j, w)
           /\ \A t : FailRetry(j, w, t) => EndsOrWaits(j, w)
<1>0. jobs[j] \in Row
  BY DEF IndInv, TypeOK
<1>1. ASSUME NEW status \in Terminal
      PROVE  /\ Ended(jobs[j], status).project = jobs[j].project
             /\ Ended(jobs[j], status).status \in Terminal \cup {"pending"}
  BY <1>0, ReleasedFields DEF Terminal, Statuses
<1>2. PICK row : row = Released(jobs[j], "pending")
  OBVIOUS
<1>3. row \in Row /\ row.project = jobs[j].project /\ row.status = "pending"
  BY <1>0, <1>2, ReleasedType, ReleasedFields DEF Statuses
<1>4. ASSUME NEW t
      PROVE  /\ [row EXCEPT !.runAfter = t].project = jobs[j].project
             /\ [row EXCEPT !.runAfter = t].status = "pending"
  BY <1>3 DEF Row
<1>5. ASSUME NEW t
      PROVE  /\ [row EXCEPT !.runAfter = t, !.attempts = IF @ > 0 THEN @ - 1 ELSE 0].project
                   = jobs[j].project
             /\ [row EXCEPT !.runAfter = t, !.attempts = IF @ > 0 THEN @ - 1 ELSE 0].status
                   = "pending"
  BY <1>3 DEF Row
<1>6. "completed" \in Terminal /\ "sync_blocked" \in Terminal /\ "failed" \in Terminal
  BY DEF Terminal
<1>7. /\ Complete(j, w) => EndsOrWaits(j, w)
      /\ SyncBlocked(j, w) => EndsOrWaits(j, w)
      /\ FailFinally(j, w) => EndsOrWaits(j, w)
  BY <1>1, <1>6 DEF Complete, SyncBlocked, FailFinally, EndsOrWaits
<1>8. ASSUME NEW t, Reschedule(j, w, t) PROVE EndsOrWaits(j, w)
  <2>1. UpdateOwned(j, w, [row EXCEPT !.runAfter = t, !.attempts = IF @ > 0 THEN @ - 1 ELSE 0])
    BY <1>2, <1>8 DEF Reschedule
  <2> QED  BY <1>5, <2>1 DEF EndsOrWaits
<1>9. ASSUME NEW t, FailRetry(j, w, t) PROVE EndsOrWaits(j, w)
  <2>1. CASE CanRetry(jobs[j])
    <3>1. UpdateOwned(j, w, [row EXCEPT !.runAfter = t])
      BY <1>2, <1>9, <2>1 DEF FailRetry
    <3> QED  BY <1>4, <3>1 DEF EndsOrWaits
  <2>2. CASE ~CanRetry(jobs[j])
    <3>1. UpdateOwned(j, w, Ended(jobs[j], "failed"))
      BY <1>9, <2>2 DEF FailRetry
    <3> QED  BY <1>1, <1>6, <3>1 DEF EndsOrWaits
  <2> QED  BY <2>1, <2>2
<1> QED  BY <1>7, <1>8, <1>9

LEMMA EndingSteps ==
    ASSUME IndInv, RowsInv, [Next]_vars, NEW w \in Workers,
           EndExecution(w) \/ Settle(w) \/ SettleErrs(w) \/ Fail(w) \/ Crash(w)
    PROVE  AbstractStep
<1>0. /\ pc \in [Workers -> PCs] /\ held \in [Workers -> JobIds \cup {None}]
      /\ "start" \notin Working /\ "down" \notin Working
      /\ "execute" \in Working /\ "fail" \in Working /\ Settling \subseteq Working
      /\ clock' = clock
  BY DEF IndInv, TypeOK, Working, Settling, EndExecution, ExecuteThrows, ExecuteReturns, Settle,
     SettleErrs, Fail, Crash
<1>1. ASSUME NEW next \in {"start", "down"}, Leave(w, next)
      PROVE  Undisturbed(w) /\ pc'[w] \notin Working
  BY <1>0, <1>1 DEF Leave, Undisturbed
<1>2. ASSUME NEW next \in Settling \cup {"fail"}, GoTo(w, next)
      PROVE  Undisturbed(w) /\ held'[w] = held[w]
  BY <1>0, <1>2 DEF GoTo, Undisturbed
<1>3. CASE EndExecution(w)
  <2>1. /\ pc[w] = "execute" /\ jobs' = jobs
        /\ Leave(w, "start") \/ \E next \in Settling \cup {"fail"} : GoTo(w, next)
    BY <1>3 DEF EndExecution, ExecuteThrows, ExecuteReturns, queueVars
  <2>2. Undisturbed(w) /\ (pc'[w] \in Working => held'[w] = held[w])
    BY <1>1, <1>2, <2>1
  <2> QED  BY <1>0, <2>1, <2>2, LeavingStep
<1>4. CASE Crash(w)
  <2>1. Leave(w, "down") /\ jobs' = jobs
    BY <1>4 DEF Crash
  <2>2. Undisturbed(w) /\ pc'[w] \notin Working
    BY <1>1, <2>1
  <2> QED  BY <1>0, <2>1, <2>2, LeavingStep
<1>5. ASSUME pc[w] \in Working, EndsOrWaits(held[w], w), Undisturbed(w),
             pc'[w] \in Working => held'[w] = held[w]
      PROVE  AbstractStep
  BY <1>0, <1>5, SettlingStep DEF EndsOrWaits
<1>6. pc[w] \in Working => held[w] \in JobIds
  BY DEF IndInv, HoldsWork
<1>7. ASSUME SettleCall(w) PROVE pc[w] \in Working /\ EndsOrWaits(held[w], w)
  <2>1. pc[w] \in Settling
    BY <1>7 DEF SettleCall, Settling
  <2> QED  BY <1>0, <1>6, <1>7, <2>1, SettlingStatements DEF SettleCall
<1>8. CASE Settle(w)
  BY <1>1, <1>5, <1>7, <1>8 DEF Settle
<1>9. CASE SettleErrs(w)
  <2>1. /\ pc[w] \in Settling
        /\ SettleCall(w) \/ jobs' = jobs
        /\ Leave(w, "start") \/ GoTo(w, "fail")
    BY <1>9 DEF SettleErrs
  <2>2. Undisturbed(w) /\ (pc'[w] \in Working => held'[w] = held[w])
    BY <1>1, <1>2, <2>1
  <2>3. CASE SettleCall(w)
    BY <1>5, <1>7, <2>2, <2>3
  <2>4. CASE jobs' = jobs
    BY <1>0, <2>1, <2>2, <2>4, LeavingStep
  <2> QED  BY <2>1, <2>3, <2>4
<1>10. CASE Fail(w)
  <2>1. pc[w] = "fail" /\ Leave(w, "start")
    BY <1>10 DEF Fail
  <2>2. EndsOrWaits(held[w], w)
    BY <1>0, <1>6, <1>10, <2>1, SettlingStatements DEF Fail
  <2> QED  BY <1>0, <1>1, <1>5, <2>1, <2>2
<1> QED  BY <1>3, <1>4, <1>8, <1>9, <1>10

LEMMA StepImplements ==
    ASSUME "idle" \notin Workers, IndInv, RowsInv, [Next]_vars
    PROVE  AbstractStep
<1>0. /\ pc \in [Workers -> PCs] /\ clock \in Nat
      /\ {"start", "discover", "schedule", "down"} \cap Working = {}
  BY DEF IndInv, TypeOK, Working, Settling
<1>1. CASE jobs' = jobs /\ pc' = pc /\ held' = held /\ clock' = clock
  BY <1>1, QuietStep
<1>2. CASE Tick
  <2>1. jobs' = jobs /\ pc' = pc /\ held' = held /\ clock' = clock + 1
    BY <1>2 DEF Tick, queueVars, workerVars
  <2> QED  BY <2>1, OthersBusy, SameTable, AbstractTick DEF AbstractStep
<1>3. ASSUME NEW p \in Projects, Environment(p) PROVE AbstractStep
  <2>1. CASE RemoveProject(p)
    BY <2>1, RemovingStep
  <2>2. ASSUME NEW c \in Clients, EnqueueInsert(c, p) PROVE AbstractStep
    <3>1. InsertJob(c, p, clock) /\ clock' = clock /\ pc' = pc /\ held' = held
      BY <2>2 DEF EnqueueInsert, workerVars
    <3> QED  BY <3>1, InsertingStep
  <2> QED  BY <1>1, <1>3, <2>1, <2>2 DEF Environment, AddProject, EnableProject, DisableProject,
              EnqueueCheck, queueVars, workerVars
<1>4. ASSUME NEW w \in Workers, Proceed(w) PROVE AbstractStep
  <2>1. CASE ReadEnables(w) \/ ReadAllowlist(w) \/ ClaimNothing(w)
    <3>1. /\ jobs' = jobs /\ held' = held /\ clock' = clock
          /\ \A v \in Workers : pc[v] \in Working <=> pc'[v] \in Working
      BY <1>0, <2>1 DEF ReadEnables, ReadAllowlist, ReadTargets, ClaimNothing, ReadyToClaim, queueVars
    <3> QED  BY <3>1, QuietStep
  <2>2. ASSUME NEW p \in Projects, CoalesceTarget(w, p) \/ CheckTarget(w, p) PROVE AbstractStep
    BY <1>1, <2>2 DEF CoalesceTarget, CheckTarget, queueVars, workerVars
  <2>3. ASSUME NEW p \in Projects, InsertTarget(w, p) PROVE AbstractStep
    <3>1. PICK t : InsertJob(w, p, t)
      BY <2>3 DEF InsertTarget, InsertWhenDue
    <3>2. clock' = clock /\ pc' = pc /\ held' = held
      BY <2>3 DEF InsertTarget
    <3> QED  BY <3>1, <3>2, InsertingStep
  <2> QED  BY <1>4, <2>1, <2>2, <2>3, RecoveringStep, ClaimingStep, EndingSteps DEF Proceed
<1>5. ASSUME NEW w \in Workers, AnswerHeartbeat(w) PROVE AbstractStep
  <2>1. beat[w] # None /\ clock' = clock /\ pc' = pc /\ held' = held
    BY <1>5 DEF AnswerHeartbeat, HeartbeatLands, HeartbeatErrs
  <2>2. beat[w].job \in JobIds /\ beat[w].at \in Int /\ beat[w].at <= clock
    BY <2>1 DEF IndInv, TypeOK, Beat, RowsInv
  <2>3. Heartbeat(beat[w].job, w, beat[w].at) \/ jobs' = jobs
    BY <1>5 DEF AnswerHeartbeat, HeartbeatLands, HeartbeatErrs
  <2> QED  BY <1>1, <2>1, <2>2, <2>3, RenewingStep
<1>6. ASSUME NEW w \in Workers, SendHeartbeat(w) PROVE AbstractStep
  BY <1>1, <1>6 DEF SendHeartbeat, queueVars
<1>7. ASSUME NEW w \in Workers, Restart(w) PROVE AbstractStep
  <2>1. /\ jobs' = jobs /\ held' = held /\ clock' = clock
        /\ \A v \in Workers : pc[v] \in Working <=> pc'[v] \in Working
    BY <1>0, <1>7 DEF Restart, queueVars
  <2> QED  BY <2>1, QuietStep
<1>8. CASE UNCHANGED vars
  BY <1>1, <1>8 DEF vars, queueVars, workerVars
<1> QED  BY <1>2, <1>3, <1>4, <1>5, <1>6, <1>7, <1>8, EndingSteps DEF Next

\* The job queue and its workers implement the lease, for any number of workers,
\* callers, projects and jobs: only its holder, its expiry or an administrator ends
\* a claim, and one is granted only where none is.
THEOREM LeaseImplemented ==
    ASSUME "idle" \notin Workers
    PROVE  Spec => ImplementsLease
<1>1. Init => Lease!Init
  <2> SUFFICES ASSUME Init PROVE Lease!Init
    OBVIOUS
  <2>1. \A j \in JobIds : jobs[j].status = "none"
    BY DEF Init, QueueInit, NoRow
  <2>2. \A p \in Projects : Of(jobs, p, Active) = {}
    BY <2>1 DEF Of, Active
  <2>3. \A p \in Projects : Holder(p) = "idle" /\ RenewedAt(p) = 0
    BY <2>2, NobodyHolds, Mapped
  <2>4. \A w \in Workers : pc[w] \notin Working
    BY DEF Init, Working, Settling
  <2> QED  BY <2>3, <2>4 DEF Lease!Init, Init, QueueInit
<1>2. IndInv /\ RowsInv /\ [Next]_vars => [Lease!Next]_Lease!vars
  BY StepImplements DEF AbstractStep
<1> QED  BY <1>1, <1>2, Invariance, RowsInvariance, PTL DEF Spec, ImplementsLease, Lease!Spec
=============================================================================

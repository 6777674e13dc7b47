---------------------------- MODULE ProjectLease ----------------------------
(***************************************************************************)
(* What the job queue promises about a project, rows and statements left   *)
(* out: its synchronisation is idle, queued, or held by one worker under a *)
(* lease.  A held lease ends only when its holder hands it back, when an   *)
(* administrator cancels it, or when it was not renewed for longer than    *)
(* Stale.  A worker may be busy with a project whose lease it has lost;    *)
(* what it then does to the lease is nothing.                              *)
(***************************************************************************)
EXTENDS Integers

CONSTANTS Projects, Workers, None, Stale

VARIABLES
    clock,
    holder,     \* per project: a worker, "queued" or "idle"
    renewedAt,  \* per project: when its holder last renewed
    busy        \* per worker: the project it works on, or None

vars == <<clock, holder, renewedAt, busy>>

Init ==
    /\ clock = 0
    /\ holder = [p \in Projects |-> "idle"]
    /\ renewedAt = [p \in Projects |-> 0]
    /\ busy = [w \in Workers |-> None]

Tick == clock' = clock + 1 /\ UNCHANGED <<holder, renewedAt, busy>>

Request(p) ==
    /\ holder[p] = "idle"
    /\ holder' = [holder EXCEPT ![p] = "queued"]
    /\ UNCHANGED <<clock, renewedAt, busy>>

Grant(p, w) ==
    /\ holder[p] = "queued"
    /\ busy[w] = None
    /\ holder' = [holder EXCEPT ![p] = w]
    /\ renewedAt' = [renewedAt EXCEPT ![p] = clock]
    /\ busy' = [busy EXCEPT ![w] = p]
    /\ UNCHANGED clock

Renew(p) ==
    /\ holder[p] \in Workers
    /\ \A q \in Projects \ {p} : renewedAt'[q] = renewedAt[q]
    /\ renewedAt'[p] <= clock
    /\ UNCHANGED <<clock, holder, busy>>

\* The holder settles: the project is done or waits for another try.  The
\* worker may not learn of it and go on for a while.
HandBack(p, w) ==
    /\ holder[p] = w
    /\ busy[w] = p
    /\ \E next \in {"idle", "queued"} : holder' = [holder EXCEPT ![p] = next]
    /\ renewedAt' = [renewedAt EXCEPT ![p] = 0]
    /\ busy' = busy \/ busy' = [busy EXCEPT ![w] = None]
    /\ UNCHANGED clock

\* A worker stops working, holder or not; the lease stays as it is.
GiveUp(w) ==
    /\ busy[w] # None
    /\ busy' = [busy EXCEPT ![w] = None]
    /\ UNCHANGED <<clock, holder, renewedAt>>

\* Any number of expired leases are taken away at once.
Revoke(S) ==
    /\ \A p \in S : holder[p] \in Workers /\ renewedAt[p] < clock - Stale
    /\ \A p \in Projects : IF p \in S THEN holder'[p] \in {"idle", "queued"} /\ renewedAt'[p] = 0
                                      ELSE holder'[p] = holder[p] /\ renewedAt'[p] = renewedAt[p]
    /\ UNCHANGED <<clock, busy>>

Cancel(p) ==
    /\ holder[p] # "idle"
    /\ holder' = [holder EXCEPT ![p] = "idle"]
    /\ renewedAt' = [renewedAt EXCEPT ![p] = 0]
    /\ UNCHANGED <<clock, busy>>

Next ==
    \/ Tick
    \/ \E p \in Projects : Request(p) \/ Renew(p) \/ Cancel(p)
    \/ \E p \in Projects, w \in Workers : Grant(p, w) \/ HandBack(p, w)
    \/ \E w \in Workers : GiveUp(w)
    \/ \E S \in SUBSET Projects : Revoke(S)

Spec == Init /\ [][Next]_vars
=============================================================================

--------------------------- MODULE LateCommitSync ---------------------------
(***************************************************************************)
(* CommitSync with runs that outlive their claim.  ProjectLease lets a     *)
(* claim expire or be cancelled under a worker that works on; the worker   *)
(* learns of it with its next heartbeat, and the abort reaches it with its *)
(* next request to GitLab, not with its next write to the database.        *)
(***************************************************************************)
EXTENDS CommitSync

\* The claim is revoked or cancelled; its executor does not know yet.
LoseLease(x) ==
    /\ holder = x
    /\ holder' = None
    /\ UNCHANGED <<clock, gitlab, store, pc, locals>>

LateNext == Next \/ \E x \in Executors : LoseLease(x)

LateSpec == Init /\ [][LateNext]_vars
=============================================================================

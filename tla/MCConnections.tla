--------------------------- MODULE MCConnections ---------------------------
(* Connections on small instances: a PAT of each of two accounts.          *)
EXTENDS Connections, TLC

CONSTANTS p1, p2, a1, a2

PatAccounts == (p1 :> a1 @@ p2 :> a2)

\* Exchanging both accounts and their PATs is a symmetry, too.
Exchange == (p1 :> p2 @@ p2 :> p1 @@ a1 :> a2 @@ a2 :> a1)
Symmetry == Permutations(Users) \cup {Exchange}

\* Bounds of the run.  At most one PAT is revoked or one account is shut out at
\* a time.  Once requests have overlapped, the behaviour is followed until the
\* synchronisation ends, and the other request is one that writes credentials.
FewChanges == Cardinality(Pats \ valid) + Cardinality(Accounts \ members) <= 1
Racing ==
    disturbed => /\ \E s \in Syncs : Busy(s)
                 /\ \A r \in Requests : req[r].kind # "visit"
Bounds == FewChanges /\ Racing
=============================================================================

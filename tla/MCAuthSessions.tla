--------------------------- MODULE MCAuthSessions ---------------------------
(* AuthSessions on a small instance. *)
EXTENDS AuthSessions, TLC

Symmetry == Permutations(Requests) \cup Permutations(Passwords)

Only(kinds) == \A r \in Requests : req[r].kind \in kinds \cup {None}
OneUser == \A u \in Users : u # FirstAdmin => Is(u, "none")
Unopened(s) == sessions[s].status = "none"
NoFailures == bucket.count = 0 /\ \A u \in Users : streak[u] = 0 /\ users[u].failed = 0

\* A behaviour is about one of four things, each with the actors it needs:
\* a session that ages, failures of logins side by side, failures followed by
\* the reset of the password, and users that come and go.
Aging == /\ OneUser /\ Unopened(2) /\ NoFailures
         /\ Only({"login", "visit", "logout", "revokeAll"})
Failing == /\ OneUser /\ Unopened(1) /\ clock <= LockTime
           /\ Only({"login"})
Recovering == /\ OneUser /\ Unopened(2) /\ clock <= LockTime
              /\ Only({"login", "reset"}) /\ ~disturbed
ComingAndGoing == /\ clock = 0 /\ NoFailures
                  /\ disturbed => Only(Kinds \ {"reset"})

Bounds == /\ \A u \in Users : streak[u] <= MaxFailures + 1
          /\ Aging \/ Failing \/ Recovering \/ ComingAndGoing
=============================================================================

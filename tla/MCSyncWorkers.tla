--------------------------- MODULE MCSyncWorkers ---------------------------
(* SyncWorkers on small instances.                                         *)
EXTENDS SyncWorkers, TLC

Symmetry == Permutations(Workers)

\* Bounds of the lease run.  No enable outlives the allowlist entry it was
\* checked against; one worker at a time is down, awaits a heartbeat or reads
\* the targets; when the clock stops every worker is up and no target is half
\* set up; and a run ends with its last job.
AtMostOne(S) == \A v, w \in S : v = w
FewTargets == enabled \subseteq allowlist
OneAtATime ==
    /\ AtMostOne({w \in Workers : pc[w] = "down"})
    /\ AtMostOne({w \in Workers : beat[w] # None})
    /\ AtMostOne({w \in Workers : pc[w] = "discover"})
QuietEnd ==
    clock = MaxClock => /\ allowlist \subseteq enabled
                        /\ \A w \in Workers : pc[w] # "down"
JobsLeft == \E j \in JobIds : ~HasStatus(j, Terminal)
Bounds == FewTargets /\ OneAtATime /\ QuietEnd /\ JobsLeft
=============================================================================

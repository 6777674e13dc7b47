---------------------------- MODULE MCCommitSync ----------------------------
(* CommitSync and LateCommitSync on small instances.                       *)
EXTENDS LateCommitSync, TLC

Symmetry == Permutations(Executors)

\* Bound of the run with late executors: people push once, to branch 1, before
\* the clock moves, and merge to other branches later.
PushedFirst == \A c \in Commits : pushed[c] # None => pushed[c].at = 0 /\ pushed[c].home = 1

\* Bound of the run of windows: branches are deleted or rewritten only between
\* two runs of one window, not the first, with a branch of its plan drained; once
\* all commits are pushed, dated no later than that, and only the first goes;
\* and GitLab rests once that is off the branch it came to.
RewritesBetweenRuns ==
    \/ gitlab' = gitlab
    \/ /\ \A c \in Commits : ~Uprooted(c)
       /\ branches \subseteq branches' /\ \A c \in Commits : reach[c] \subseteq reach'[c]
    \/ /\ row.watermark # None /\ row.cursor # None /\ row.cursor.nextIndex > 0
       /\ \A x \in Executors : pc[x] = "idle"
       /\ \A c \in Commits : pushed[c] # None /\ pushed[c].date <= pushed[c].at /\ ~Uprooted(c)
       /\ \A c \in Commits \ {1} : reach'[c] = reach[c]
=============================================================================

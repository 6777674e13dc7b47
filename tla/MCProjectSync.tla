---------------------------- MODULE MCProjectSync ----------------------------
(* ProjectSync on a small instance.                                        *)
EXTENDS ProjectSync

\* Bound: the commit is taken off its branch only where no merge request is open
\* and it was pushed at the start; where both are there, branches stay and the
\* one merge request is opened at the start.
FewEvents ==
    \/ \A c \in Commits : pushed[c] = None
    \/ /\ \A m \in Mrs : live[m] = None
       /\ \A c \in Commits : Commit!Uprooted(c) => pushed[c].at = 0
    \/ /\ \A m \in Mrs : live[m] # None => m = 1 /\ live[m] = 0
       /\ branches = UNION {reach[c] : c \in Commits}
       /\ \A c \in Commits : ~Commit!Uprooted(c)
=============================================================================

---------------------------- MODULE MCDashboard ----------------------------
(***************************************************************************)
(* Instances of Dashboard.  The clock starts two hours before a week does: *)
(* hour 257 is a Monday 00:00 in local time.                                *)
(***************************************************************************)
EXTENDS Dashboard, TLC

MCCommits == {[key |-> <<1, "a">>, at |-> 250, kind |-> "plain"]}

Changed == {p \in Projects : lastReadable[p] # LongAgo /\ lastHidden[p] # LongAgo}

Paging == \E t \in Tasks : At(t, {"count", "find", "create"})
Quiet ==
    /\ accepted /\ Changed = {}
    /\ allowlist = Projects /\ enabled = Projects /\ readable = Projects
    /\ \A t \in Tasks : task[t].kind \in {"none", "list"}

\* Bounds: what the account, the user and the administrator change is project
\* 1, and once the PAT is revoked the account changes no more; project 2 is
\* readable and enabled, and is the one that fails to answer; a project whose
\* membership has changed stays enabled; once a synchronisation has cached a
\* denial there are only listings, and only the membership changes; the user
\* enables or disables one thing at a time; once a commit is stored nothing else
\* changes, and only then are snapshots kept, of one scope and one week.  Two
\* hours are enough for all but the ageing of answers, and for the week to end.
Bounds ==
    /\ 2 \in readable \cap enabled /\ Changed \subseteq {1} \cap enabled
    /\ ~accepted \/ allowlist # Projects \/ raced # {} => Changed = {}
    /\ ~accepted => allowlist = Projects /\ raced = {} /\ enabled = Projects
    /\ allowlist # Projects \/ raced # {} => readable = Projects
    /\ syncDenied[1] # LongAgo =>
          /\ accepted /\ allowlist = Projects /\ raced = {} /\ stored = {}
          /\ \A t \in Tasks : task[t].kind \in {"none", "list"}
    /\ \A t \in Tasks :
          /\ task[t].kind \in {"enable", "disable", "remove"} => task[t].listed = {1}
          /\ task[t].answer[1] # "unknown"
    /\ \A t, u \in Tasks :
          task[t].kind \in {"enable", "disable"} /\ task[u].kind \in {"enable", "disable"} => t = u
    /\ stored # {} => Quiet
    /\ stored # {} \/ ~accepted \/ allowlist # Projects \/ raced # {} => now <= Opening + 1
    /\ snapshots # {} => stored # {}
    /\ \A s, r \in snapshots : s.scope = r.scope /\ s.window = r.window
    /\ Paging => \A t \in Tasks : task[t].kind \in {"none", "list"}

Symmetry == Permutations(Tasks)
=============================================================================

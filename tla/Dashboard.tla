----------------------------- MODULE Dashboard -----------------------------
(***************************************************************************)
(* The page of the dashboard: a listing of ProjectAccess, then the commits *)
(* of the projects it shows, the metrics of the week, and a snapshot of    *)
(* each.  Synchronisation stores commits meanwhile.                        *)
(*                                                                         *)
(* Left out: the rows displayed and their limit, merge requests, the marks *)
(* for e-mail addresses, a window or an author given by the user, and the  *)
(* two metrics without a formula.                                          *)
(***************************************************************************)
EXTENDS ProjectAccess, Metrics

CONSTANTS
    Commits     \* commits that synchronisation may store

ASSUME CommitsAssumption ==
    \A c \in Commits : c.key \in Projects \X STRING /\ c.at \in Nat /\ c.kind \in CommitKinds

VARIABLES
    stored,     \* rows of CommitCache
    snapshots,  \* rows of MetricSnapshot of the user
    page        \* what the pages hold besides their listing

pageVars == <<stored, snapshots, page>>
vars == <<accessVars, pageVars>>

MetricKeys == {"commit_frequency", "ai_assisted_commits"}

\* Rows that agree in every column are told apart by a number.
Snapshot == [scope : [count : Nat, only : SUBSET Projects], metric : MetricKeys,
             window : Int, value : Nat, copy : Nat]

\* A page: the start of its week, its metrics, and those still to persist.
Page == [window : Int, read : SUBSET Commits, metrics : [MetricKeys -> Nat],
         left : SUBSET MetricKeys]

NoPage == [window |-> Opening, read |-> {}, metrics |-> [k \in MetricKeys |-> 0], left |-> {}]

Init ==
    /\ AccessInit
    /\ stored = {} /\ snapshots = {}
    /\ page = [t \in Tasks |-> NoPage]

Held == <<now, tables, gitlab, history>>

\* Of the listing the page keeps the projects it shows.
Kept(t) == [p \in Projects |-> IF p \in Shown(t) THEN "allowed" ELSE "none"]
Listed(t) == task[t].listed

\* The week is the current one; a page without projects reads nothing more.
OpenWeek(t) ==
    /\ At(t, {"shown"})
    /\ Become(t, [task[t] EXCEPT !.listed = Shown(t), !.enables = {}, !.answer = Kept(t),
                                 !.at = IF Shown(t) = {} THEN "end" ELSE "count"])
    /\ page' = [page EXCEPT ![t].window = IF Shown(t) = {} THEN @ ELSE WeekOf(now).start]
    /\ UNCHANGED <<Held, stored, snapshots>>

Window(t) == [start |-> page[t].window, end |-> page[t].window + Week]

\* The commits of the window, and their metrics at the end of it.
Count(t) ==
    /\ At(t, {"count"})
    /\ LET read == {c \in stored : c.key[1] \in Listed(t) /\ Within(c.at, Window(t))}
       IN  page' = [page EXCEPT ![t].read = read,
                                ![t].metrics = ReferenceMetrics(read, Window(t).end),
                                ![t].left = MetricKeys]
    /\ Goto(t, "find")
    /\ UNCHANGED <<Held, stored, snapshots>>

\* Several projects are named by their number alone.
Scope(t) == [count |-> Cardinality(Listed(t)),
             only  |-> IF Cardinality(Listed(t)) = 1 THEN Listed(t) ELSE {}]

\* findFirst of persistSnapshots: whatever the value.
Describes(s, t, k) == s.scope = Scope(t) /\ s.metric = k /\ s.window = page[t].window

NextMetric(t) ==
    IF "commit_frequency" \in page[t].left THEN "commit_frequency" ELSE "ai_assisted_commits"

\* With the last metric the page is answered, and what it held forgotten.
Proceed(t) ==
    IF page[t].left = {NextMetric(t)}
    THEN Goto(t, "end") /\ page' = [page EXCEPT ![t] = NoPage]
    ELSE Goto(t, "find") /\ page' = [page EXCEPT ![t].left = @ \ {NextMetric(t)}]

\* persistSnapshots: a snapshot that exists is left as it is.
FindSnapshot(t) ==
    /\ At(t, {"find"})
    /\ IF \E s \in snapshots : Describes(s, t, NextMetric(t))
       THEN Proceed(t)
       ELSE Goto(t, "create") /\ UNCHANGED page
    /\ UNCHANGED <<Held, stored, snapshots>>

AddSnapshot(t, k) ==
    snapshots' = snapshots \cup
        {[scope |-> Scope(t), metric |-> k, window |-> page[t].window,
          value |-> page[t].metrics[k],
          copy |-> Cardinality({s \in snapshots : Describes(s, t, k)})]}

CreateSnapshotRetried(t) ==                                            \* mutant
    /\ At(t, {"create"})
    /\ AddSnapshot(t, NextMetric(t))
    /\ Proceed(t) \/ UNCHANGED <<task, page>>
    /\ UNCHANGED <<Held, stored>>

CreateSnapshot(t) ==
    /\ At(t, {"create"})
    /\ AddSnapshot(t, NextMetric(t))
    /\ Proceed(t)
    /\ UNCHANGED <<Held, stored>>

\* Synchronisation stores a commit.
StoreCommit(c) ==
    /\ c \notin stored /\ c.at <= now
    /\ stored' = stored \cup {c}
    /\ UNCHANGED <<accessVars, snapshots, page>>

PageStep(t) == OpenWeek(t) \/ Count(t) \/ FindSnapshot(t) \/ CreateSnapshot(t)

Next ==
    \/ \E t \in Tasks : (AccessStep(t) /\ UNCHANGED pageVars) \/ PageStep(t)
    \/ AccessEnvironment /\ UNCHANGED pageVars
    \/ \E c \in Commits : StoreCommit(c)

Spec == Init /\ [][Next]_vars

-----------------------------------------------------------------------------
(* Properties                                                              *)

\* Every row is of the kind the code gives it.
TypeOK ==
    /\ AccessTypeOK
    /\ stored \subseteq Commits
    /\ snapshots \subseteq Snapshot
    /\ page \in [Tasks -> Page]

\* Two pages that both find no snapshot create one each, but a page that looks
\* after one was created adds none: there are never more snapshots of a metric
\* and window than pages loaded at once (persistSnapshots has no transaction,
\* and the table no unique index).
NoMoreSnapshotsThanPages ==
    \A s \in snapshots :
        Cardinality({x \in snapshots : /\ x.scope = s.scope /\ x.metric = s.metric
                                       /\ x.window = s.window}) <= Cardinality(Tasks)

\* The week a page opens holds the moment, begins on a Monday at local midnight
\* and ends where the next begins, on both sides of midnight:
\* weekWindowAsiaHoChiMinh.
WeeksPartition ==
    (\E t \in Tasks : At(t, {"shown"})) =>
        LET w == WeekOf(now)
        IN  /\ Within(now, w)
            /\ (w.start + Offset) % Day = 0 /\ WeekDay(w.start + Offset) = 1
            /\ WeekOf(w.end).start = w.end
=============================================================================

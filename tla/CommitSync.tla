----------------------------- MODULE CommitSync -----------------------------
(***************************************************************************)
(* The commit half of SyncOrchestrator.syncProject for one project:        *)
(* #syncCommits lists the branches, opens a window of dates or goes on     *)
(* with the one a paused or failed run left open, drains it branch by      *)
(* branch and page by page into commit_cache, and closes it by raising the *)
(* watermark.  Around it: people who push, merge and delete branches, and  *)
(* runs that fail, crash or pause.                                         *)
(*                                                                         *)
(* A window that was open when a run ended is found again through the row  *)
(* of commit_sync_states, which is all that survives a run.                *)
(***************************************************************************)
EXTENDS Paging, Sequences, SequencesExt

CONSTANTS
    Executors,      \* worker processes
    Branches,       \* branch names, numbered in the order GitLab lists them
    Commits,        \* commits, numbered in the order they are pushed
    None,           \* SQL NULL
    Overlap,        \* commitLookbackOverlapMs, in clock ticks
    ListTime,       \* the longest time from the first listBranches to now()
    MaxLag,         \* how much older than its push a commit's date may be
    MaxAhead,       \* how far the clock of its author may be ahead
    MaxClock,       \* bound of the model: the clock stops here
    Rewrites        \* whether people delete branches and rewrite history

ASSUME SyncAssumption ==
    /\ Branches \subseteq Nat /\ IsFiniteSet(Branches)
    /\ Commits \subseteq Nat /\ IsFiniteSet(Commits)
    /\ {Overlap, ListTime, MaxLag, MaxAhead, MaxClock} \subseteq Nat
    /\ MaxLag + ListTime <= Overlap
    /\ None \notin Executors \cup Nat
    /\ Rewrites \in BOOLEAN

VARIABLES
    clock,
    branches,   \* GitLab: the branches there are
    pushed,     \* GitLab: when, with which date and to which branch each commit came
                \* first (None once the branch is deleted or rewritten)
    reach,      \* GitLab: the branches each commit is on
    row,        \* the row of commit_sync_states
    cached,     \* commit_cache
    holder,     \* the executor whose claim on the project's job is good
    pc,         \* where each executor is in #syncCommits
    page,       \* the page it asks for next
    found,      \* the branch names listed so far
    listedAt,   \* history: when it began to list them
    plan,       \* branches
    at,         \* index
    window      \* windowStart and windowEnd

gitlab == <<branches, pushed, reach>>
store == <<row, cached>>
locals == <<page, found, listedAt, plan, at, window>>
vars == <<clock, gitlab, store, holder, pc, locals>>

Push == [at : Nat, date : Nat, home : Branches \cup {None}]
Window == [start : Nat, end : Nat]
Cursor == [branches : Seq(Branches), nextIndex : Nat]
CommitSyncState == [watermark : Nat \cup {None}, window : Window,
                    cursor : Cursor \cup {None}]
Labels == {"idle", "list", "read", "extend", "begin", "drain", "drained", "advanced"}

ASSUME NoneAssumption == None \notin Push

TypeOK ==
    /\ clock \in Nat
    /\ branches \subseteq Branches
    /\ pushed \in [Commits -> Push \cup {None}]
    /\ reach \in [Commits -> SUBSET Branches]
    /\ row \in CommitSyncState
    /\ cached \subseteq Commits
    /\ holder \in Executors \cup {None}
    /\ pc \in [Executors -> Labels]
    /\ page \in [Executors -> Nat]
    /\ found \in [Executors -> SUBSET Branches]
    /\ listedAt \in [Executors -> Nat]
    /\ plan \in [Executors -> Seq(Branches)]
    /\ at \in [Executors -> Nat]
    /\ window \in [Executors -> Window]

NoWindow == [start |-> 0, end |-> 0]

Init ==
    /\ clock = 0
    /\ branches = {}
    /\ pushed = [c \in Commits |-> None]
    /\ reach = [c \in Commits |-> {}]
    /\ row = [watermark |-> None, window |-> NoWindow, cursor |-> None]
    /\ cached = {}
    /\ holder = None
    /\ pc = [x \in Executors |-> "idle"]
    /\ page = [x \in Executors |-> 1]
    /\ found = [x \in Executors |-> {}]
    /\ listedAt = [x \in Executors |-> 0]
    /\ plan = [x \in Executors |-> <<>>]
    /\ at = [x \in Executors |-> 1]
    /\ window = [x \in Executors |-> NoWindow]

-----------------------------------------------------------------------------
(* Time, and what people do to the repository.                             *)

\* No listing takes longer than ListTime.
Tick ==
    /\ clock < MaxClock
    /\ \A x \in Executors : pc[x] \in {"list", "read"} => clock < listedAt[x] + ListTime
    /\ clock' = clock + 1
    /\ UNCHANGED <<gitlab, store, holder, pc, locals>>

\* A new commit on b, which may be a new branch.  Its date is its author's.
PushCommit(c, b, date) ==
    /\ pushed[c] = None
    /\ \A k \in Commits : pushed[k] = None => c <= k
    /\ date \in Nat
    /\ pushed' = [pushed EXCEPT ![c] = [at |-> clock, date |-> date, home |-> b]]
    /\ reach' = [reach EXCEPT ![c] = {b}]
    /\ branches' = branches \cup {b}
    /\ UNCHANGED <<clock, store, holder, pc, locals>>

\* A commit pushed earlier comes to b as well, by a merge or a new branch.
MergeCommit(c, b) ==
    /\ reach[c] # {}
    /\ reach' = [reach EXCEPT ![c] = @ \cup {b}]
    /\ branches' = branches \cup {b}
    /\ UNCHANGED <<clock, pushed, store, holder, pc, locals>>

\* A forced push: c is no longer on b.
RewriteBranch(c, b) ==
    /\ Rewrites
    /\ b \in reach[c]
    /\ reach' = [reach EXCEPT ![c] = @ \ {b}]
    /\ pushed' = [pushed EXCEPT ![c].home = IF @ = b THEN None ELSE @]
    /\ UNCHANGED <<clock, branches, store, holder, pc, locals>>

DeleteBranch(b) ==
    /\ Rewrites
    /\ b \in branches
    /\ branches' = branches \ {b}
    /\ reach' = [c \in Commits |-> reach[c] \ {b}]
    /\ pushed' = [c \in Commits |-> IF b \in reach[c] /\ pushed[c].home = b
                                    THEN [pushed[c] EXCEPT !.home = None]
                                    ELSE pushed[c]]
    /\ UNCHANGED <<clock, store, holder, pc, locals>>

-----------------------------------------------------------------------------
(* A run ends: its locals are gone, and its claim, if it still has it.     *)

End(x) ==
    /\ pc' = [pc EXCEPT ![x] = "idle"]
    /\ page' = [page EXCEPT ![x] = 1]
    /\ found' = [found EXCEPT ![x] = {}]
    /\ listedAt' = [listedAt EXCEPT ![x] = 0]
    /\ plan' = [plan EXCEPT ![x] = <<>>]
    /\ at' = [at EXCEPT ![x] = 1]
    /\ window' = [window EXCEPT ![x] = NoWindow]
    /\ holder' = IF holder = x THEN None ELSE holder

\* It fails, crashes, is aborted, or the next candidate begins it anew.
Stop(x) ==
    /\ pc[x] # "idle"
    /\ End(x)
    /\ UNCHANGED <<clock, gitlab, store>>

-----------------------------------------------------------------------------
(* #syncCommits, one await after another.                                  *)

Goto(x, next) == pc' = [pc EXCEPT ![x] = next]

\* The loop over the plan, entered at index i: without a branch left it is done.
GotoDrain(x, i, order) == Goto(x, IF i <= Len(order) THEN "drain" ELSE "drained")

Start(x) ==
    /\ pc[x] = "idle"
    /\ holder = None
    /\ holder' = x
    /\ Goto(x, "list")
    /\ listedAt' = [listedAt EXCEPT ![x] = clock]
    /\ UNCHANGED <<clock, gitlab, store, page, found, plan, at, window>>

BranchList == [b \in branches |-> {a \in branches : a < b}]

\* listAllBranchNames, one page.
ListBranches(x) ==
    /\ pc[x] = "list"
    /\ found' = [found EXCEPT ![x] = @ \cup Page(BranchList, page[x])]
    /\ IF IsLastPage(BranchList, page[x])
       THEN Goto(x, "read") /\ page' = [page EXCEPT ![x] = 1]
       ELSE page' = [page EXCEPT ![x] = @ + 1] /\ UNCHANGED pc
    /\ UNCHANGED <<clock, gitlab, store, holder, listedAt, plan, at, window>>

\* The collation is data: a set of names may come in any order.
Orders(names) == {s \in [1..Cardinality(names) -> names] : ToSet(s) = names}

\* A new window: from the watermark less the overlap, but not from before the
\* cold start, until now.
NewWindowPastWatermark(now) ==
    [start |-> IF row.watermark = None THEN 0 ELSE row.watermark, end |-> now]
NewWindowBeforeColdStart(now) ==
    [start |-> IF row.watermark = None THEN 0 ELSE row.watermark - Overlap, end |-> now]
NewWindow(now) ==
    [start |-> IF row.watermark = None \/ row.watermark < Overlap
               THEN 0 ELSE row.watermark - Overlap,
     end |-> now]

OpenWindow(x) ==
    /\ row.cursor = None
    /\ \E order \in Orders(found[x]) : plan' = [plan EXCEPT ![x] = order]
    /\ at' = [at EXCEPT ![x] = 1]
    /\ window' = [window EXCEPT ![x] = NewWindow(clock)]
    /\ Goto(x, "begin")

\* The saved plan, with the branches discovered since at its end.
ContinuePlan(x, cursor) ==
    {cursor.branches \o added : added \in Orders(found[x] \ ToSet(cursor.branches))}

ContinueWindow(x) ==
    /\ row.cursor # None
    /\ \E order \in ContinuePlan(x, row.cursor) :
          LET next == Min({row.cursor.nextIndex, Len(order)}) + 1
          IN /\ plan' = [plan EXCEPT ![x] = order]
             /\ at' = [at EXCEPT ![x] = next]
             /\ IF found[x] \subseteq ToSet(row.cursor.branches)
                THEN GotoDrain(x, next, order)
                ELSE Goto(x, "extend")
    /\ window' = [window EXCEPT ![x] = row.window]

\* getCommitState, and now() as soon as it answers.
ReadState(x) ==
    /\ pc[x] = "read"
    /\ OpenWindow(x) \/ ContinueWindow(x)
    /\ found' = [found EXCEPT ![x] = {}]
    /\ listedAt' = [listedAt EXCEPT ![x] = 0]
    /\ UNCHANGED <<clock, gitlab, store, holder, page>>

\* advanceCommitBranch with the longer plan.
ExtendPlan(x) ==
    /\ pc[x] = "extend"
    /\ row' = [row EXCEPT !.cursor = [branches |-> plan[x], nextIndex |-> at[x] - 1]]
    /\ GotoDrain(x, at[x], plan[x])
    /\ UNCHANGED <<clock, gitlab, cached, holder, locals>>

BeginWindow(x) ==
    /\ pc[x] = "begin"
    /\ row' = [row EXCEPT !.window = window[x],
                          !.cursor = IF plan[x] = <<>> THEN None
                                     ELSE [branches |-> plan[x], nextIndex |-> 0]]
    /\ GotoDrain(x, at[x], plan[x])
    /\ UNCHANGED <<clock, gitlab, cached, holder, locals>>

\* listCommits: the commits of b with a date in w, the newest first.
Listed(b, w) == {c \in Commits : b \in reach[c] /\ pushed[c].date \in w.start..w.end}
Newer(c, d) ==
    \/ pushed[c].date > pushed[d].date
    \/ pushed[c].date = pushed[d].date /\ c > d
CommitList(b, w) == [c \in Listed(b, w) |-> {d \in Listed(b, w) : Newer(d, c)}]

\* A commit is a row of the cache from the first time it is listed.
Upsert(commits) == cached' = cached \cup commits

\* One page of the branch, with the upserts of its commits.  A branch that is
\* gone lists nothing here; if GitLab answers 404 instead, the run stops.
DrainPage(x) ==
    /\ pc[x] = "drain"
    /\ LET list == CommitList(plan[x][at[x]], window[x])
       IN /\ Upsert(Page(list, page[x]))
          /\ IF IsLastPage(list, page[x])
             THEN Goto(x, "drained") /\ page' = [page EXCEPT ![x] = 1]
             ELSE page' = [page EXCEPT ![x] = @ + 1] /\ UNCHANGED pc
    /\ UNCHANGED <<clock, gitlab, row, holder, found, listedAt, plan, at, window>>

StayAtBranch(x) == [branches |-> plan[x], nextIndex |-> at[x] - 1]
AdvanceBeyondNext(x) == [branches |-> plan[x], nextIndex |-> at[x] + 1]
NextBranchCursor(x) == [branches |-> plan[x], nextIndex |-> at[x]]

AdvanceBranch(x) ==
    /\ pc[x] = "drained"
    /\ at[x] < Len(plan[x])
    /\ row' = [row EXCEPT !.cursor = NextBranchCursor(x)]
    /\ Goto(x, "advanced")
    /\ UNCHANGED <<clock, gitlab, cached, holder, locals>>

\* shouldStopBetweenBranches: on to the next branch, or pause with the time of
\* the job used up.
AskBudget(x) ==
    /\ pc[x] = "advanced"
    /\ \/ /\ Goto(x, "drain")
          /\ at' = [at EXCEPT ![x] = @ + 1]
          /\ UNCHANGED <<holder, page, found, listedAt, plan, window>>
       \/ End(x)
    /\ UNCHANGED <<clock, gitlab, store>>

WatermarkOf(x) == window[x].end

\* completeCommitWindow: the watermark and the cursor in one statement.
CompleteWindow(x) ==
    /\ pc[x] = "drained"
    /\ at[x] >= Len(plan[x])
    /\ row' = [row EXCEPT !.watermark = WatermarkOf(x), !.cursor = None]
    /\ End(x)
    /\ UNCHANGED <<clock, gitlab, cached>>

-----------------------------------------------------------------------------

Step(x) ==
    \/ Start(x)
    \/ ListBranches(x)
    \/ ReadState(x)
    \/ ExtendPlan(x)
    \/ BeginWindow(x)
    \/ DrainPage(x)
    \/ AdvanceBranch(x)
    \/ AskBudget(x)
    \/ CompleteWindow(x)

People ==
    \E b \in Branches :
        \/ DeleteBranch(b)
        \/ \E c \in Commits :
              \/ MergeCommit(c, b)
              \/ RewriteBranch(c, b)
              \/ \E date \in (clock - MaxLag)..(clock + MaxAhead) : PushCommit(c, b, date)

Next ==
    \/ Tick
    \/ People
    \/ \E x \in Executors : Step(x) \/ Stop(x)

Spec == Init /\ [][Next]_vars

\* Time goes on, an executor that may go on does, and from some time on GitLab
\* and the database answer: no run stops any more but by pausing or
\* completing.
Fairness ==
    /\ WF_vars(Tick)
    /\ \A x \in Executors : WF_vars(Step(x))
    /\ <>[][\A x \in Executors : Stop(x) => AskBudget(x) \/ CompleteWindow(x)]_vars

FairSpec == Spec /\ Fairness

-----------------------------------------------------------------------------
(* Correctness.                                                            *)

\* Pushed before the listing that precedes a window ending at time t began.
Settled(c, t) == pushed[c] # None /\ pushed[c].at < t - ListTime

\* Every commit that was pushed before the watermark, is dated up to it and stayed
\* on the branch it came to is in the cache: whatever windows failed, paused or
\* were resumed with new branches, nothing below the watermark is missing.
NothingMissed ==
    \A c \in Commits :
        row.watermark # None /\ Settled(c, row.watermark) =>
            \/ pushed[c].home = None
            \/ pushed[c].date > row.watermark
            \/ c \in cached

\* The cursor passes a branch only with the branch drained: what had been
\* pushed there before the open window, with a date in it, is in the cache.
CursorPassesDrained ==
    row.cursor # None =>
        \A i \in 1..row.cursor.nextIndex, c \in Commits :
            /\ Settled(c, row.window.end)
            /\ pushed[c].home = row.cursor.branches[i]
            /\ pushed[c].date \in row.window.start..row.window.end
            => c \in cached

\* No commit that is on a branch is lost for good: one that was pushed before the
\* watermark and is too old for the windows still to come is in the cache.
NothingLost ==
    \A c \in Commits :
        row.watermark # None /\ Settled(c, row.watermark) =>
            \/ reach[c] = {}
            \/ pushed[c].date >= NewWindow(row.watermark).start
            \/ c \in cached

\* A window once open is closed in the end, however often the runs that drain
\* it pause.
WindowsClose == row.cursor # None ~> row.cursor = None

\* Every commit a person pushes reaches the cache, if the clock gets to its date
\* and it stays on the branch it came to.
Due(c) == pushed[c] # None /\ pushed[c].date <= MaxClock
Uprooted(c) == pushed[c] # None /\ pushed[c].home = None
CommitsArrive == \A c \in Commits : Due(c) ~> c \in cached \/ Uprooted(c)
=============================================================================

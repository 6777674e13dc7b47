------------------------------- MODULE MrSync -------------------------------
(***************************************************************************)
(* The merge request half of SyncOrchestrator.syncProject for one project: *)
(* #syncMergeRequests asks GitLab for everything updated since the cursor, *)
(* the longest unchanged first, copies it page by page into                *)
(* merge_request_cache, and moves the cursor to the time the run began.    *)
(* Runs come one after the other, and may end anywhere.                    *)
(***************************************************************************)
EXTENDS Paging

CONSTANTS
    Mrs,        \* iids
    None,       \* SQL NULL
    MaxClock    \* bound of the model: the clock stops here

ASSUME MrAssumption ==
    Mrs \subseteq Nat /\ IsFiniteSet(Mrs) /\ MaxClock \in Nat /\ None \notin Nat

VARIABLES
    clock,
    live,       \* GitLab: updated_at of each merge request, None before it is opened
    cached,     \* merge_request_cache: updated_at of the copy, None without one
    cursor,     \* mr_sync_states.updated_after_cursor
    pc,         \* where the run is in #syncMergeRequests
    since,      \* updatedAfter
    runEnd,
    page,       \* the page to ask for next
    fetched,    \* what the last page brought and is not upserted yet
    slipped     \* history: merge requests that moved to a page already read

mirror == <<cached, cursor>>
locals == <<since, runEnd, page, fetched>>
vars == <<clock, live, mirror, pc, locals, slipped>>

Copy == [iid : Mrs, updatedAt : Nat]

TypeOK ==
    /\ clock \in Nat
    /\ live \in [Mrs -> Nat \cup {None}]
    /\ cached \in [Mrs -> Nat \cup {None}]
    /\ cursor \in Nat \cup {None}
    /\ pc \in {"idle", "fetch", "upsert", "complete"}
    /\ since \in Nat
    /\ runEnd \in Nat
    /\ page \in Nat
    /\ fetched \subseteq Copy
    /\ slipped \subseteq Mrs

Init ==
    /\ clock = 0
    /\ live = [m \in Mrs |-> None]
    /\ cached = [m \in Mrs |-> None]
    /\ cursor = None
    /\ pc = "idle"
    /\ since = 0
    /\ runEnd = 0
    /\ page = 1
    /\ fetched = {}
    /\ slipped = {}

Tick ==
    /\ clock < MaxClock
    /\ clock' = clock + 1
    /\ UNCHANGED <<live, mirror, pc, locals, slipped>>

\* updated_after, order_by=updated_at, sort=asc.
Updated == {m \in Mrs : live[m] # None /\ live[m] >= since}
Older(m, n) ==
    \/ live[m] < live[n]
    \/ live[m] = live[n] /\ m < n
MrList == [m \in Updated |-> {n \in Updated : Older(n, m)}]

\* On a page the run has still to ask for.
Waiting(m) ==
    /\ m \in Updated /\ page # 0
    /\ page > 1 => (page - 1) * PageSize <= Cardinality(MrList[m])

\* Somebody opens the merge request, or comments on it, pushes to it, closes
\* it...  It moves to the end of the list, and the others a place up: perhaps
\* to a page the run has read.
Update(m) ==
    /\ live[m] # clock
    /\ live' = [live EXCEPT ![m] = clock]
    /\ UNCHANGED <<clock, mirror, pc, locals>>
    /\ slipped' = (slipped \ {m}) \cup {n \in Mrs \ {m} : Waiting(n) /\ ~Waiting(n)'}

-----------------------------------------------------------------------------

\* No cursor stands for EPOCH.
Since == IF cursor = None THEN 0 ELSE cursor

\* getMrState, and now() as soon as it answers.  The run asks anew for whatever
\* slipped from one that did not complete.
Begin ==
    /\ pc = "idle"
    /\ since' = Since
    /\ runEnd' = clock
    /\ pc' = "fetch"
    /\ slipped' = {m \in slipped : live[m] < Since}
    /\ UNCHANGED <<clock, live, mirror, page, fetched>>

\* listMergeRequests, one page.
FetchPage ==
    /\ pc = "fetch"
    /\ fetched' = {[iid |-> m, updatedAt |-> live[m]] : m \in Page(MrList, page)}
    /\ page' = IF IsLastPage(MrList, page) THEN 0 ELSE page + 1
    /\ pc' = "upsert"
    /\ UNCHANGED <<clock, live, mirror, since, runEnd, slipped>>

\* upsertMergeRequest of each copy.
Upsert(copies) ==
    cached' = [m \in Mrs |-> IF \E f \in copies : f.iid = m
                             THEN (CHOOSE f \in copies : f.iid = m).updatedAt
                             ELSE cached[m]]

\* The upserts of the page, and the next one if the last had a link to it.
UpsertPage ==
    /\ pc = "upsert"
    /\ Upsert(fetched)
    /\ fetched' = {}
    /\ pc' = IF page = 0 THEN "complete" ELSE "fetch"
    /\ UNCHANGED <<clock, live, cursor, since, runEnd, page, slipped>>

End ==
    /\ pc' = "idle"
    /\ since' = 0
    /\ runEnd' = 0
    /\ page' = 1
    /\ fetched' = {}

CursorNow == clock
NewCursor == runEnd

\* completeMrWindow.
CompleteRun ==
    /\ pc = "complete"
    /\ cursor' = NewCursor
    /\ End
    /\ UNCHANGED <<clock, live, cached, slipped>>

\* The run fails, crashes or is aborted, perhaps with some of a page upserted.
Stop ==
    /\ pc # "idle"
    /\ \E done \in SUBSET fetched : Upsert(done)
    /\ End
    /\ UNCHANGED <<clock, live, cursor, slipped>>

Step == Begin \/ FetchPage \/ UpsertPage \/ CompleteRun

Next == Tick \/ (\E m \in Mrs : Update(m)) \/ Step \/ Stop

Spec == Init /\ [][Next]_vars

\* Time goes on, runs follow one another, and from some time on none stops but
\* by completing.
FairSpec == Spec /\ WF_vars(Tick) /\ WF_vars(Step) /\ <>[][Stop => CompleteRun]_vars

-----------------------------------------------------------------------------
(* Correctness.                                                            *)

\* The cursor stands for a full window: a merge request last updated before it
\* is in the cache as it was last updated, however many pages the runs had and
\* wherever they failed, unless an update of another moved it to a page that a
\* completed run had read (syncMergeRequests asks for pages by their number).
CursorCovers ==
    \A m \in Mrs :
        live[m] # None /\ cursor # None /\ live[m] < cursor =>
            cached[m] = live[m] \/ m \in slipped

\* The cursor stands for all pages of its window, so that every update is
\* fetched at least once: NFR-1, and the cursor's rule in the plans.
NothingSkipped ==
    \A m \in Mrs :
        live[m] # None /\ cursor # None /\ live[m] < cursor => cached[m] = live[m]

\* A merge request reaches the cache as it is, once people leave it alone for
\* long enough, or it slipped from a run that completed without it.
Lost(m) == m \in slipped /\ cursor # None /\ live[m] < cursor
UpdatesArrive == \A m \in Mrs : live[m] # None ~> cached[m] = live[m] \/ Lost(m)
=============================================================================

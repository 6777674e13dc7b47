---------------------------- MODULE ProjectSync ----------------------------
(***************************************************************************)
(* A run of SyncOrchestrator.syncProject for one project: #syncCommits     *)
(* and, only when that has completed a window, #syncMergeRequests.  A run  *)
(* that pauses between branches leaves the merge requests to a later one,  *)
(* and one that fails in either half begins again with the commits, as     *)
(* does the next candidate.                                                *)
(*                                                                         *)
(* The halves are CommitSync and MrSync; they share the clock and the run. *)
(***************************************************************************)
EXTENDS MrSync

CONSTANTS Executors, Branches, Commits, Overlap, ListTime, MaxLag, MaxAhead, Rewrites,
          CommitPageSize    \* per_page of branches and commits: one number with
                            \* PageSize in the code, two for smaller instances

VARIABLES
    half,       \* which half the run is in, or will begin with
    branches, pushed, reach, row, stored, holder, label, listing, found, listedAt, plan,
    at, window  \* the variables of CommitSync, three under other names

Commit == INSTANCE CommitSync WITH
              PageSize <- CommitPageSize, cached <- stored, pc <- label, page <- listing

commitVars == <<branches, pushed, reach, row, stored, holder, label, listing, found,
                listedAt, plan, at, window>>
mrVars == <<live, mirror, pc, locals, slipped>>
projectVars == <<clock, half, commitVars, mrVars>>

ProjectInit == Init /\ Commit!Init /\ half = "commits"

\* A completed window leads on to the merge requests.
NextHalf(x) ==
    half' = IF label[x] = "drained" /\ label'[x] = "idle" THEN "mergeRequests" ELSE "commits"

CommitStep(x) ==
    /\ half = "commits"
    /\ Commit!Step(x)
    /\ NextHalf(x)
    /\ UNCHANGED mrVars

MrStep ==
    /\ half = "mergeRequests"
    /\ Step
    /\ half' = IF pc = "complete" THEN "commits" ELSE half
    /\ UNCHANGED commitVars

RunStep == MrStep \/ \E x \in Executors : CommitStep(x)

\* The run fails or crashes, or its candidate is given up for the next.
RunStops ==
    \/ \E x \in Executors : Commit!Stop(x) /\ UNCHANGED <<mrVars, half>>
    \/ /\ half = "mergeRequests"
       /\ Stop \/ (pc = "idle" /\ UNCHANGED <<clock, mrVars>>)
       /\ half' = "commits"
       /\ UNCHANGED commitVars

ProjectTick == Commit!Tick /\ UNCHANGED <<mrVars, half>>

People ==
    \/ Commit!People /\ UNCHANGED <<mrVars, half>>
    \/ \E m \in Mrs : Update(m) /\ UNCHANGED <<commitVars, half>>

ProjectNext == ProjectTick \/ People \/ RunStep \/ RunStops

ProjectSpec == ProjectInit /\ [][ProjectNext]_projectVars

\* Time goes on, the run takes its next step or the next one begins, and from
\* some time on none ends but by pausing or completing.
ProjectFairSpec ==
    /\ ProjectSpec
    /\ WF_projectVars(ProjectTick) /\ WF_projectVars(RunStep)
    /\ <>[][RunStops => RunStep]_projectVars

-----------------------------------------------------------------------------
(* Correctness: CursorCovers and UpdatesArrive of MrSync, where merge      *)
(* requests wait for the commits, and of CommitSync:                       *)

\* A window once open is closed, however often the runs that drain it pause,
\* and whatever becomes of the merge requests in between.
WindowsClose == Commit!WindowsClose

\* Every commit that stays on the branch it was pushed to reaches the cache.
CommitsArrive == Commit!CommitsArrive
=============================================================================

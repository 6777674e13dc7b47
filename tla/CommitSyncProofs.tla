-------------------------- MODULE CommitSyncProofs --------------------------
(***************************************************************************)
(* Proofs about CommitSync: types for every value of its constants, and,   *)
(* where nobody deletes branches or rewrites history, that no commit below *)
(* the watermark is missing and the cursor passes only drained branches.   *)
(*                                                                         *)
(* The argument.  A listing meets every branch that was there when it      *)
(* began (ListOK), so that the plan of a window has the home of every      *)
(* commit settled before its end (Planned).  The pages of a branch may     *)
(* grow while they are read, newest first, and never lose a commit that is *)
(* still to come (StillAhead).  What is older than the window was settled  *)
(* when the watermark it starts from was set, because the overlap covers   *)
(* the lag of dates and the time of a listing (Below).  Row and run know   *)
(* the same of their window (RowInv, RunOK), so that a run may end         *)
(* anywhere and the next goes on.                                          *)
(***************************************************************************)
EXTENDS CommitSync, FiniteSetTheorems, TLAPS

\* What is on a branch has been pushed; the index into a plan begins with 1.
TypeInv ==
    /\ TypeOK
    /\ \A c \in Commits : reach[c] # {} => pushed[c] # None
    /\ \A x \in Executors : at[x] >= 1

\* One run at a time: who works has the claim.
Claimed == \A x \in Executors : pc[x] # "idle" => holder = x

\* A commit stays on the branch it came to, and is dated not long before.
PushInv ==
    \A c \in Commits : pushed[c] # None =>
        /\ pushed[c].at <= clock /\ pushed[c].at <= pushed[c].date + MaxLag
        /\ pushed[c].home \in branches /\ pushed[c].home \in reach[c]

BranchesBefore(b) == {a \in branches : a < b}

\* The homes of what was pushed before the listing are found, or still to come.
ListOK(x) ==
    pc[x] \in {"list", "read"} =>
        /\ listedAt[x] <= clock /\ clock <= listedAt[x] + ListTime
        /\ \A c \in Commits : pushed[c] # None /\ pushed[c].at < listedAt[x] =>
              \/ pushed[c].home \in found[x]
              \/ /\ pc[x] = "list"
                 /\ Cardinality(BranchesBefore(pushed[c].home)) >= (page[x] - 1) * PageSize

\* What is known of a window w: nothing settled is missing below it, the plan has
\* the home of what is settled, the branches up to the n-th are drained.
Below(w) == \A c \in Commits : Settled(c, w.end) /\ pushed[c].date < w.start => c \in cached
Planned(w, order) == \A c \in Commits : Settled(c, w.end) => pushed[c].home \in ToSet(order)
Drains(w, order, i) ==
    \A c \in Commits : /\ Settled(c, w.end) /\ pushed[c].home = order[i]
                       /\ pushed[c].date \in w.start..w.end
                       => c \in cached
Known(w, order, n) ==
    w.end <= clock /\ Below(w) /\ Planned(w, order) /\ \A i \in 1..n : Drains(w, order, i)

RowInv ==
    /\ row.watermark # None => row.watermark <= clock
    /\ row.cursor # None => /\ row.cursor.nextIndex <= Len(row.cursor.branches)
                            /\ Known(row.window, row.cursor.branches, row.cursor.nextIndex)

\* The commits ahead of c in the list of branch b.
NewerThan(c, b, w) == {d \in Listed(b, w) : Newer(d, c)}
StillAhead(w, order, i, n) ==
    \A c \in Commits :
        /\ Settled(c, w.end) /\ pushed[c].home = order[i] /\ pushed[c].date \in w.start..w.end
        => c \in cached \/ Cardinality(NewerThan(c, order[i], w)) >= (n - 1) * PageSize

RunOK(x) ==
    /\ pc[x] \notin {"list", "drain"} => page[x] = 1
    /\ pc[x] = "begin" => at[x] = 1
    /\ pc[x] \in {"begin", "extend", "drain", "drained", "advanced"} =>
          Known(window[x], plan[x], at[x] - 1)
    /\ pc[x] \in {"extend", "drain", "drained", "advanced"} => row.window = window[x]
    /\ pc[x] = "extend" => at[x] - 1 <= Len(plan[x])
    /\ pc[x] = "drain" => StillAhead(window[x], plan[x], at[x], page[x])
    /\ pc[x] \in {"drained", "advanced"} /\ at[x] <= Len(plan[x]) =>
          Drains(window[x], plan[x], at[x])
    /\ pc[x] = "advanced" => at[x] < Len(plan[x])

WindowInv ==
    /\ TypeInv /\ Claimed /\ PushInv /\ RowInv /\ NothingMissed
    /\ \A x \in Executors : ListOK(x) /\ RunOK(x)

-----------------------------------------------------------------------------
(* Types                                                                   *)

LEMMA Orderings ==
    ASSUME NEW names \in SUBSET Branches, NEW order \in Orders(names)
    PROVE  order \in Seq(Branches) /\ ToSet(order) = names
<1>1. Cardinality(names) \in Nat
  BY FS_Subset, FS_CardinalityType, SyncAssumption
<1> QED  BY <1>1 DEF Orders

LEMMA Least ==
    ASSUME NEW i \in Nat, NEW j \in Nat
    PROVE  Min({i, j}) \in Nat /\ Min({i, j}) <= i /\ Min({i, j}) <= j
  BY DEF Min

\* What a run that continues a window goes on with.
LEMMA Continues ==
    ASSUME TypeOK, row.cursor # None, NEW x \in Executors,
           NEW order \in ContinuePlan(x, row.cursor)
    PROVE  /\ row.cursor.branches \in Seq(Branches) /\ row.cursor.nextIndex \in Nat
           /\ order \in Seq(Branches) /\ Len(row.cursor.branches) <= Len(order)
           /\ \A i \in 1..Len(row.cursor.branches) : order[i] = row.cursor.branches[i]
<1>1. row.cursor \in Cursor /\ found[x] \in SUBSET Branches
  BY DEF TypeOK, CommitSyncState
<1>2. PICK added \in Orders(found[x] \ ToSet(row.cursor.branches)) :
         order = row.cursor.branches \o added
  BY DEF ContinuePlan
<1>3. added \in Seq(Branches)
  BY <1>1, <1>2, Orderings
<1> QED  BY <1>1, <1>2, <1>3 DEF Cursor

LEMMA Ends ==
    ASSUME TypeInv, NEW x \in Executors, End(x), UNCHANGED <<clock, gitlab, cached>>,
           row' \in CommitSyncState
    PROVE  TypeInv'
  BY DEF TypeInv, TypeOK, Labels, End, NoWindow, Window, gitlab

LEMMA StepTypes ==
    ASSUME TypeInv, NEW x \in Executors, Step(x)
    PROVE  TypeInv'
<1>1. CASE Start(x)
  BY <1>1 DEF TypeInv, TypeOK, Labels, Start, Goto, gitlab, store
<1>2. CASE ListBranches(x)
  <2>1. Page(BranchList, page[x]) \subseteq Branches
    BY DEF Page, BranchList, TypeInv, TypeOK
  <2>2. page' \in [Executors -> Nat] /\ pc' \in [Executors -> Labels]
    <3>1. \/ pc' = [pc EXCEPT ![x] = "read"] /\ page' = [page EXCEPT ![x] = 1]
          \/ page' = [page EXCEPT ![x] = @ + 1] /\ pc' = pc
      BY <1>2 DEF ListBranches, Goto
    <3>2. page \in [Executors -> Nat] /\ pc \in [Executors -> Labels]
      BY DEF TypeInv, TypeOK
    <3>3. pc' \in [Executors -> Labels]
      BY <3>1, <3>2 DEF Labels
    <3>4. page' \in [Executors -> Nat]
      BY <3>1, <3>2
    <3> QED  BY <3>3, <3>4
  <2>3. found' \in [Executors -> SUBSET Branches]
    BY <1>2, <2>1 DEF TypeInv, TypeOK, ListBranches
  <2> QED  BY <1>2, <2>2, <2>3 DEF TypeInv, TypeOK, ListBranches, gitlab, store
<1>3. CASE ReadState(x)
  <2>1. /\ plan' \in [Executors -> Seq(Branches)] /\ window' \in [Executors -> Window]
        /\ at' \in [Executors -> Nat] /\ \A y \in Executors : at'[y] >= 1
        /\ pc' \in [Executors -> Labels]
    <3>1. CASE OpenWindow(x)
      <4>1. NewWindow(clock) \in Window
        BY SyncAssumption DEF NewWindow, Window, TypeInv, TypeOK, CommitSyncState
      <4>2. found[x] \in SUBSET Branches
        BY DEF TypeInv, TypeOK
      <4>3. PICK order \in Orders(found[x]) : plan' = [plan EXCEPT ![x] = order]
        BY <3>1 DEF OpenWindow
      <4>4. order \in Seq(Branches)
        BY <4>2, <4>3, Orderings
      <4>5. /\ at' = [at EXCEPT ![x] = 1] /\ window' = [window EXCEPT ![x] = NewWindow(clock)]
            /\ pc' = [pc EXCEPT ![x] = "begin"]
        BY <3>1 DEF OpenWindow, Goto
      <4> QED  BY <4>1, <4>3, <4>4, <4>5 DEF TypeInv, TypeOK, Labels
    <3>2. CASE ContinueWindow(x)
      <4>1. PICK order \in ContinuePlan(x, row.cursor) :
              /\ plan' = [plan EXCEPT ![x] = order]
              /\ at' = [at EXCEPT ![x] = Min({row.cursor.nextIndex, Len(order)}) + 1]
              /\ \E l \in {"drain", "drained", "extend"} : pc' = [pc EXCEPT ![x] = l]
        BY <3>2 DEF ContinueWindow, GotoDrain, Goto
      <4>2. row.cursor # None /\ window' = [window EXCEPT ![x] = row.window]
            /\ row.window \in Window
        BY <3>2 DEF ContinueWindow, TypeInv, TypeOK, CommitSyncState
      <4>3. order \in Seq(Branches) /\ row.cursor.nextIndex \in Nat
        BY <4>2, Continues DEF TypeInv
      <4>4. Min({row.cursor.nextIndex, Len(order)}) \in Nat
        BY <4>3, Least
      <4>5. /\ plan \in [Executors -> Seq(Branches)] /\ window \in [Executors -> Window]
            /\ at \in [Executors -> Nat] /\ \A y \in Executors : at[y] >= 1
            /\ pc \in [Executors -> Labels]
        BY DEF TypeInv, TypeOK
      <4> DEFINE next == Min({row.cursor.nextIndex, Len(order)})
      <4>6. next \in Nat /\ at' = [at EXCEPT ![x] = next + 1]
        BY <4>1, <4>4
      <4> HIDE DEF next
      <4>7. at' \in [Executors -> Nat] /\ \A y \in Executors : at'[y] >= 1
        BY <4>5, <4>6
      <4>8. pc' \in [Executors -> Labels]
        BY <4>1, <4>5 DEF Labels
      <4> QED  BY <4>1, <4>2, <4>3, <4>5, <4>7, <4>8
    <3> QED  BY <1>3, <3>1, <3>2 DEF ReadState
  <2> QED  BY <1>3, <2>1 DEF ReadState, TypeInv, TypeOK, gitlab, store
<1>4. CASE ExtendPlan(x)
  <2>1. at[x] - 1 \in Nat /\ plan[x] \in Seq(Branches)
    BY DEF TypeInv, TypeOK
  <2>2. row' \in CommitSyncState
    BY <1>4, <2>1 DEF ExtendPlan, TypeInv, TypeOK, CommitSyncState, Cursor
  <2> QED  BY <1>4, <2>2 DEF ExtendPlan, GotoDrain, Goto, TypeInv, TypeOK, Labels, gitlab, locals
<1>5. CASE BeginWindow(x)
  <2>1. plan[x] \in Seq(Branches) /\ window[x] \in Window
    BY DEF TypeInv, TypeOK
  <2>2. row' \in CommitSyncState
    BY <1>5, <2>1 DEF BeginWindow, TypeInv, TypeOK, CommitSyncState, Cursor
  <2> QED  BY <1>5, <2>2 DEF BeginWindow, GotoDrain, Goto, TypeInv, TypeOK, Labels, gitlab, locals
<1>6. CASE DrainPage(x)
  <2>1. cached' \subseteq Commits
    BY <1>6 DEF DrainPage, Upsert, Page, CommitList, Listed, TypeInv, TypeOK
  <2>2. page' \in [Executors -> Nat] /\ pc' \in [Executors -> Labels]
    <3>1. \/ pc' = [pc EXCEPT ![x] = "drained"] /\ page' = [page EXCEPT ![x] = 1]
          \/ page' = [page EXCEPT ![x] = @ + 1] /\ pc' = pc
      BY <1>6 DEF DrainPage, Goto
    <3>2. page \in [Executors -> Nat] /\ pc \in [Executors -> Labels]
      BY DEF TypeInv, TypeOK
    <3>3. pc' \in [Executors -> Labels]
      BY <3>1, <3>2 DEF Labels
    <3>4. page' \in [Executors -> Nat]
      BY <3>1, <3>2
    <3> QED  BY <3>3, <3>4
  <2> QED  BY <1>6, <2>1, <2>2 DEF DrainPage, TypeInv, TypeOK, gitlab
<1>7. CASE AdvanceBranch(x)
  <2>1. row' \in CommitSyncState
    BY <1>7 DEF AdvanceBranch, NextBranchCursor, TypeInv, TypeOK, CommitSyncState, Cursor
  <2> QED  BY <1>7, <2>1 DEF AdvanceBranch, Goto, TypeInv, TypeOK, Labels, gitlab, locals
<1>8. CASE AskBudget(x)
  <2>1. CASE End(x)
    BY <1>8, <2>1, Ends DEF AskBudget, store, TypeInv, TypeOK
  <2>2. CASE Goto(x, "drain") /\ at' = [at EXCEPT ![x] = @ + 1]
             /\ UNCHANGED <<holder, page, found, listedAt, plan, window>>
    BY <1>8, <2>2 DEF AskBudget, Goto, store, gitlab, TypeInv, TypeOK, Labels
  <2> QED  BY <1>8, <2>1, <2>2 DEF AskBudget
<1>9. CASE CompleteWindow(x)
  <2>1. row' \in CommitSyncState
    BY <1>9 DEF CompleteWindow, WatermarkOf, TypeInv, TypeOK, CommitSyncState, Window
  <2> QED  BY <1>9, <2>1, Ends DEF CompleteWindow
<1> QED
  BY <1>1, <1>2, <1>3, <1>4, <1>5, <1>6, <1>7, <1>8, <1>9 DEF Step

LEMMA PeopleTypes ==
    ASSUME TypeInv, NEW b \in Branches,
           \/ DeleteBranch(b)
           \/ \E c \in Commits :
                 \/ MergeCommit(c, b) \/ RewriteBranch(c, b)
                 \/ \E date \in (clock - MaxLag)..(clock + MaxAhead) : PushCommit(c, b, date)
    PROVE  TypeInv'
<1>0. /\ branches \subseteq Branches /\ clock \in Nat
      /\ pushed \in [Commits -> Push \cup {None}] /\ reach \in [Commits -> SUBSET Branches]
      /\ \A c \in Commits : reach[c] # {} => pushed[c] # None
  BY DEF TypeInv, TypeOK
<1>1. \A c \in Commits : reach[c] # {} => [pushed[c] EXCEPT !.home = None] \in Push
  BY <1>0 DEF Push
<1>2. \A c \in Commits : pushed[c] # None => pushed[c] \in Push
  BY <1>0
<1>3. None \notin Push
  BY NoneAssumption
<1>4. /\ branches' \subseteq Branches /\ pushed' \in [Commits -> Push \cup {None}]
      /\ reach' \in [Commits -> SUBSET Branches]
      /\ \A c \in Commits : reach'[c] # {} => pushed'[c] # None
      /\ UNCHANGED <<clock, store, holder, pc, locals>>
  <2>1. CASE DeleteBranch(b)
    BY <1>0, <1>1, <1>3, <2>1 DEF DeleteBranch
  <2>2. ASSUME NEW c \in Commits, MergeCommit(c, b) PROVE <1>4
    BY <1>0, <2>2 DEF MergeCommit
  <2>3. ASSUME NEW c \in Commits, RewriteBranch(c, b) PROVE <1>4
    <3> DEFINE push == [pushed[c] EXCEPT !.home = IF pushed[c].home = b THEN None
                                                  ELSE pushed[c].home]
    <3>1. /\ reach[c] # {} /\ pushed[c] # None /\ pushed' = [pushed EXCEPT ![c] = push]
          /\ reach' = [reach EXCEPT ![c] = @ \ {b}] /\ branches' = branches
          /\ UNCHANGED <<clock, store, holder, pc, locals>>
      BY <1>0, <2>3 DEF RewriteBranch
    <3>2. push \in Push
      BY <1>2, <3>1 DEF Push
    <3> HIDE DEF push
    <3> QED  BY <1>0, <1>3, <3>1, <3>2
  <2>4. ASSUME NEW c \in Commits, NEW date \in Nat, PushCommit(c, b, date) PROVE <1>4
    BY <1>0, <1>3, <2>4 DEF PushCommit, Push
  <2> QED  BY <2>1, <2>2, <2>3, <2>4 DEF PushCommit
<1> QED  BY <1>4 DEF TypeInv, TypeOK, store, locals

LEMMA TypeInit == Init => TypeInv
  BY SyncAssumption DEF Init, TypeInv, TypeOK, Labels, CommitSyncState, Window, NoWindow

LEMMA TypeStep == TypeInv /\ [Next]_vars => TypeInv'
<1> SUFFICES ASSUME TypeInv, [Next]_vars PROVE TypeInv'
  OBVIOUS
<1>1. CASE Tick \/ UNCHANGED vars
  BY <1>1 DEF Tick, vars, gitlab, store, locals, TypeInv, TypeOK
<1>2. ASSUME NEW x \in Executors, Stop(x) PROVE TypeInv'
  BY <1>2, Ends DEF Stop, store, TypeInv, TypeOK
<1> QED
  BY <1>1, <1>2, StepTypes, PeopleTypes DEF Next, People

\* Every variable keeps its type, whatever people do to the branches.
THEOREM TypesHold == Spec => []TypeOK
<1>1. TypeInv => TypeOK
  BY DEF TypeInv
<1> QED
  BY TypeInit, TypeStep, <1>1, PTL DEF Spec


-----------------------------------------------------------------------------
(* What stays known as time goes on, people push and merge, and the cache  *)
(* grows.                                                                  *)

LEMMA PushTypes ==
    ASSUME TypeInv, NEW c \in Commits, pushed[c] # None
    PROVE  pushed[c].at \in Nat /\ pushed[c].date \in Nat
  BY DEF TypeInv, TypeOK, Push

LEMMA Sizes ==
    ASSUME NEW S, S \subseteq Commits \/ S \subseteq Branches
    PROVE  /\ IsFiniteSet(S) /\ Cardinality(S) \in Nat
           /\ \A T \in SUBSET S : Cardinality(T) \in Nat /\ Cardinality(T) <= Cardinality(S)
<1>1. IsFiniteSet(S)
  BY FS_Subset, SyncAssumption
<1>2. \A T \in SUBSET S : IsFiniteSet(T) /\ Cardinality(T) <= Cardinality(S)
  BY <1>1, FS_Subset
<1> QED  BY <1>1, <1>2, FS_CardinalityType

Grown ==
    /\ clock' \in Nat /\ clock <= clock'
    /\ branches \subseteq branches' /\ \A c \in Commits : reach[c] \subseteq reach'[c]
    /\ \A c \in Commits : IF pushed[c] # None THEN pushed'[c] = pushed[c]
                          ELSE pushed'[c] # None => pushed'[c].at = clock

\* What is pushed now is not settled for a window that has ended.
LEMMA SettledBefore ==
    ASSUME TypeInv, Grown, NEW c \in Commits, NEW t \in Nat, t <= clock, Settled(c, t)'
    PROVE  Settled(c, t) /\ pushed'[c] = pushed[c]
<1>1. clock \in Nat /\ ListTime \in Nat
  BY SyncAssumption DEF TypeInv, TypeOK
<1>2. pushed[c] # None
  BY <1>1 DEF Grown, Settled
<1> QED  BY <1>2 DEF Grown, Settled

LEMMA DrainsStays ==
    ASSUME TypeInv, Grown, cached \subseteq cached'
    PROVE  \A w \in Window : \A order, i :
              w.end <= clock /\ Drains(w, order, i) => Drains(w, order, i)'
<1> SUFFICES ASSUME NEW w \in Window, NEW order, NEW i, w.end <= clock, Drains(w, order, i),
                    NEW c \in Commits, Settled(c, w.end)', pushed'[c].home = order[i],
                    pushed'[c].date \in w.start..w.end
             PROVE  c \in cached'
  BY DEF Drains
<1>1. Settled(c, w.end) /\ pushed'[c] = pushed[c]
  BY SettledBefore DEF Window
<1> QED  BY <1>1 DEF Drains

LEMMA KnownStays ==
    ASSUME TypeInv, Grown, cached \subseteq cached'
    PROVE  \A w \in Window : \A order, n : Known(w, order, n) => Known(w, order, n)'
<1> SUFFICES ASSUME NEW w \in Window, NEW order, NEW n, Known(w, order, n)
             PROVE  Known(w, order, n)'
  OBVIOUS
<1>1. w.end \in Nat /\ w.end <= clock /\ clock \in Nat
  BY DEF Known, Window, TypeInv, TypeOK
<1>2. \A c \in Commits : Settled(c, w.end)' => Settled(c, w.end) /\ pushed'[c] = pushed[c]
  BY <1>1, SettledBefore
<1>3. w.end <= clock'
  BY <1>1 DEF Grown
<1>4. Below(w)'
  BY <1>2 DEF Known, Below
<1>5. Planned(w, order)'
  BY <1>2 DEF Known, Planned
<1>6. \A i \in 1..n : Drains(w, order, i)'
  BY <1>1, DrainsStays DEF Known
<1> QED  BY <1>3, <1>4, <1>5, <1>6 DEF Known

\* A commit still to come on the branch is not overtaken by the pages.
LEMMA AheadStays ==
    ASSUME TypeInv, Grown, TypeInv', cached \subseteq cached'
    PROVE  \A w \in Window, i \in Nat, n \in Nat : \A order :
              w.end <= clock /\ StillAhead(w, order, i, n) => StillAhead(w, order, i, n)'
<1> SUFFICES ASSUME NEW w \in Window, NEW order, NEW i \in Nat, NEW n \in Nat, w.end <= clock,
                    StillAhead(w, order, i, n),
                    NEW c \in Commits, Settled(c, w.end)', pushed'[c].home = order[i],
                    pushed'[c].date \in w.start..w.end, c \notin cached'
             PROVE  Cardinality(NewerThan(c, order[i], w)') >= (n - 1) * PageSize
  BY DEF StillAhead
<1>1. Settled(c, w.end) /\ pushed'[c] = pushed[c] /\ pushed[c] # None
  BY SettledBefore DEF Window, Settled
<1>2. Cardinality(NewerThan(c, order[i], w)) >= (n - 1) * PageSize
  BY <1>1 DEF StillAhead
<1>3. ASSUME NEW d \in NewerThan(c, order[i], w) PROVE d \in NewerThan(c, order[i], w)'
  <2>1. /\ d \in Commits /\ order[i] \in reach[d] /\ pushed[d].date \in w.start..w.end
        /\ Newer(d, c)
    BY <1>3 DEF NewerThan, Listed
  <2>2. pushed'[d] = pushed[d] /\ order[i] \in reach'[d]
    BY <2>1 DEF TypeInv, Grown
  <2>3. Newer(d, c)'
    BY <1>1, <2>1, <2>2 DEF Newer
  <2> QED  BY <2>1, <2>2, <2>3 DEF NewerThan, Listed
<1>4. NewerThan(c, order[i], w) \subseteq NewerThan(c, order[i], w)'
      /\ NewerThan(c, order[i], w)' \subseteq Commits
  BY <1>3 DEF NewerThan, Listed
<1>5. /\ Cardinality(NewerThan(c, order[i], w)) <= Cardinality(NewerThan(c, order[i], w)')
      /\ Cardinality(NewerThan(c, order[i], w)) \in Nat
      /\ Cardinality(NewerThan(c, order[i], w)') \in Nat
  BY <1>4, Sizes
<1>6. (n - 1) * PageSize \in Int
  BY PagingAssumption
<1> QED  BY <1>2, <1>5, <1>6

LEMMA NothingMissedStays ==
    ASSUME TypeInv, Grown, cached \subseteq cached', RowInv, NothingMissed,
           row'.watermark = row.watermark
    PROVE  NothingMissed'
<1> SUFFICES ASSUME NEW c \in Commits, row.watermark # None, Settled(c, row.watermark)'
             PROVE  pushed'[c].home = None \/ pushed'[c].date > row.watermark \/ c \in cached'
  BY DEF NothingMissed, Settled
<1>1. row.watermark \in Nat /\ row.watermark <= clock
  BY DEF RowInv, TypeInv, TypeOK, CommitSyncState
<1>2. pushed'[c] # None /\ pushed'[c].at < row.watermark - ListTime
  BY DEF Settled
<1>3. pushed'[c] = pushed[c] /\ pushed[c] # None
  BY <1>1, <1>2, SyncAssumption DEF Grown, TypeInv, TypeOK
<1>4. Settled(c, row.watermark)
  BY <1>2, <1>3 DEF Settled
<1> QED  BY <1>3, <1>4 DEF NothingMissed

LEMMA ListStays ==
    ASSUME WindowInv, Grown, TypeInv', NEW x \in Executors,
           UNCHANGED <<pc, page, found, listedAt>>,
           pc[x] \in {"list", "read"} => clock' <= listedAt[x] + ListTime
    PROVE  ListOK(x)'
<1> SUFFICES ASSUME pc[x] \in {"list", "read"}
             PROVE  /\ listedAt[x] <= clock' /\ clock' <= listedAt[x] + ListTime
                    /\ \A c \in Commits : pushed'[c] # None /\ pushed'[c].at < listedAt[x] =>
                          \/ pushed'[c].home \in found[x]
                          \/ /\ pc[x] = "list"
                             /\ Cardinality(BranchesBefore(pushed[c].home)') >=
                                    (page[x] - 1) * PageSize
  BY DEF ListOK
<1>1. listedAt[x] \in Nat /\ page[x] \in Nat /\ clock \in Nat /\ listedAt[x] <= clock
  BY DEF WindowInv, ListOK, TypeInv, TypeOK
<1>2. ASSUME NEW c \in Commits, pushed'[c] # None, pushed'[c].at < listedAt[x],
             pushed'[c].home \notin found[x]
      PROVE  pc[x] = "list"
             /\ Cardinality(BranchesBefore(pushed[c].home)') >= (page[x] - 1) * PageSize
  <2>1. pushed[c] # None /\ pushed'[c] = pushed[c]
    BY <1>1, <1>2 DEF Grown
  <2>2. pc[x] = "list"
        /\ Cardinality(BranchesBefore(pushed[c].home)) >= (page[x] - 1) * PageSize
    BY <1>2, <2>1 DEF WindowInv, ListOK
  <2>3. BranchesBefore(pushed[c].home) \subseteq BranchesBefore(pushed[c].home)'
        /\ BranchesBefore(pushed[c].home)' \subseteq Branches
    <3>1. branches \subseteq branches' /\ branches' \subseteq Branches
      BY DEF Grown, TypeInv, TypeOK
    <3> QED  BY <2>1, <3>1 DEF BranchesBefore
  <2>4. /\ Cardinality(BranchesBefore(pushed[c].home))
              <= Cardinality(BranchesBefore(pushed[c].home)')
        /\ Cardinality(BranchesBefore(pushed[c].home)) \in Nat
        /\ Cardinality(BranchesBefore(pushed[c].home)') \in Nat
    BY <2>3, Sizes
  <2>5. (page[x] - 1) * PageSize \in Int
    BY <1>1, PagingAssumption
  <2> QED  BY <2>2, <2>4, <2>5
<1>3. listedAt[x] <= clock'
  BY <1>1 DEF Grown
<1> QED  BY <1>2, <1>3

LEMMA RunStays ==
    ASSUME WindowInv, Grown, TypeInv', NEW x \in Executors,
           UNCHANGED <<pc, page, plan, at, window, row, cached>>
    PROVE  RunOK(x)'
<1>1. /\ window[x] \in Window /\ plan[x] \in Seq(Branches) /\ page[x] \in Nat
      /\ at[x] \in Nat /\ at[x] - 1 \in Nat
  BY DEF WindowInv, TypeInv, TypeOK
<1>2. RunOK(x) /\ TypeInv
  BY DEF WindowInv
<1>3. Known(window[x], plan[x], at[x] - 1) =>
         Known(window[x], plan[x], at[x] - 1)' /\ window[x].end <= clock
  BY <1>1, <1>2, KnownStays DEF Known
<1>4. window[x].end <= clock /\ Drains(window[x], plan[x], at[x]) =>
         Drains(window[x], plan[x], at[x])'
  BY <1>1, <1>2, DrainsStays
<1>5. window[x].end <= clock /\ StillAhead(window[x], plan[x], at[x], page[x]) =>
         StillAhead(window[x], plan[x], at[x], page[x])'
  BY <1>1, <1>2, AheadStays
<1> QED  BY <1>2, <1>3, <1>4, <1>5 DEF RunOK

LEMMA GrownKeeps ==
    ASSUME WindowInv, TypeInv', Grown, PushInv', UNCHANGED <<store, holder, pc, locals>>,
           \A x \in Executors : pc[x] \in {"list", "read"} => clock' <= listedAt[x] + ListTime
    PROVE  WindowInv'
<1>1. \A x \in Executors : ListOK(x)' /\ RunOK(x)'
  BY ListStays, RunStays DEF store, locals
<1>2. RowInv'
  <2>1. row.cursor # None => row.window \in Window
    BY DEF WindowInv, TypeInv, TypeOK, CommitSyncState
  <2>2. row.watermark # None => row.watermark <= clock'
    BY DEF WindowInv, RowInv, TypeInv, TypeOK, CommitSyncState, Grown
  <2>3. row.cursor # None =>
           Known(row.window, row.cursor.branches, row.cursor.nextIndex)'
    BY <2>1, KnownStays DEF WindowInv, RowInv, store
  <2> QED  BY <2>2, <2>3 DEF WindowInv, RowInv, store
<1>3. NothingMissed'
  BY NothingMissedStays DEF WindowInv, store
<1> QED  BY <1>1, <1>2, <1>3 DEF WindowInv, Claimed


LEMMA TickKeeps == ASSUME WindowInv, Tick PROVE WindowInv'
<1>1. clock \in Nat /\ clock' = clock + 1 /\ UNCHANGED <<gitlab, store, holder, pc, locals>>
  BY DEF Tick, WindowInv, TypeInv, TypeOK
<1>2. TypeInv'
  BY TypeStep DEF WindowInv, Next
<1>3. Grown
  BY <1>1 DEF Grown, gitlab
<1>4. PushInv'
  BY <1>1, PushTypes DEF WindowInv, PushInv, gitlab
<1>5. \A x \in Executors : pc[x] \in {"list", "read"} => clock' <= listedAt[x] + ListTime
  BY <1>1, SyncAssumption DEF Tick, TypeInv, TypeOK, WindowInv
<1> QED  BY <1>1, <1>2, <1>3, <1>4, <1>5, GrownKeeps

LEMMA PeopleKeep ==
    ASSUME ~Rewrites, WindowInv, People
    PROVE  WindowInv'
<1>1. TypeInv' /\ UNCHANGED <<clock, store, holder, pc, locals>>
  BY TypeStep DEF WindowInv, Next, People, DeleteBranch, MergeCommit, RewriteBranch, PushCommit
<1>2. Grown /\ PushInv'
  <2> USE DEF WindowInv
  <2>0. /\ branches \subseteq Branches /\ clock \in Nat
        /\ pushed \in [Commits -> Push \cup {None}] /\ reach \in [Commits -> SUBSET Branches]
        /\ \A c \in Commits : reach[c] # {} => pushed[c] # None
    BY DEF TypeInv, TypeOK
  <2>1. ASSUME NEW c \in Commits, NEW b \in Branches, MergeCommit(c, b) PROVE Grown /\ PushInv'
    BY <1>1, <2>0, <2>1 DEF MergeCommit, Grown, PushInv
  <2>2. ASSUME NEW c \in Commits, NEW b \in Branches,
               NEW date \in (clock - MaxLag)..(clock + MaxAhead), PushCommit(c, b, date)
        PROVE  Grown /\ PushInv'
    <3>1. /\ pushed[c] = None /\ reach[c] = {} /\ branches' = branches \cup {b}
          /\ pushed' = [pushed EXCEPT ![c] = [at |-> clock, date |-> date, home |-> b]]
          /\ reach' = [reach EXCEPT ![c] = {b}] /\ clock' = clock
      BY <2>0, <2>2 DEF PushCommit
    <3>2. clock <= date + MaxLag
      BY <2>0, <2>2, SyncAssumption
    <3>3. Grown
      BY <2>0, <3>1 DEF Grown
    <3>4. PushInv'
      BY <2>0, <3>1, <3>2 DEF PushInv
    <3> QED  BY <3>3, <3>4
  <2> QED  BY <2>1, <2>2 DEF People, DeleteBranch, RewriteBranch
<1>3. \A x \in Executors : pc[x] \in {"list", "read"} => clock' <= listedAt[x] + ListTime
  BY <1>1 DEF WindowInv, ListOK
<1> QED  BY <1>1, <1>2, <1>3, GrownKeeps

-----------------------------------------------------------------------------
(* The steps of a run                                                      *)

\* While one run works the others are idle, and only it has anything to know.
LEMMA Alone ==
    ASSUME WindowInv, NEW x \in Executors, TypeInv', UNCHANGED <<clock, gitlab>>,
           cached \subseteq cached', pc'[x] # "idle" => holder' = x,
           \A y \in Executors \ {x} :
              pc[y] = "idle" /\ pc'[y] = "idle" /\ page'[y] = page[y],
           RowInv', NothingMissed', ListOK(x)', RunOK(x)'
    PROVE  WindowInv'
<1>1. Claimed'
  BY DEF Claimed
<1>2. PushInv'
  BY DEF WindowInv, PushInv, gitlab
<1>3. \A y \in Executors \ {x} : ListOK(y)' /\ RunOK(y)'
  BY DEF WindowInv, ListOK, RunOK
<1> QED  BY <1>1, <1>2, <1>3 DEF WindowInv

LEMMA Still ==
    ASSUME WindowInv, UNCHANGED <<clock, gitlab>>
    PROVE  Grown
  BY DEF Grown, gitlab, WindowInv, TypeInv, TypeOK

\* A step that leaves the row alone.
LEMMA RowStays ==
    ASSUME WindowInv, UNCHANGED <<clock, gitlab, row>>, cached \subseteq cached'
    PROVE  RowInv' /\ NothingMissed'
<1>1. Grown
  BY Still
<1>2. row.cursor # None => row.window \in Window
  BY DEF WindowInv, TypeInv, TypeOK, CommitSyncState
<1>3. row.cursor # None => Known(row.window, row.cursor.branches, row.cursor.nextIndex)'
  BY <1>1, <1>2, KnownStays DEF WindowInv, RowInv
<1>4. RowInv'
  BY <1>3 DEF WindowInv, RowInv
<1>5. NothingMissed'
  BY <1>1, NothingMissedStays DEF WindowInv
<1> QED  BY <1>4, <1>5

LEMMA OthersIdle ==
    ASSUME WindowInv, NEW x \in Executors, holder = None \/ pc[x] # "idle"
    PROVE  \A y \in Executors \ {x} : pc[y] = "idle"
  BY SyncAssumption DEF WindowInv, Claimed

\* A run ends with the row as it is, or as completeCommitWindow leaves it.
LEMMA EndKeeps ==
    ASSUME WindowInv, NEW x \in Executors, pc[x] # "idle", End(x), TypeInv',
           UNCHANGED <<clock, gitlab, cached>>, RowInv', NothingMissed'
    PROVE  WindowInv'
<1>1. pc'[x] = "idle" /\ page'[x] = 1
  BY DEF End, WindowInv, TypeInv, TypeOK
<1>2. \A y \in Executors \ {x} : pc[y] = "idle" /\ pc'[y] = "idle" /\ page'[y] = page[y]
  BY OthersIdle DEF End, WindowInv, TypeInv, TypeOK
<1>3. ListOK(x)' /\ RunOK(x)'
  BY <1>1 DEF ListOK, RunOK
<1> QED  BY <1>1, <1>2, <1>3, Alone

LEMMA StopKeeps == ASSUME WindowInv, NEW x \in Executors, Stop(x) PROVE WindowInv'
<1>1. TypeInv'
  BY TypeStep DEF WindowInv, Next
<1> QED  BY <1>1, RowStays, EndKeeps DEF Stop, store

LEMMA StartKeeps == ASSUME WindowInv, NEW x \in Executors, Start(x) PROVE WindowInv'
<1>1. TypeInv'
  BY TypeStep DEF WindowInv, Next, Step
<1>2. /\ pc[x] = "idle" /\ holder = None /\ holder' = x
      /\ pc' = [pc EXCEPT ![x] = "list"] /\ listedAt' = [listedAt EXCEPT ![x] = clock]
      /\ UNCHANGED <<clock, gitlab, row, cached, page, found>>
  BY DEF Start, Goto, store
<1>3. pc'[x] = "list" /\ listedAt'[x] = clock /\ page'[x] = 1 /\ clock \in Nat
  BY <1>2 DEF WindowInv, RunOK, TypeInv, TypeOK
<1>4. \A y \in Executors \ {x} : pc[y] = "idle" /\ pc'[y] = "idle" /\ page'[y] = page[y]
  BY <1>2, OthersIdle DEF WindowInv, TypeInv, TypeOK
<1>5. ListOK(x)'
  <2>1. \A b : BranchesBefore(b)' \subseteq Branches
    BY <1>1 DEF BranchesBefore, TypeInv, TypeOK
  <2>2. \A b : Cardinality(BranchesBefore(b)') >= (1 - 1) * PageSize
    BY <2>1, Sizes, PagingAssumption
  <2> QED  BY <1>2, <1>3, <2>2, SyncAssumption DEF ListOK
<1>6. RunOK(x)'
  BY <1>3 DEF RunOK
<1> QED  BY <1>1, <1>2, <1>4, <1>5, <1>6, RowStays, Alone

\* What a page brings, and what is on the last page.
LEMMA PageMeets ==
    ASSUME NEW list, NEW n \in Nat, NEW i \in DOMAIN list, IsFiniteSet(DOMAIN list),
           list[i] \subseteq DOMAIN list \ {i}, Cardinality(list[i]) >= (n - 1) * PageSize,
           i \notin Page(list, n)
    PROVE  ~IsLastPage(list, n) /\ Cardinality(list[i]) >= ((n + 1) - 1) * PageSize
<1>1. IsFiniteSet(list[i]) /\ IsFiniteSet(DOMAIN list \ {i})
  BY FS_Subset
<1>2. /\ Cardinality(list[i]) \in Nat /\ Cardinality(DOMAIN list \ {i}) \in Nat
      /\ Cardinality(DOMAIN list) \in Nat
  BY <1>1, FS_CardinalityType
<1>3. /\ Cardinality(list[i]) <= Cardinality(DOMAIN list \ {i})
      /\ Cardinality(DOMAIN list \ {i}) = Cardinality(DOMAIN list) - 1
  BY <1>1, FS_Subset, FS_RemoveElement
<1>4. PICK lo \in Int, hi \in Int : lo = (n - 1) * PageSize /\ hi = n * PageSize
  BY PagingAssumption
<1>5. Cardinality(list[i]) >= hi
  BY <1>2, <1>4 DEF Page
<1>6. (n + 1) - 1 = n
  OBVIOUS
<1> QED  BY <1>2, <1>3, <1>4, <1>5, <1>6 DEF IsLastPage

LEMMA ListKeeps == ASSUME WindowInv, NEW x \in Executors, ListBranches(x) PROVE WindowInv'
<1>1. TypeInv' /\ TypeOK
  BY TypeStep DEF WindowInv, Next, Step, TypeInv
<1>2. /\ pc[x] = "list" /\ UNCHANGED <<clock, gitlab, row, cached, holder, listedAt>>
      /\ found'[x] = found[x] \cup Page(BranchList, page[x])
      /\ IF IsLastPage(BranchList, page[x])
         THEN pc'[x] = "read" /\ page'[x] = 1
         ELSE page'[x] = page[x] + 1 /\ pc'[x] = "list"
  BY <1>1 DEF ListBranches, Goto, TypeOK, store
<1>3. \A y \in Executors \ {x} : pc[y] = "idle" /\ pc'[y] = "idle" /\ page'[y] = page[y]
  BY <1>1, <1>2, OthersIdle DEF ListBranches, Goto, TypeOK
<1>4. /\ branches \subseteq Branches /\ IsFiniteSet(branches) /\ Branches \subseteq Nat
      /\ page[x] \in Nat /\ listedAt[x] \in Nat
  BY <1>1, Sizes, SyncAssumption DEF TypeOK
<1>5. ListOK(x)'
  <2>1. listedAt[x] <= clock /\ clock <= listedAt[x] + ListTime
    BY <1>2 DEF WindowInv, ListOK
  <2>2. ASSUME NEW c \in Commits, pushed[c] # None, pushed[c].at < listedAt[x],
               pushed[c].home \notin found'[x]
        PROVE  /\ pc'[x] = "list"
               /\ Cardinality(BranchesBefore(pushed[c].home)) >= (page'[x] - 1) * PageSize
    <3> DEFINE home == pushed[c].home
    <3>1. home \in branches /\ home \notin found[x] /\ home \notin Page(BranchList, page[x])
      BY <1>2, <2>2 DEF WindowInv, PushInv
    <3>2. Cardinality(BranchesBefore(home)) >= (page[x] - 1) * PageSize
      BY <1>2, <2>2, <3>1 DEF WindowInv, ListOK
    <3>3. /\ DOMAIN BranchList = branches /\ BranchList[home] = BranchesBefore(home)
          /\ BranchesBefore(home) \subseteq branches \ {home}
      <4> HIDE DEF home
      <4>1. home \in Nat
        BY <1>4, <3>1
      <4>2. DOMAIN BranchList = branches /\ BranchList[home] = {a \in branches : a < home}
        BY <3>1 DEF BranchList
      <4> QED  BY <1>4, <4>1, <4>2 DEF BranchesBefore
    <3> HIDE DEF home
    <3>4. ~IsLastPage(BranchList, page[x])
          /\ Cardinality(BranchesBefore(home)) >= ((page[x] + 1) - 1) * PageSize
      BY <1>4, <3>1, <3>2, <3>3, PageMeets
    <3> QED  BY <1>2, <3>4 DEF home
  <2>3. \A b : BranchesBefore(b)' = BranchesBefore(b)
    BY <1>2 DEF BranchesBefore, gitlab
  <2> QED  BY <1>2, <2>1, <2>2, <2>3 DEF ListOK, gitlab
<1>6. RunOK(x)'
  BY <1>2 DEF RunOK
<1>7. holder' = x
  BY <1>2 DEF WindowInv, Claimed
<1> QED  BY <1>1, <1>2, <1>3, <1>5, <1>6, <1>7, RowStays, Alone


\* The window a run opens, and the order it finds.
LEMMA OpenKnows ==
    ASSUME WindowInv, NEW x \in Executors, pc[x] = "read", NEW order \in Orders(found[x])
    PROVE  Known(NewWindow(clock), order, 0) /\ NewWindow(clock) \in Window
<1>1. /\ found[x] \in SUBSET Branches /\ clock \in Nat /\ listedAt[x] \in Nat
      /\ row.watermark \in Nat \cup {None}
  BY DEF WindowInv, TypeInv, TypeOK, CommitSyncState
<1>2. ToSet(order) = found[x]
  BY <1>1, Orderings
<1> DEFINE w == NewWindow(clock)
<1>3. /\ w \in Window /\ w.end = clock
      /\ row.watermark # None => row.watermark \in Nat /\ row.watermark <= clock
      /\ w.start = IF row.watermark = None \/ row.watermark < Overlap THEN 0
                   ELSE row.watermark - Overlap
  BY <1>1, SyncAssumption DEF NewWindow, Window, WindowInv, RowInv
<1> HIDE DEF w
<1>4. Planned(w, order)
  <2> SUFFICES ASSUME NEW c \in Commits, Settled(c, clock) PROVE pushed[c].home \in found[x]
    BY <1>2, <1>3 DEF Planned
  <2>1. clock <= listedAt[x] + ListTime
    BY DEF WindowInv, ListOK
  <2>2. pushed[c] # None /\ pushed[c].at < listedAt[x]
    BY <1>1, <2>1, PushTypes, SyncAssumption DEF Settled, WindowInv
  <2> QED  BY <2>2 DEF WindowInv, ListOK
<1>5. Below(w)
  <2> SUFFICES ASSUME NEW c \in Commits, Settled(c, clock), pushed[c].date < w.start
               PROVE  c \in cached
    BY <1>3 DEF Below
  <2>1. /\ pushed[c] # None /\ pushed[c].at \in Nat /\ pushed[c].date \in Nat
        /\ pushed[c].at <= pushed[c].date + MaxLag /\ pushed[c].home \in Branches
    BY PushTypes DEF Settled, WindowInv, PushInv, TypeInv, TypeOK
  <2>2. row.watermark \in Nat /\ row.watermark # None /\ w.start = row.watermark - Overlap
    BY <1>1, <1>3, <2>1
  <2>3. Settled(c, row.watermark) /\ pushed[c].date <= row.watermark
    BY <2>1, <2>2, SyncAssumption DEF Settled
  <2>4. pushed[c].home # None
    BY <2>1, SyncAssumption
  <2> QED  BY <2>1, <2>2, <2>3, <2>4 DEF NothingMissed, WindowInv
<1>6. w.end <= clock /\ \A i \in 1..0 : Drains(w, order, i)
  BY <1>1, <1>3
<1> QED  BY <1>3, <1>4, <1>5, <1>6 DEF Known, w

\* A longer plan does as well.
LEMMA LongerPlan ==
    ASSUME NEW w, NEW old \in Seq(Branches), NEW order \in Seq(Branches), NEW n \in Nat,
           NEW m \in Nat, Known(w, old, n), n <= Len(old), Len(old) <= Len(order), m <= n,
           \A i \in 1..Len(old) : order[i] = old[i]
    PROVE  Known(w, order, m)
<1>1. ToSet(old) \subseteq ToSet(order)
  BY DEF ToSet
<1>2. Planned(w, order)
  BY <1>1 DEF Known, Planned
<1>3. \A i \in 1..m : Drains(w, order, i)
  BY DEF Known, Drains
<1> QED  BY <1>2, <1>3 DEF Known

\* A branch is begun with its first page.
LEMMA FirstPage ==
    ASSUME NEW w, NEW order, NEW i
    PROVE  StillAhead(w, order, i, 1)
<1>1. \A c : NewerThan(c, order[i], w) \subseteq Commits
  BY DEF NewerThan, Listed
<1>2. \A c : Cardinality(NewerThan(c, order[i], w)) >= (1 - 1) * PageSize
  BY <1>1, Sizes, PagingAssumption
<1> QED  BY <1>2 DEF StillAhead

LEMMA ReadKeeps == ASSUME WindowInv, NEW x \in Executors, ReadState(x) PROVE WindowInv'
<1>1. TypeInv' /\ TypeOK
  BY TypeStep DEF WindowInv, Next, Step, TypeInv
<1>2. pc[x] = "read" /\ page[x] = 1 /\ UNCHANGED <<clock, gitlab, row, cached, holder, page>>
  BY DEF ReadState, store, WindowInv, RunOK
<1>3. \A y \in Executors \ {x} : pc[y] = "idle" /\ page'[y] = page[y]
  BY <1>2, OthersIdle
<1>4. holder' = x
  BY <1>2 DEF WindowInv, Claimed
<1>5. CASE OpenWindow(x)
  <2>1. PICK order \in Orders(found[x]) : plan' = [plan EXCEPT ![x] = order]
    BY <1>5 DEF OpenWindow
  <2>2. /\ plan'[x] = order /\ at'[x] = 1 /\ window'[x] = NewWindow(clock) /\ pc'[x] = "begin"
        /\ \A y \in Executors \ {x} : pc'[y] = pc[y]
    BY <1>1, <1>5, <2>1 DEF OpenWindow, Goto, TypeOK
  <2>3. PICK w \in Window : w = NewWindow(clock) /\ Known(w, order, 0)
    BY <1>2, OpenKnows
  <2>4. Known(w, order, 0)'
    BY <1>2, <2>3, Still, KnownStays DEF WindowInv
  <2>5. RunOK(x)'
    BY <1>2, <2>2, <2>3, <2>4 DEF RunOK
  <2>6. ListOK(x)'
    BY <2>2 DEF ListOK
  <2> QED  BY <1>1, <1>2, <1>3, <1>4, <2>2, <2>5, <2>6, RowStays, Alone
<1>6. CASE ContinueWindow(x)
  <2>1. PICK order \in ContinuePlan(x, row.cursor) :
          LET next == Min({row.cursor.nextIndex, Len(order)}) + 1
          IN /\ plan' = [plan EXCEPT ![x] = order]
             /\ at' = [at EXCEPT ![x] = next]
             /\ IF found[x] \subseteq ToSet(row.cursor.branches)
                THEN GotoDrain(x, next, order)
                ELSE Goto(x, "extend")
    BY <1>6 DEF ContinueWindow
  <2> DEFINE done == Min({row.cursor.nextIndex, Len(order)})
             old == row.cursor.branches
  <2>2. /\ old \in Seq(Branches) /\ row.cursor.nextIndex \in Nat
        /\ order \in Seq(Branches) /\ Len(old) <= Len(order)
        /\ \A i \in 1..Len(old) : order[i] = old[i]
    BY <1>1, <1>6, Continues DEF ContinueWindow
  <2>3. done \in Nat /\ done <= row.cursor.nextIndex /\ done <= Len(order)
    BY <2>2, Least
  <2>4. row.cursor # None /\ window'[x] = row.window /\ row.window \in Window
    BY <1>1, <1>6 DEF ContinueWindow, TypeOK, CommitSyncState
  <2>5. /\ plan'[x] = order /\ at'[x] = done + 1
        /\ pc'[x] \in {"extend", "drain", "drained"}
        /\ pc'[x] = "drained" => ~(done + 1 <= Len(order))
        /\ \A y \in Executors \ {x} : pc'[y] = pc[y]
    BY <1>1, <2>1 DEF GotoDrain, Goto, TypeOK
  <2> HIDE DEF done
  <2>6. Known(row.window, old, row.cursor.nextIndex) /\ row.cursor.nextIndex <= Len(old)
    BY <2>4 DEF WindowInv, RowInv
  <2> HIDE DEF old
  <2>7. PICK w \in Window, n \in Nat : w = row.window /\ n = done /\ Known(w, order, n)
    BY <2>2, <2>3, <2>4, <2>6, LongerPlan
  <2>8. Known(w, order, n)' /\ n + 1 - 1 = n
    BY <1>2, <2>7, Still, KnownStays DEF WindowInv
  <2>9. StillAhead(w, order, n + 1, 1)'
    BY FirstPage, <1>1, <1>2, <2>7, Still, AheadStays DEF WindowInv, Known
  <2>10. RunOK(x)'
    BY <1>2, <2>3, <2>4, <2>5, <2>7, <2>8, <2>9 DEF RunOK
  <2>11. ListOK(x)'
    BY <2>5 DEF ListOK
  <2> QED  BY <1>1, <1>2, <1>3, <1>4, <2>5, <2>10, <2>11, RowStays, Alone
<1> QED  BY <1>5, <1>6 DEF ReadState


\* ExtendPlan, BeginWindow and AdvanceBranch: the row takes over what the run knows
\* of its window, with n branches behind it.
LEMMA RowTaken ==
    ASSUME WindowInv, NEW x \in Executors, pc[x] # "idle", TypeInv',
           UNCHANGED <<clock, gitlab, cached, holder, locals>>,
           NEW n \in Nat, n <= Len(plan[x]), Known(window[x], plan[x], n),
           row'.watermark = row.watermark, row'.window = window[x],
           row'.cursor # None => row'.cursor = [branches |-> plan[x], nextIndex |-> n],
           NEW label, pc' = [pc EXCEPT ![x] = label],
           label \in {"drain", "drained", "advanced"}, page[x] = 1,
           Known(window[x], plan[x], at[x] - 1),
           label \in {"drained", "advanced"} /\ at[x] <= Len(plan[x]) =>
              Drains(window[x], plan[x], at[x]),
           label = "advanced" => at[x] < Len(plan[x])
    PROVE  WindowInv'
<1>1. PICK w \in Window, order \in Seq(Branches), i \in Nat :
         w = window[x] /\ order = plan[x] /\ i = at[x] /\ i - 1 \in Nat /\ w.end <= clock
  BY DEF WindowInv, TypeInv, TypeOK, Known
<1>2. Grown /\ TypeInv
  BY Still DEF WindowInv
<1>3. Known(w, order, n)' /\ Known(w, order, i - 1)'
  BY <1>1, <1>2, KnownStays
<1>4. Drains(w, order, i) => Drains(w, order, i)'
  BY <1>1, <1>2, DrainsStays
<1>5. StillAhead(w, order, i, 1)'
  BY <1>1, <1>2, FirstPage, AheadStays
<1>6. /\ window'[x] = w /\ plan'[x] = order /\ at'[x] = i /\ page'[x] = 1 /\ pc'[x] = label
      /\ \A y \in Executors \ {x} : pc[y] = "idle" /\ pc'[y] = "idle" /\ page'[y] = page[y]
  BY <1>1, OthersIdle DEF locals, WindowInv, TypeInv, TypeOK
<1>7. RowInv'
  BY <1>1, <1>3, <1>6 DEF RowInv, WindowInv
<1>8. NothingMissed'
  BY <1>2, NothingMissedStays DEF WindowInv
<1>9. RunOK(x)'
  BY <1>1, <1>3, <1>4, <1>5, <1>6 DEF RunOK
<1>10. ListOK(x)'
  BY <1>6 DEF ListOK
<1>11. holder' = x
  BY DEF WindowInv, Claimed
<1> QED  BY <1>6, <1>7, <1>8, <1>9, <1>10, <1>11, Alone

LEMMA RowStep ==
    ASSUME WindowInv, NEW x \in Executors, ExtendPlan(x) \/ BeginWindow(x) \/ AdvanceBranch(x)
    PROVE  WindowInv'
<1>1. TypeInv'
  BY TypeStep DEF WindowInv, Next, Step
<1>2. /\ RunOK(x) /\ row \in CommitSyncState /\ plan[x] \in Seq(Branches) /\ at[x] \in Nat
      /\ at[x] - 1 \in Nat
  BY DEF WindowInv, TypeInv, TypeOK
<1>3. Len(plan[x]) \in Nat
  BY <1>2
<1>4. CASE ExtendPlan(x)
  <2>1. /\ pc[x] = "extend" /\ UNCHANGED <<clock, gitlab, cached, holder, locals>>
        /\ row' = [row EXCEPT !.cursor = [branches |-> plan[x], nextIndex |-> at[x] - 1]]
        /\ pc' = [pc EXCEPT ![x] = IF at[x] <= Len(plan[x]) THEN "drain" ELSE "drained"]
    BY <1>4 DEF ExtendPlan, GotoDrain, Goto
  <2>2. /\ Known(window[x], plan[x], at[x] - 1) /\ row.window = window[x] /\ page[x] = 1
        /\ at[x] - 1 <= Len(plan[x])
    BY <1>2, <2>1 DEF RunOK
  <2>3. row'.watermark = row.watermark /\ row'.window = row.window
        /\ row'.cursor = [branches |-> plan[x], nextIndex |-> at[x] - 1]
    BY <1>2, <2>1 DEF CommitSyncState
  <2>4. PICK label \in {"drain", "drained"} :
          pc' = [pc EXCEPT ![x] = label] /\ (label = "drained" => ~(at[x] <= Len(plan[x])))
    BY <2>1
  <2>5. label \in {"drain", "drained", "advanced"} /\ label # "advanced"
        /\ ~(label \in {"drained", "advanced"} /\ at[x] <= Len(plan[x]))
    BY <2>4
  <2> QED  BY <1>1, <1>2, <2>1, <2>2, <2>3, <2>4, <2>5, RowTaken
<1>5. CASE BeginWindow(x)
  <2>1. /\ pc[x] = "begin" /\ UNCHANGED <<clock, gitlab, cached, holder, locals>>
        /\ row' = [row EXCEPT !.window = window[x],
                              !.cursor = IF plan[x] = <<>> THEN None
                                         ELSE [branches |-> plan[x], nextIndex |-> 0]]
        /\ pc' = [pc EXCEPT ![x] = IF at[x] <= Len(plan[x]) THEN "drain" ELSE "drained"]
    BY <1>5 DEF BeginWindow, GotoDrain, Goto
  <2>2. Known(window[x], plan[x], 0) /\ at[x] = 1 /\ page[x] = 1
    BY <1>2, <2>1 DEF RunOK
  <2>3. /\ row'.watermark = row.watermark /\ row'.window = window[x]
        /\ row'.cursor # None => row'.cursor = [branches |-> plan[x], nextIndex |-> 0]
    BY <1>2, <2>1 DEF CommitSyncState
  <2>4. PICK label \in {"drain", "drained"} :
          pc' = [pc EXCEPT ![x] = label] /\ (label = "drained" => ~(at[x] <= Len(plan[x])))
    BY <2>1
  <2>5. label \in {"drain", "drained", "advanced"} /\ label # "advanced"
        /\ ~(label \in {"drained", "advanced"} /\ at[x] <= Len(plan[x]))
    BY <2>4
  <2>6. 0 <= Len(plan[x]) /\ 0 \in Nat /\ pc[x] # "idle"
    BY <1>3, <2>1
  <2>7. Known(window[x], plan[x], at[x] - 1)
    BY <2>2
  <2> QED  BY <1>1, <2>1, <2>2, <2>3, <2>4, <2>5, <2>6, <2>7, RowTaken
<1>6. CASE AdvanceBranch(x)
  <2>1. /\ pc[x] = "drained" /\ at[x] < Len(plan[x])
        /\ UNCHANGED <<clock, gitlab, cached, holder, locals>>
        /\ row' = [row EXCEPT !.cursor = [branches |-> plan[x], nextIndex |-> at[x]]]
        /\ pc' = [pc EXCEPT ![x] = "advanced"]
    BY <1>6 DEF AdvanceBranch, NextBranchCursor, Goto
  <2>2. /\ Known(window[x], plan[x], at[x] - 1) /\ row.window = window[x] /\ page[x] = 1
        /\ Drains(window[x], plan[x], at[x])
    BY <1>2, <1>3, <2>1 DEF RunOK
  <2>3. Known(window[x], plan[x], at[x])
    BY <1>2, <2>2 DEF Known
  <2>4. row'.watermark = row.watermark /\ row'.window = row.window
        /\ row'.cursor = [branches |-> plan[x], nextIndex |-> at[x]]
    BY <1>2, <2>1 DEF CommitSyncState
  <2>5. at[x] \in Nat /\ at[x] <= Len(plan[x]) /\ pc[x] # "idle"
        /\ "advanced" \in {"drain", "drained", "advanced"}
    BY <1>2, <1>3, <2>1
  <2>6. PICK label : label = "advanced" /\ pc' = [pc EXCEPT ![x] = label]
    BY <2>1
  <2> QED  BY <1>1, <2>1, <2>2, <2>3, <2>4, <2>5, <2>6, RowTaken
<1> QED  BY <1>4, <1>5, <1>6

\* A page of the branch: what it does not bring is on a later one.
LEMMA DrainKeeps == ASSUME WindowInv, NEW x \in Executors, DrainPage(x) PROVE WindowInv'
<1>1. TypeInv' /\ TypeOK /\ TypeInv /\ RunOK(x)
  BY TypeStep DEF WindowInv, Next, Step, TypeInv
<1>2. PICK w \in Window, order \in Seq(Branches), i \in Nat, n \in Nat :
         /\ w = window[x] /\ order = plan[x] /\ i = at[x] /\ n = page[x] /\ i - 1 \in Nat
  BY <1>1 DEF TypeInv, TypeOK
<1> DEFINE list == CommitList(order[i], w)
<1>3. /\ pc[x] = "drain" /\ UNCHANGED <<clock, gitlab, row, holder, plan, at, window>>
      /\ cached' = cached \cup Page(list, n)
      /\ \/ IsLastPage(list, n) /\ pc'[x] = "drained" /\ page'[x] = 1
         \/ ~IsLastPage(list, n) /\ pc'[x] = "drain" /\ page'[x] = n + 1
      /\ \A y \in Executors \ {x} : pc'[y] = pc[y] /\ page'[y] = page[y]
  BY <1>1, <1>2 DEF DrainPage, Upsert, Goto, TypeOK
<1>4. /\ Known(w, order, i - 1) /\ row.window = w /\ StillAhead(w, order, i, n) /\ holder = x
  BY <1>1, <1>2, <1>3 DEF RunOK, WindowInv, Claimed
<1>5. cached \subseteq cached' /\ Grown
  BY <1>3, Still
<1>6. Known(w, order, i - 1)'
  BY <1>1, <1>4, <1>5, KnownStays
<1>7. ASSUME NEW c \in Commits, Settled(c, w.end), pushed[c].home = order[i],
             pushed[c].date \in w.start..w.end, c \notin cached'
      PROVE  /\ ~IsLastPage(list, n)
             /\ Cardinality(NewerThan(c, order[i], w)) >= ((n + 1) - 1) * PageSize
  <2>1. c \in Listed(order[i], w)
    BY <1>7 DEF Listed, Settled, WindowInv, PushInv
  <2>2. Cardinality(NewerThan(c, order[i], w)) >= (n - 1) * PageSize
    BY <1>4, <1>5, <1>7 DEF StillAhead
  <2>3. /\ DOMAIN list = Listed(order[i], w) /\ list[c] = NewerThan(c, order[i], w)
        /\ IsFiniteSet(Listed(order[i], w))
    BY <2>1, Sizes DEF CommitList, NewerThan, Listed
  <2>4. c \notin NewerThan(c, order[i], w)
    <3>1. pushed[c].date \in Nat /\ c \in Nat
      BY <1>1, <1>7, PushTypes, SyncAssumption DEF Settled
    <3> QED  BY <3>1 DEF NewerThan, Newer
  <2>5. NewerThan(c, order[i], w) \subseteq Listed(order[i], w) \ {c}
    BY <2>4 DEF NewerThan
  <2>6. c \notin Page(list, n)
    BY <1>3, <1>7
  <2> HIDE DEF list
  <2> QED  BY <2>1, <2>2, <2>3, <2>5, <2>6, PageMeets
<1> HIDE DEF list
<1>8. IsLastPage(list, n) => Drains(w, order, i)'
  BY <1>3, <1>7 DEF Drains, Settled, gitlab
<1>9. StillAhead(w, order, i, n + 1)'
  <2>1. \A c : NewerThan(c, order[i], w)' = NewerThan(c, order[i], w)
    BY <1>3 DEF NewerThan, Newer, Listed, gitlab
  <2>2. \A c, t : Settled(c, t)' <=> Settled(c, t)
    BY <1>3 DEF Settled, gitlab
  <2> QED  BY <1>3, <1>7, <2>1, <2>2 DEF StillAhead, gitlab
<1>10. RunOK(x)'
  BY <1>2, <1>3, <1>4, <1>6, <1>8, <1>9 DEF RunOK
<1>11. ListOK(x)'
  BY <1>3 DEF ListOK
<1>12. \A y \in Executors \ {x} : pc[y] = "idle" /\ pc'[y] = "idle" /\ page'[y] = page[y]
  BY <1>3, OthersIdle
<1> QED  BY <1>1, <1>3, <1>4, <1>5, <1>10, <1>11, <1>12, RowStays, Alone

LEMMA AskKeeps == ASSUME WindowInv, NEW x \in Executors, AskBudget(x) PROVE WindowInv'
<1>1. TypeInv' /\ TypeOK /\ TypeInv /\ RunOK(x)
  BY TypeStep DEF WindowInv, Next, Step, TypeInv
<1>2. CASE End(x)
  BY <1>1, <1>2, RowStays, EndKeeps DEF AskBudget, store
<1>3. CASE /\ Goto(x, "drain") /\ at' = [at EXCEPT ![x] = @ + 1]
           /\ UNCHANGED <<holder, page, found, listedAt, plan, window>>
  <2>1. PICK w \in Window, order \in Seq(Branches), i \in Nat :
           w = window[x] /\ order = plan[x] /\ i = at[x] /\ i - 1 \in Nat
    BY <1>1 DEF TypeInv, TypeOK
  <2>2. /\ pc[x] = "advanced" /\ UNCHANGED <<clock, gitlab, row, cached, holder, page, plan, window>>
        /\ at'[x] = i + 1 /\ pc'[x] = "drain"
        /\ \A y \in Executors \ {x} : pc'[y] = pc[y]
    BY <1>1, <1>3, <2>1 DEF AskBudget, Goto, TypeOK, store
  <2>3. /\ Known(w, order, i - 1) /\ row.window = w /\ page[x] = 1 /\ holder = x
        /\ Drains(w, order, i)
    <3>1. at[x] < Len(plan[x]) /\ Len(plan[x]) \in Nat
      BY <1>1, <2>1, <2>2 DEF RunOK
    <3> QED  BY <1>1, <2>1, <2>2, <3>1 DEF RunOK, WindowInv, Claimed
  <2>4. Known(w, order, i) /\ w.end <= clock
    BY <2>1, <2>3 DEF Known
  <2>5. Known(w, order, i)' /\ StillAhead(w, order, i + 1, 1)' /\ (i + 1) - 1 = i
    <3>1. Grown /\ cached \subseteq cached' /\ i + 1 \in Nat /\ 1 \in Nat
      BY <2>2, Still
    <3>2. Known(w, order, i)'
      BY <1>1, <2>4, <3>1, KnownStays
    <3>3. StillAhead(w, order, i + 1, 1)
      BY FirstPage
    <3>4. StillAhead(w, order, i + 1, 1)'
      BY <1>1, <2>4, <3>1, <3>3, AheadStays
    <3> QED  BY <3>2, <3>4
  <2>6. RunOK(x)'
    BY <2>1, <2>2, <2>3, <2>5 DEF RunOK
  <2>7. ListOK(x)'
    BY <2>2 DEF ListOK
  <2> QED  BY <1>1, <2>2, <2>3, <2>6, <2>7, OthersIdle, RowStays, Alone
<1> QED  BY <1>2, <1>3 DEF AskBudget

\* The plan drained, all that is settled has its home in it: either below the
\* window or in it.
LEMMA CompleteKeeps == ASSUME WindowInv, NEW x \in Executors, CompleteWindow(x) PROVE WindowInv'
<1>1. TypeInv' /\ TypeOK /\ TypeInv /\ RunOK(x) /\ row \in CommitSyncState
  BY TypeStep DEF WindowInv, Next, Step, TypeInv, TypeOK
<1>2. /\ window[x] \in Window /\ plan[x] \in Seq(Branches) /\ at[x] \in Nat /\ at[x] - 1 \in Nat
      /\ Len(plan[x]) \in Nat
  <2>1. window[x] \in Window /\ plan[x] \in Seq(Branches) /\ at[x] \in Nat /\ at[x] >= 1
    BY <1>1 DEF TypeInv, TypeOK
  <2> QED  BY <2>1
<1>3. /\ pc[x] = "drained" /\ at[x] >= Len(plan[x]) /\ End(x) /\ UNCHANGED <<clock, gitlab, cached>>
      /\ row'.watermark = window[x].end /\ row'.cursor = None
  BY <1>1 DEF CompleteWindow, WatermarkOf, CommitSyncState
<1>4. Known(window[x], plan[x], at[x] - 1)
      /\ (at[x] <= Len(plan[x]) => Drains(window[x], plan[x], at[x]))
  BY <1>1, <1>3 DEF RunOK
<1>5. \A i \in 1..Len(plan[x]) : Drains(window[x], plan[x], i)
  BY <1>2, <1>3, <1>4 DEF Known
<1>6. RowInv'
  BY <1>3, <1>4 DEF RowInv, Known
<1>7. NothingMissed'
  <2> SUFFICES ASSUME NEW c \in Commits, Settled(c, window[x].end)
               PROVE  pushed[c].date > window[x].end \/ c \in cached
    BY <1>3 DEF NothingMissed, Settled, gitlab
  <2>1. PICK i \in 1..Len(plan[x]) : pushed[c].home = plan[x][i]
    BY SMTT(30), <1>2, <1>4 DEF Known, Planned, ToSet
  <2>2. pushed[c].date \in Nat
    BY <1>1, PushTypes DEF Settled
  <2>3. CASE pushed[c].date < window[x].start
    BY <1>4, <2>3 DEF Known, Below
  <2>4. CASE pushed[c].date \in window[x].start..window[x].end
    BY <1>5, <2>1, <2>4 DEF Drains
  <2> QED  BY <1>2, <2>2, <2>3, <2>4 DEF Window
<1> QED  BY <1>1, <1>3, <1>6, <1>7, EndKeeps

-----------------------------------------------------------------------------
LEMMA WindowInit == Init => WindowInv
<1> SUFFICES ASSUME Init PROVE WindowInv
  OBVIOUS
<1>1. TypeInv
  BY TypeInit
<1>2. Claimed /\ PushInv /\ RowInv /\ NothingMissed
  BY DEF Init, Claimed, PushInv, RowInv, NothingMissed
<1>3. \A x \in Executors : ListOK(x) /\ RunOK(x)
  BY DEF Init, ListOK, RunOK
<1> QED  BY <1>1, <1>2, <1>3 DEF WindowInv

LEMMA WindowStep ==
    ASSUME ~Rewrites
    PROVE  WindowInv /\ [Next]_vars => WindowInv'
<1> SUFFICES ASSUME WindowInv, [Next]_vars PROVE WindowInv'
  OBVIOUS
<1>1. ASSUME NEW x \in Executors, Step(x) PROVE WindowInv'
  BY <1>1, StartKeeps, ListKeeps, ReadKeeps, RowStep, DrainKeeps, AskKeeps, CompleteKeeps
     DEF Step
<1>2. CASE UNCHANGED vars
  <2>1. UNCHANGED <<clock, gitlab, store, holder, pc, locals>>
    BY <1>2 DEF vars
  <2>2. TypeInv' /\ PushInv'
    BY <1>2, <2>1, TypeStep DEF WindowInv, PushInv, gitlab
  <2>3. \A x \in Executors : pc[x] \in {"list", "read"} => clock' <= listedAt[x] + ListTime
    BY <2>1 DEF WindowInv, ListOK
  <2> QED  BY <2>1, <2>2, <2>3, Still, GrownKeeps
<1> QED
  BY <1>1, <1>2, TickKeeps, PeopleKeep, StopKeeps DEF Next

\* Where nobody deletes branches or rewrites history, no commit pushed before the
\* watermark and dated up to it is missing, for any number of branches, commits
\* and runs, any size of page, and any overlap that covers the lag of dates and
\* the time of a listing: #syncCommits and completeCommitWindow.
THEOREM NoCommitMissed ==
    ASSUME ~Rewrites
    PROVE  Spec => []NothingMissed
<1>1. WindowInv => NothingMissed
  BY DEF WindowInv
<1> QED
  BY WindowInit, WindowStep, <1>1, PTL DEF Spec

\* The cursor passes a branch only with the branch drained, for any number of
\* branches, commits and runs: advanceCommitBranch and the plan that a later run
\* goes on with.
THEOREM PassesDrained ==
    ASSUME ~Rewrites
    PROVE  Spec => []CursorPassesDrained
<1>1. WindowInv => CursorPassesDrained
  BY DEF WindowInv, RowInv, Known, Drains, CursorPassesDrained
<1> QED
  BY WindowInit, WindowStep, <1>1, PTL DEF Spec
=============================================================================

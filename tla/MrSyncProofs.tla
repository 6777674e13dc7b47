---------------------------- MODULE MrSyncProofs ----------------------------
(***************************************************************************)
(* Proofs about MrSync, for any number of merge requests, any page size    *)
(* and any interleaving of updates with the runs and their ends: types,    *)
(* what a cursor stands for, and that nothing at all is skipped where      *)
(* every list fits on one page.  And about ProjectSync: a run of the       *)
(* project is a behaviour of MrSync, and one of CommitSync.                *)
(***************************************************************************)
EXTENDS ProjectSync, FiniteSetTheorems, TLAPS

Known(m) == live[m] # None

\* What the times and pages read so far allow.
TimesInv ==
    /\ \A m \in Mrs : Known(m) => live[m] <= clock
    /\ cursor # None => cursor <= clock
    /\ runEnd <= clock
    /\ pc = "idle" => page = 1
    /\ pc = "fetch" => page # 0
    /\ pc # "idle" => since = Since /\ (cursor # None => cursor <= runEnd)

\* A copy is of the merge request as it is, or it was updated meanwhile.
CopiesInv ==
    /\ pc = "idle" => fetched = {}
    /\ \A f \in fetched : Known(f.iid) /\ (f.updatedAt = live[f.iid] \/ live[f.iid] >= runEnd)

\* Where the run still finds a merge request that the cache is behind with.
Coming(m) ==
    \/ pc = "fetch" /\ Waiting(m)
    \/ pc = "upsert" /\ (Waiting(m) \/ \E f \in fetched : f.iid = m)

RunInv ==
    pc # "idle" =>
        \A m \in Mrs : Known(m) /\ live[m] < runEnd =>
                           cached[m] = live[m] \/ Coming(m) \/ m \in slipped

CursorInv == TypeOK /\ TimesInv /\ CopiesInv /\ CursorCovers /\ RunInv

-----------------------------------------------------------------------------
(* Lists and copies                                                        *)

\* The items ahead of one on the list are some of the others.
LEMMA PlaceOnList ==
    ASSUME TypeOK, NEW m \in Updated
    PROVE  /\ IsFiniteSet(Updated) /\ Cardinality(Updated) \in Nat
           /\ MrList[m] = {n \in Updated : Older(n, m)}
           /\ Cardinality(MrList[m]) \in Nat
           /\ Cardinality(MrList[m]) < Cardinality(Updated)
<1>1. IsFiniteSet(Updated) /\ Cardinality(Updated) \in Nat
  BY MrAssumption, FS_Subset, FS_CardinalityType DEF Updated
<1>2. MrList[m] = {n \in Updated : Older(n, m)}
  BY DEF MrList
<1>3. ~Older(m, m)
  <2>1. live[m] \in Nat /\ m \in Nat
    BY MrAssumption DEF TypeOK, Updated
  <2> QED BY <2>1 DEF Older
<1>4. MrList[m] \subseteq Updated \ {m}
  BY <1>2, <1>3
<1>5. IsFiniteSet(Updated \ {m}) /\ Cardinality(Updated \ {m}) = Cardinality(Updated) - 1
  BY <1>1, FS_RemoveElement
<1>6. /\ IsFiniteSet(MrList[m]) /\ Cardinality(MrList[m]) <= Cardinality(Updated \ {m})
      /\ Cardinality(MrList[m]) \in Nat
  BY <1>4, <1>5, FS_Subset, FS_CardinalityType
<1> QED BY <1>1, <1>2, <1>5, <1>6

\* What is ahead is on the page asked for, or past it and that is not the last.
LEMMA PageOrPast ==
    ASSUME TypeOK, NEW m \in Mrs, Waiting(m)
    PROVE  \/ m \in Page(MrList, page)
           \/ /\ page * PageSize <= Cardinality(MrList[m])
              /\ ~IsLastPage(MrList, page)
<1> DEFINE low == (page - 1) * PageSize
           high == page * PageSize
           place == Cardinality(MrList[m])
<1>1. m \in Updated /\ DOMAIN MrList = Updated
  BY DEF Waiting, MrList
<1>2. place \in Nat /\ Cardinality(Updated) \in Nat /\ place < Cardinality(Updated)
  BY <1>1, PlaceOnList
<1>3. low \in Int /\ high \in Int /\ low <= place
  <2>1. page = 1 => low = 0
    BY PagingAssumption
  <2>2. page \in Nat /\ PageSize \in Nat /\ (page > 1 \/ page = 1)
    BY PagingAssumption DEF TypeOK, Waiting
  <2>3. page > 1 => low <= place
    BY DEF Waiting
  <2> QED BY <1>2, <2>1, <2>2, <2>3
<1>4. place \in low..(high - 1) => m \in Page(MrList, page)
  BY <1>1 DEF Page
<1>5. ~(Cardinality(Updated) <= high) => ~IsLastPage(MrList, page)
  BY <1>1 DEF IsLastPage
<1> HIDE DEF low, high, place
<1>6. place < high => place \in low..(high - 1)
  BY <1>2, <1>3
<1>7. high <= place => ~(Cardinality(Updated) <= high)
  BY <1>2, <1>3
<1>8. place < high \/ high <= place
  BY <1>2, <1>3
<1> QED BY <1>4, <1>5, <1>6, <1>7, <1>8 DEF high, place

\* A merge request with a copy among those upserted has the time of such a
\* copy, the others keep theirs.
LEMMA UpsertOutcome ==
    ASSUME TypeOK, NEW copies \in SUBSET fetched, Upsert(copies)
    PROVE  /\ cached' \in [Mrs -> Nat \cup {None}]
           /\ \A m \in Mrs : \/ /\ ~\E f \in copies : f.iid = m
                                /\ cached'[m] = cached[m]
                             \/ \E f \in copies : f.iid = m /\ cached'[m] = f.updatedAt
<1>1. ASSUME NEW m \in Mrs
      PROVE  /\ cached'[m] \in Nat \cup {None}
             /\ \/ (~\E f \in copies : f.iid = m) /\ cached'[m] = cached[m]
                \/ \E f \in copies : f.iid = m /\ cached'[m] = f.updatedAt
  <2>1. cached'[m] = IF \E f \in copies : f.iid = m
                     THEN (CHOOSE f \in copies : f.iid = m).updatedAt
                     ELSE cached[m]
    BY DEF Upsert
  <2>2. CASE \E f \in copies : f.iid = m
    <3>1. PICK f \in copies : f = (CHOOSE g \in copies : g.iid = m) /\ f.iid = m
      BY <2>2
    <3> QED BY <2>1, <2>2, <3>1 DEF TypeOK, Copy
  <2>3. CASE ~\E f \in copies : f.iid = m
    BY <2>1, <2>3 DEF TypeOK
  <2> QED BY <2>2, <2>3
<1>2. cached' = [m \in Mrs |-> cached'[m]]
  BY DEF Upsert
<1> QED BY <1>1, <1>2

\* A page brings each merge request on it as it is.
LEMMA PageBrings ==
    ASSUME TypeOK, FetchPage
    PROVE  /\ fetched' \subseteq Copy
           /\ \A f \in fetched' : Known(f.iid) /\ f.updatedAt = live[f.iid]
           /\ \A m \in Page(MrList, page) : \E f \in fetched' : f.iid = m
<1>1. fetched' = {[iid |-> m, updatedAt |-> live[m]] : m \in Page(MrList, page)}
  BY DEF FetchPage
<1>2. \A m \in Page(MrList, page) : m \in Mrs /\ Known(m) /\ live[m] \in Nat
  BY DEF Page, MrList, Updated, Known, TypeOK
<1>3. \A m \in Page(MrList, page) : [iid |-> m, updatedAt |-> live[m]] \in Copy
  BY <1>2 DEF Copy
<1>4. ASSUME NEW f \in fetched'
      PROVE  f \in Copy /\ Known(f.iid) /\ f.updatedAt = live[f.iid]
  <2>1. PICK m \in Page(MrList, page) : f = [iid |-> m, updatedAt |-> live[m]]
    BY <1>1
  <2>2. f.iid = m /\ f.updatedAt = live[m]
    BY <2>1
  <2> QED BY <1>2, <1>3, <2>1, <2>2
<1>5. ASSUME NEW m \in Page(MrList, page)
      PROVE  \E f \in fetched' : f.iid = m
  <2>1. [iid |-> m, updatedAt |-> live[m]] \in fetched'
    BY <1>1
  <2> QED BY <2>1
<1> QED BY <1>4, <1>5

-----------------------------------------------------------------------------
(* Types and times                                                         *)

LEMMA TypeStep == TypeOK /\ [Next]_vars => TypeOK'
<1> SUFFICES ASSUME TypeOK, [Next]_vars PROVE TypeOK'
  OBVIOUS
<1>1. CASE Tick
  BY <1>1 DEF Tick, TypeOK, mirror, locals
<1>2. ASSUME NEW m \in Mrs, Update(m) PROVE TypeOK'
  BY <1>2 DEF Update, TypeOK, mirror, locals
<1>3. CASE Begin
  BY <1>3 DEF Begin, Since, TypeOK, mirror
<1>4. CASE FetchPage
  <2>1. fetched' \subseteq Copy
    BY <1>4, PageBrings
  <2> QED BY <1>4, <2>1 DEF FetchPage, TypeOK, mirror
<1>5. CASE UpsertPage
  <2>1. cached' \in [Mrs -> Nat \cup {None}]
    BY <1>5, UpsertOutcome DEF UpsertPage
  <2> QED BY <1>5, <2>1 DEF UpsertPage, TypeOK
<1>6. CASE CompleteRun
  BY <1>6 DEF CompleteRun, NewCursor, End, TypeOK
<1>7. CASE Stop
  <2>1. PICK done \in SUBSET fetched : Upsert(done)
    BY <1>7 DEF Stop
  <2>2. cached' \in [Mrs -> Nat \cup {None}]
    BY <2>1, UpsertOutcome
  <2> QED BY <1>7, <2>2 DEF Stop, End, TypeOK
<1>8. CASE UNCHANGED vars
  BY <1>8 DEF vars, mirror, locals, TypeOK
<1> QED BY <1>1, <1>2, <1>3, <1>4, <1>5, <1>6, <1>7, <1>8 DEF Next, Step

LEMMA TypeInit == Init => TypeOK
  BY MrAssumption DEF Init, TypeOK

\* Every variable of the run, the cache and the cursor keeps its type.
THEOREM TypesHold == Spec => []TypeOK
  BY TypeInit, TypeStep, PTL DEF Spec

LEMMA TimesStep == TypeOK /\ TimesInv /\ [Next]_vars => TimesInv'
<1> SUFFICES ASSUME TypeOK, TimesInv, [Next]_vars PROVE TimesInv'
  OBVIOUS
<1>0. /\ clock \in Nat /\ runEnd \in Nat /\ live \in [Mrs -> Nat \cup {None}]
      /\ cursor \in Nat \cup {None} /\ None \notin Nat
  BY MrAssumption DEF TypeOK
<1>1. CASE Tick
  <2>1. clock' = clock + 1 /\ UNCHANGED <<live, cursor, pc, page, since, runEnd>>
    BY <1>1 DEF Tick, mirror, locals
  <2> QED BY <1>0, <2>1 DEF TimesInv, Known, Since
<1>2. ASSUME NEW m \in Mrs, Update(m) PROVE TimesInv'
  <2>1. /\ UNCHANGED <<clock, cursor, pc, page, since, runEnd>>
        /\ \A n \in Mrs : live'[n] = clock \/ live'[n] = live[n]
    BY <1>0, <1>2 DEF Update, mirror, locals
  <2> QED BY <1>0, <2>1 DEF TimesInv, Known, Since
<1>3. CASE Begin
  BY <1>0, <1>3 DEF Begin, TimesInv, Known, Since, mirror
<1>4. CASE FetchPage \/ UpsertPage
  BY <1>4 DEF FetchPage, UpsertPage, TimesInv, Known, Since, mirror
<1>5. CASE CompleteRun
  BY <1>0, <1>5 DEF CompleteRun, NewCursor, End, TimesInv, Known, Since
<1>6. CASE Stop
  BY <1>0, <1>6 DEF Stop, End, TimesInv, Known, Since
<1>7. CASE UNCHANGED vars
  BY <1>7 DEF vars, mirror, locals, TimesInv, Known, Since
<1> QED BY <1>1, <1>2, <1>3, <1>4, <1>5, <1>6, <1>7 DEF Next, Step


-----------------------------------------------------------------------------
(* The cursor                                                              *)

\* A cache written from copies of the page keeps what is older than the cursor.
LEMMA UpsertKeepsCovered ==
    ASSUME TypeOK, TimesInv, CopiesInv, CursorCovers, pc # "idle",
           NEW copies \in SUBSET fetched, Upsert(copies), UNCHANGED <<live, cursor, slipped>>
    PROVE  CursorCovers'
<1> SUFFICES ASSUME NEW m \in Mrs, Known(m), cursor # None, live[m] < cursor
             PROVE  cached'[m] = live[m] \/ m \in slipped
  BY DEF CursorCovers, Known
<1>1. cached[m] = live[m] \/ m \in slipped
  BY DEF CursorCovers, Known
<1>2. ASSUME NEW f \in copies, f.iid = m PROVE f.updatedAt = live[m]
  <2>1. live[m] \in Nat /\ cursor \in Nat /\ runEnd \in Nat /\ cursor <= runEnd
    BY DEF TypeOK, TimesInv, Known
  <2>2. f.updatedAt = live[m] \/ live[m] >= runEnd
    BY <1>2 DEF CopiesInv
  <2> QED BY <2>1, <2>2
<1> QED BY <1>1, <1>2, UpsertOutcome

LEMMA CursorStep == CursorInv /\ [Next]_vars => CursorInv'
<1> SUFFICES ASSUME CursorInv, [Next]_vars PROVE CursorInv'
  OBVIOUS
<1>0. /\ clock \in Nat /\ runEnd \in Nat /\ since \in Nat /\ page \in Nat /\ None \notin Nat
      /\ live \in [Mrs -> Nat \cup {None}] /\ cursor \in Nat \cup {None} /\ fetched \subseteq Copy
      /\ TypeOK /\ TimesInv /\ CopiesInv /\ CursorCovers /\ RunInv
  BY MrAssumption DEF CursorInv, TypeOK
<1>t. TypeOK' /\ TimesInv'
  BY <1>0, TypeStep, TimesStep
<1>u. CopiesInv' /\ CursorCovers' /\ RunInv' => CursorInv'
  BY <1>t DEF CursorInv
<1>1. CASE Tick \/ UNCHANGED vars
  <2>1. UNCHANGED <<live, cached, cursor, pc, since, runEnd, page, fetched, slipped>>
    BY <1>1 DEF Tick, vars, mirror, locals
  <2>2. CopiesInv' /\ CursorCovers'
    BY <1>0, <2>1 DEF CopiesInv, CursorCovers, Known
  <2>3. RunInv'
    BY <1>0, <2>1 DEF RunInv, Coming, Waiting, Known, Updated, MrList, Older
  <2> QED BY <1>u, <2>2, <2>3
<1>2. ASSUME NEW m \in Mrs, Update(m) PROVE CursorInv'
  <2>1. /\ UNCHANGED <<clock, cached, cursor, pc, since, runEnd, page, fetched>>
        /\ live'[m] = clock /\ \A n \in Mrs \ {m} : live'[n] = live[n]
    BY <1>0, <1>2 DEF Update, mirror, locals
  <2>2. ASSUME NEW n \in Mrs \ {m}
        PROVE  (n \in slipped => n \in slipped') /\ (Waiting(n) => Waiting(n)' \/ n \in slipped')
    BY <1>2 DEF Update
  <2>3. runEnd <= clock /\ (cursor # None => cursor <= clock)
    BY <1>0 DEF TimesInv
  <2>4. CopiesInv'
    <3>1. ASSUME NEW f \in fetched
          PROVE  Known(f.iid)' /\ (f.updatedAt = live'[f.iid] \/ live'[f.iid] >= runEnd)
      <4>1. f.iid \in Mrs /\ Known(f.iid) /\ (f.updatedAt = live[f.iid] \/ live[f.iid] >= runEnd)
        BY <1>0 DEF CopiesInv, Copy
      <4>2. CASE f.iid = m
        BY <1>0, <2>1, <2>3, <4>2 DEF Known
      <4>3. CASE f.iid # m
        BY <2>1, <4>1, <4>3 DEF Known
      <4> QED BY <4>2, <4>3
    <3> QED BY <1>0, <2>1, <3>1 DEF CopiesInv
  <2>5. CursorCovers'
    <3>1. ASSUME NEW n \in Mrs, live'[n] # None, cursor # None, live'[n] < cursor
          PROVE  cached[n] = live'[n] \/ n \in slipped'
      <4>1. n # m
        BY <1>0, <2>1, <2>3, <3>1
      <4>2. cached[n] = live[n] \/ n \in slipped
        BY <1>0, <2>1, <3>1, <4>1 DEF CursorCovers
      <4> QED BY <2>1, <2>2, <4>1, <4>2
    <3> QED BY <2>1, <3>1 DEF CursorCovers
  <2>6. RunInv'
    <3>1. ASSUME pc # "idle", NEW n \in Mrs, Known(n)', live'[n] < runEnd
          PROVE  cached[n] = live'[n] \/ Coming(n)' \/ n \in slipped'
      <4>1. n # m
        BY <1>0, <2>1, <2>3, <3>1
      <4>2. live'[n] = live[n] /\ (cached[n] = live[n] \/ Coming(n) \/ n \in slipped)
        BY <1>0, <2>1, <3>1, <4>1 DEF RunInv, Known
      <4>3. Coming(n) => Coming(n)' \/ n \in slipped'
        BY <2>1, <2>2, <4>1 DEF Coming
      <4> QED BY <2>2, <4>1, <4>2, <4>3
    <3> QED BY <2>1, <3>1 DEF RunInv
  <2> QED BY <1>u, <2>4, <2>5, <2>6
<1>3. CASE Begin
  <2>1. /\ UNCHANGED <<live, cached, cursor, page, fetched>> /\ pc = "idle" /\ page = 1
        /\ since' = Since /\ runEnd' = clock /\ pc' = "fetch"
        /\ slipped' = {m \in slipped : live[m] < Since}
    BY <1>0, <1>3 DEF Begin, mirror, TimesInv
  <2>2. CopiesInv' /\ CursorCovers'
    BY <1>0, <2>1 DEF CopiesInv, CursorCovers, Known, Since
  <2>3. RunInv'
    <3>1. ASSUME NEW m \in Mrs, Known(m), cached[m] # live[m]
          PROVE  Coming(m)' \/ m \in slipped'
      <4>1. live[m] \in Nat /\ (cursor # None /\ live[m] < cursor => m \in slipped)
        BY <1>0, <3>1 DEF CursorCovers, Known
      <4>2. live[m] >= Since \/ m \in slipped'
        BY <1>0, <2>1, <4>1 DEF Since
      <4>3. live[m] >= Since => Waiting(m)'
        BY <2>1, <3>1 DEF Waiting, Updated, Known
      <4> QED BY <2>1, <4>2, <4>3 DEF Coming
    <3> QED BY <2>1, <3>1 DEF RunInv, Known
  <2> QED BY <1>u, <2>2, <2>3
<1>4. CASE FetchPage
  <2>1. /\ UNCHANGED <<live, cached, cursor, since, runEnd, slipped>> /\ pc = "fetch" /\ pc' = "upsert"
        /\ page' = IF IsLastPage(MrList, page) THEN 0 ELSE page + 1
        /\ page # 0
    BY <1>0, <1>4 DEF FetchPage, mirror, TimesInv
  <2>2. CopiesInv'
    BY <1>0, <1>4, <2>1, PageBrings DEF CopiesInv, Known
  <2>3. CursorCovers'
    BY <1>0, <2>1 DEF CursorCovers
  <2>4. RunInv'
    <3>1. ASSUME NEW m \in Mrs, Coming(m) PROVE Coming(m)'
      <4>1. Waiting(m) /\ m \in Updated
        BY <2>1, <3>1 DEF Coming, Waiting
      <4>2. CASE m \in Page(MrList, page)
        <5>1. \E f \in fetched' : f.iid = m
          BY <1>0, <1>4, <4>2, PageBrings
        <5> QED BY <2>1, <5>1 DEF Coming
      <4>3. CASE page * PageSize <= Cardinality(MrList[m]) /\ ~IsLastPage(MrList, page)
        <5>1. page' = page + 1 /\ page' # 0 /\ page' - 1 = page
          BY <1>0, <2>1, <4>3
        <5>2. MrList' = MrList /\ Updated' = Updated
          BY <2>1 DEF MrList, Updated, Older
        <5>3. Waiting(m)'
          BY <4>1, <4>3, <5>1, <5>2 DEF Waiting
        <5> QED BY <2>1, <5>3 DEF Coming
      <4> QED BY <1>0, <2>1, <4>1, <4>2, <4>3, PageOrPast
    <3> QED BY <1>0, <2>1, <3>1 DEF RunInv, Known
  <2> QED BY <1>u, <2>2, <2>3, <2>4
<1>5. CASE UpsertPage
  <2>1. /\ UNCHANGED <<live, cursor, since, runEnd, page, slipped>> /\ pc = "upsert" /\ Upsert(fetched)
        /\ pc' = IF page = 0 THEN "complete" ELSE "fetch"
        /\ fetched' = {}
    BY <1>5 DEF UpsertPage
  <2>2. CopiesInv'
    BY <2>1 DEF CopiesInv
  <2>3. CursorCovers'
    BY <1>0, <2>1, UpsertKeepsCovered
  <2>4. RunInv'
    <3>1. ASSUME NEW m \in Mrs, Known(m), live[m] < runEnd
          PROVE  cached'[m] = live[m] \/ Coming(m)' \/ m \in slipped
      <4>1. CASE \E f \in fetched : f.iid = m /\ cached'[m] = f.updatedAt
        <5>1. PICK f \in fetched : f.iid = m /\ cached'[m] = f.updatedAt
          BY <4>1
        <5>2. f.updatedAt = live[m] \/ live[m] >= runEnd
          BY <1>0, <5>1 DEF CopiesInv
        <5> QED BY <1>0, <3>1, <5>1, <5>2 DEF Known
      <4>2. CASE (~\E f \in fetched : f.iid = m) /\ cached'[m] = cached[m]
        <5>1. cached[m] = live[m] \/ Waiting(m) \/ m \in slipped
          BY <1>0, <2>1, <3>1, <4>2 DEF RunInv, Coming
        <5>2. Waiting(m) => Waiting(m)' /\ page # 0
          BY <2>1 DEF Waiting, Updated, MrList, Older
        <5> QED BY <2>1, <4>2, <5>1, <5>2 DEF Coming
      <4> QED BY <1>0, <2>1, <4>1, <4>2, UpsertOutcome
    <3> QED BY <2>1, <3>1 DEF RunInv, Known
  <2> QED BY <1>u, <2>2, <2>3, <2>4
<1>6. CASE CompleteRun
  <2>1. /\ UNCHANGED <<live, cached, slipped>> /\ pc = "complete" /\ cursor' = runEnd
        /\ pc' = "idle" /\ fetched' = {}
    BY <1>6 DEF CompleteRun, NewCursor, End
  <2>2. CopiesInv' /\ RunInv'
    BY <2>1 DEF CopiesInv, RunInv
  <2>3. CursorCovers'
    BY <1>0, <2>1 DEF CursorCovers, RunInv, Coming, Known
  <2> QED BY <1>u, <2>2, <2>3
<1>7. CASE Stop
  <2>1. /\ UNCHANGED <<live, cursor, slipped>> /\ pc # "idle" /\ pc' = "idle" /\ fetched' = {}
        /\ \E done \in SUBSET fetched : Upsert(done)
    BY <1>7 DEF Stop, End
  <2>2. CopiesInv' /\ RunInv'
    BY <2>1 DEF CopiesInv, RunInv
  <2>3. CursorCovers'
    BY <1>0, <2>1, UpsertKeepsCovered
  <2> QED BY <1>u, <2>2, <2>3
<1> QED BY <1>1, <1>2, <1>3, <1>4, <1>5, <1>6, <1>7 DEF Next, Step

LEMMA CursorInit == Init => CursorInv
<1> SUFFICES ASSUME Init PROVE CursorInv
  OBVIOUS
<1>1. TimesInv /\ CopiesInv /\ CursorCovers /\ RunInv
  BY DEF Init, TimesInv, CopiesInv, CursorCovers, RunInv, Known
<1> QED BY <1>1, TypeInit DEF CursorInv

\* A cursor stands for a full window however many pages the runs read, whatever
\* is updated between them and wherever the runs end: the cache has each merge
\* request last updated before the cursor as it is, but for those that an update
\* of another moved to a page already read.
THEOREM CursorCoversWindows == Spec => []CursorCovers
<1>1. CursorInv => CursorCovers
  BY DEF CursorInv
<1> QED BY <1>1, CursorInit, CursorStep, PTL DEF Spec

-----------------------------------------------------------------------------
(* One page                                                                *)

\* A list that fits on a page has no second one, and nothing slips to the first.
OnePage == page \in {0, 1} /\ slipped = {}

LEMMA OnePageStep ==
    ASSUME Cardinality(Mrs) <= PageSize
    PROVE  TypeOK /\ TimesInv /\ OnePage /\ [Next]_vars => OnePage'
<1> SUFFICES ASSUME TypeOK, TimesInv, OnePage, [Next]_vars PROVE OnePage'
  OBVIOUS
<1>1. CASE FetchPage
  <2>1. page = 1
    BY <1>1 DEF FetchPage, OnePage, TimesInv
  <2>2. DOMAIN MrList = Updated /\ Updated \subseteq Mrs
    BY DEF MrList, Updated
  <2>3. /\ Cardinality(Updated) <= Cardinality(Mrs)
        /\ Cardinality(Updated) \in Nat /\ Cardinality(Mrs) \in Nat
    BY <2>2, MrAssumption, FS_Subset, FS_CardinalityType
  <2>4. page * PageSize = PageSize /\ PageSize \in Nat
    BY <2>1, PagingAssumption
  <2>5. IsLastPage(MrList, page)
    BY <2>2, <2>3, <2>4 DEF IsLastPage
  <2> QED BY <1>1, <2>5 DEF FetchPage, OnePage
<1>2. ASSUME NEW m \in Mrs, Update(m) PROVE OnePage'
  <2>1. page' = page /\ since' = since /\ page \in {0, 1}
    BY <1>2 DEF Update, locals, OnePage
  <2>2. \A n \in Mrs \ {m} : live'[n] = live[n]
    BY <1>2 DEF Update, TypeOK
  <2>3. \A n \in Mrs \ {m} : Waiting(n) => Waiting(n)'
    BY <2>1, <2>2 DEF Waiting, Updated
  <2> QED BY <1>2, <2>1, <2>3 DEF Update, OnePage
<1>3. CASE CompleteRun \/ Stop
  BY <1>3 DEF CompleteRun, Stop, End, OnePage
<1> QED
  BY <1>1, <1>2, <1>3 DEF OnePage, Next, Step, Tick, Begin, UpsertPage, vars, locals

\* Where every list fits on one page nothing is skipped, whenever merge requests
\* are updated, also while the page is on its way.
THEOREM NothingSkippedOnOnePage ==
    ASSUME Cardinality(Mrs) <= PageSize
    PROVE  Spec => []NothingSkipped
<1>1. Init => TypeOK /\ TimesInv /\ OnePage
  BY CursorInit DEF CursorInv, Init, OnePage
<1>2. TypeOK /\ TimesInv /\ OnePage /\ [Next]_vars => TypeOK' /\ TimesInv' /\ OnePage'
  BY TypeStep, TimesStep, OnePageStep
<1>3. CursorCovers /\ OnePage => NothingSkipped
  BY DEF CursorCovers, OnePage, NothingSkipped
<1> QED BY <1>1, <1>2, <1>3, CursorCoversWindows, PTL DEF Spec
-----------------------------------------------------------------------------
(* The whole run                                                           *)

\* A step of the project is one of each half, or leaves it alone.
LEMMA ProjectSteps == [ProjectNext]_projectVars => [Next]_vars /\ [Commit!Next]_(Commit!vars)
<1> SUFFICES ASSUME [ProjectNext]_projectVars
             PROVE  [Next]_vars /\ [Commit!Next]_(Commit!vars)
  OBVIOUS
<1>1. CASE ProjectTick
  <2>1. Commit!Tick /\ UNCHANGED mrVars
    BY <1>1 DEF ProjectTick
  <2>2. Tick
    BY <2>1 DEF Commit!Tick, Tick, mrVars
  <2> QED BY <2>1, <2>2 DEF Commit!Next, Next
<1>2. CASE People
  <2>1. CASE Commit!People /\ UNCHANGED <<mrVars, half>>
    <3>1. UNCHANGED clock
      BY <2>1 DEF Commit!People, Commit!DeleteBranch, Commit!MergeCommit,
                  Commit!RewriteBranch, Commit!PushCommit
    <3> QED BY <2>1, <3>1 DEF mrVars, vars, Commit!Next
  <2>2. ASSUME NEW m \in Mrs, Update(m), UNCHANGED <<commitVars, half>>
        PROVE  Next /\ UNCHANGED Commit!vars
    BY <2>2 DEF Next, Update, commitVars, Commit!vars, Commit!gitlab, Commit!store, Commit!locals
  <2> QED BY <1>2, <2>1, <2>2 DEF People
<1>3. ASSUME NEW x \in Executors, CommitStep(x) PROVE Commit!Next /\ UNCHANGED vars
  <2>1. Commit!Step(x) /\ UNCHANGED mrVars
    BY <1>3 DEF CommitStep
  <2>2. UNCHANGED clock
    BY <2>1 DEF Commit!Step, Commit!Start, Commit!ListBranches, Commit!ReadState,
                Commit!ExtendPlan, Commit!BeginWindow, Commit!DrainPage,
                Commit!AdvanceBranch, Commit!AskBudget, Commit!CompleteWindow
  <2> QED BY <2>1, <2>2 DEF mrVars, vars, Commit!Next
<1>4. CASE MrStep
  <2>1. Step /\ UNCHANGED commitVars
    BY <1>4 DEF MrStep
  <2>2. UNCHANGED clock
    BY <2>1 DEF Step, Begin, FetchPage, UpsertPage, CompleteRun
  <2> QED
    BY <2>1, <2>2 DEF Next, commitVars, Commit!vars, Commit!gitlab, Commit!store, Commit!locals
<1>5. CASE RunStops
  <2>1. ASSUME NEW x \in Executors, Commit!Stop(x), UNCHANGED <<mrVars, half>>
        PROVE  Commit!Next /\ UNCHANGED vars
    BY <2>1 DEF Commit!Next, Commit!Stop, mrVars, vars
  <2>2. ASSUME Stop \/ UNCHANGED <<clock, mrVars>>, UNCHANGED commitVars
        PROVE  [Next]_vars /\ UNCHANGED Commit!vars
    BY <2>2 DEF Next, Stop, mrVars, vars, commitVars, Commit!vars, Commit!gitlab,
                Commit!store, Commit!locals
  <2> QED BY <1>5, <2>1, <2>2 DEF RunStops
<1>6. CASE UNCHANGED projectVars
  BY <1>6 DEF projectVars, commitVars, mrVars, vars, Commit!vars, Commit!gitlab,
              Commit!store, Commit!locals
<1> QED BY <1>1, <1>2, <1>3, <1>4, <1>5, <1>6 DEF ProjectNext, RunStep

\* A run of the project keeps to the specification of either half: neither
\* disturbs the other, in whatever order pauses, failures and the next runs bring
\* their steps.
THEOREM ProjectKeepsHalves == ProjectSpec => Spec /\ Commit!Spec
<1>1. ProjectInit => Init /\ Commit!Init
  BY DEF ProjectInit
<1> QED BY <1>1, ProjectSteps, PTL DEF ProjectSpec, Spec, Commit!Spec

\* So the cursor stands for its window where merge requests wait for commits.
THEOREM ProjectCursorCovers == ProjectSpec => []CursorCovers
  BY ProjectKeepsHalves, CursorCoversWindows, PTL
=============================================================================

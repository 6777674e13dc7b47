-------------------------- MODULE DashboardProofs --------------------------
(***************************************************************************)
(* Proofs about ProjectAccess and the page as Dashboard runs them, for any *)
(* number of projects, requests and commits.                               *)
(*                                                                         *)
(* An enable outlives its allowlist row only where an enable and a removal *)
(* of the same project overlapped.  RaceInv says it of the requests too:   *)
(* what an enable in progress asks for was on the allowlist when it began, *)
(* so that it still is, or has been removed since.                         *)
(*                                                                         *)
(* A verdict that is acted on is recent.  VerdictInv dates the rows of the *)
(* cache and the answers of the requests, those from the cache and those   *)
(* of GitLab, by the last moment at which they were true.                  *)
(*                                                                         *)
(* Every row has its type, the metrics of a page among them: WeekStart and *)
(* MetricsAreCounts say so of what they are computed from.                 *)
(*                                                                         *)
(* There are never more snapshots of a metric, scope and week than pages   *)
(* loaded at once.  CopiesInv counts beside the snapshots the pages that   *)
(* found none and are about to create one.                                 *)
(*                                                                         *)
(* The week opened holds the moment and ends where the next begins; its    *)
(* metrics are those of the week after it, in which the page read nothing. *)
(***************************************************************************)
EXTENDS Dashboard, FiniteSetTheorems, TLAPS

TasksOK ==
    /\ now \in Nat
    /\ allowlist \subseteq Projects /\ enabled \subseteq Projects
    /\ task \in [Tasks -> Task]

\* The labels of a listing and an enable, which ask for verdicts.
Asking == {"lookup", "token", "probe", "write"}

KindsFit ==
    \A t \in Tasks : /\ task[t].at \in Asking => task[t].kind \in {"list", "enable"}
                     /\ task[t].at = "connection" => task[t].kind = "enable"
                     /\ task[t].at \in {"begin", "enables"} => task[t].kind = "list"
                     /\ task[t].at = "upsert" => task[t].kind = "enable"

EnablesKnown ==
    \A t \in Tasks : task[t].kind = "enable" => task[t].listed \ allowlist \subseteq raced

RaceInv == TasksOK /\ KindsFit /\ EnablesKnown /\ StrandedOnlyByRace

-----------------------------------------------------------------------------
LEMMA IdleTask == Idle \in Task /\ Idle.kind = "none" /\ Idle.at = "end"
  BY AccessAssumption DEF Idle, Task, NoAnswers, Answers

\* A step of a request that goes on with what it was asked for, or ends.
LEMMA GoesOn ==
    ASSUME RaceInv, NEW t \in Tasks, NEW r \in Task, Become(t, r),
           r.kind = task[t].kind,
           r.kind = "enable" => r.listed \subseteq task[t].listed,
           r.at \in Asking => r.kind \in {"list", "enable"},
           r.at \notin {"connection", "begin"},
           r.at = "enables" => r.kind = "list",
           r.at = "upsert" => r.kind = "enable",
           UNCHANGED <<now, allowlist, enabled, raced>>
    PROVE  RaceInv'
<1>1. task' = [task EXCEPT ![t] = IF r.at = "end" THEN Idle ELSE r]
  BY DEF Become
<1>2. task' \in [Tasks -> Task]
  BY <1>1, IdleTask DEF RaceInv, TasksOK
<1>3. \A u \in Tasks : u # t => task'[u] = task[u]
  BY <1>1 DEF RaceInv, TasksOK
<1>4. task'[t] = IF r.at = "end" THEN Idle ELSE r
  BY <1>1 DEF RaceInv, TasksOK
<1>5. TasksOK'
  BY <1>2 DEF RaceInv, TasksOK
<1>6. KindsFit'
  BY <1>3, <1>4, IdleTask DEF RaceInv, KindsFit, Asking
<1>7. EnablesKnown'
  BY <1>3, <1>4, IdleTask DEF RaceInv, EnablesKnown
<1> QED
  BY <1>5, <1>6, <1>7 DEF RaceInv, StrandedOnlyByRace

\* A request begins, and asks for nothing that would have to be explained.
LEMMA Begins ==
    ASSUME RaceInv, NEW t \in Tasks, NEW kind, NEW label, NEW ps \in SUBSET Projects,
           Begin(t, kind, label, ps),
           <<kind, label>> \in {<<"list", "begin">>, <<"enable", "connection">>,
                               <<"disable", "forget">>, <<"remove", "remove">>},
           kind = "enable" => ps \subseteq allowlist,
           enabled' \subseteq enabled,
           UNCHANGED <<now, allowlist, raced>>
    PROVE  RaceInv'
<1> DEFINE r == [Idle EXCEPT !.kind = kind, !.at = label, !.since = now, !.listed = ps]
<1>1. task' = [task EXCEPT ![t] = r]
  BY DEF Begin
<1>2. r \in Task /\ r.kind = kind /\ r.at = label /\ r.listed = ps
  BY IdleTask DEF RaceInv, TasksOK, Task
<1> HIDE DEF r
<1>3. task' \in [Tasks -> Task]
  BY <1>1, <1>2 DEF RaceInv, TasksOK
<1>4. \A u \in Tasks : task'[u] = IF u = t THEN r ELSE task[u]
  BY <1>1 DEF RaceInv, TasksOK
<1>5. KindsFit'
  BY <1>2, <1>4 DEF RaceInv, KindsFit, Asking
<1>6. EnablesKnown'
  BY <1>2, <1>4 DEF RaceInv, EnablesKnown
<1> QED
  BY <1>3, <1>5, <1>6 DEF RaceInv, TasksOK, StrandedOnlyByRace

-----------------------------------------------------------------------------
(* The steps of a request                                                  *)

LEMMA ResolveStep ==
    ASSUME RaceInv, NEW t \in Tasks, Resolve(t), UNCHANGED <<now, gitlab>>
    PROVE  RaceInv'
<1>0. task[t] \in Task /\ Resolved(t, task[t].answer) \in {"shown", "upsert", "end"}
  BY DEF RaceInv, TasksOK, Resolved
<1> USE DEF Asking
<1>1. CASE Lookup(t)
  <2> DEFINE fresh == {p \in task[t].listed : IsFresh(p)}
             answer == [p \in Projects |->
                          IF p \notin fresh THEN "none"
                          ELSE IF cache[p].allowed THEN "allowed" ELSE "denied"]
             asked == task[t].listed \ fresh
             r == [task[t] EXCEPT !.answer = answer, !.asked = asked,
                                  !.at = IF asked = {} THEN Resolved(t, answer) ELSE "token"]
  <2>1. Become(t, r) /\ At(t, {"lookup"}) /\ UNCHANGED <<tables, history>>
    BY <1>1 DEF Lookup
  <2>2. answer \in [Projects -> Answers] /\ asked \in SUBSET Projects
    BY <1>0 DEF Answers, Task
  <2>3. Resolved(t, answer) \in {"shown", "upsert", "end"}
        /\ (Resolved(t, answer) = "upsert" => task[t].kind # "list")
    BY DEF Resolved
  <2> HIDE DEF answer, asked
  <2>4. r \in Task /\ r.kind = task[t].kind /\ r.listed = task[t].listed
        /\ r.at \in {"shown", "upsert", "end", "token"}
        /\ (r.at = "upsert" => task[t].kind # "list")
    BY <1>0, <2>2, <2>3 DEF Task
  <2>5. task[t].kind \in {"list", "enable"}
    BY <2>1 DEF RaceInv, KindsFit, At
  <2> HIDE DEF r
  <2> QED  BY <2>1, <2>4, <2>5, GoesOn DEF tables, history
<1>2. CASE GetAccessToken(t)
  <2> DEFINE r == [task[t] EXCEPT !.at = IF credential THEN "probe" ELSE "end"]
  <2>1. Become(t, r) /\ At(t, {"token"}) /\ UNCHANGED <<tables, history>>
    BY <1>2 DEF GetAccessToken, Goto, Fail
  <2>2. r \in Task /\ r.kind = task[t].kind /\ r.listed = task[t].listed
        /\ r.at \in {"probe", "end"}
    BY <1>0 DEF Task
  <2>3. task[t].kind \in {"list", "enable"}
    BY <2>1 DEF RaceInv, KindsFit, At
  <2> HIDE DEF r
  <2> QED  BY <1>2, <2>1, <2>2, <2>3, GoesOn DEF tables, history
<1>3. ASSUME NEW p \in Projects, NEW verdict \in Answers, At(t, {"probe"}),
             Answered(t, p, verdict), UNCHANGED <<tables, history>>
      PROVE  RaceInv'
  <2> DEFINE r == [task[t] EXCEPT !.answer[p] = verdict,
                                  !.at = IF Unanswered(t) = {p} THEN "write" ELSE @]
  <2>1. task' = [task EXCEPT ![t] = r]
    BY <1>3 DEF Answered
  <2>2. r \in Task /\ r.kind = task[t].kind /\ r.listed = task[t].listed
        /\ r.at \in {"probe", "write"}
    BY <1>0, <1>3 DEF Task, At
  <2>3. task[t].kind \in {"list", "enable"}
    BY <1>3 DEF RaceInv, KindsFit, At
  <2> HIDE DEF r
  <2>4. Become(t, r)
    BY <2>1, <2>2 DEF Become
  <2> QED  BY <1>3, <2>2, <2>3, <2>4, GoesOn DEF tables, history
<1>4. CASE \E p \in Projects : Probe(t, p) \/ ProbeFails(t, p)
  BY <1>3, <1>4 DEF Probe, ProbeFails, Answers
<1>5. CASE Write(t)
  <2>1. PICK label \in {"shown", "upsert", "end", "write"}, asked \in SUBSET task[t].asked :
          /\ Become(t, [task[t] EXCEPT !.asked = asked, !.at = label])
          /\ label = "upsert" => task[t].kind # "list"
    <3> DEFINE known == {p \in task[t].asked : task[t].answer[p] \in {"allowed", "denied"}}
               label == Resolved(t, task[t].answer)
    <3>1. label \in {"shown", "upsert", "end"} /\ (label = "upsert" => task[t].kind # "list")
      BY DEF Resolved
    <3>2. CASE Become(t, [task[t] EXCEPT !.asked = {}, !.at = label])
      <4>1. {} \in SUBSET task[t].asked
        OBVIOUS
      <4> HIDE DEF label
      <4> QED  BY <3>1, <3>2, <4>1, Zenon
    <3>3. ASSUME NEW next \in known,
                 Become(t, [task[t] EXCEPT !.asked = known \ {next},
                                           !.at = IF known = {next} THEN label ELSE @])
          PROVE  \E l \in {"shown", "upsert", "end", "write"}, asked \in SUBSET task[t].asked :
                   /\ Become(t, [task[t] EXCEPT !.asked = asked, !.at = l])
                   /\ l = "upsert" => task[t].kind # "list"
      <4>1. known \ {next} \in SUBSET task[t].asked /\ task[t].at = "write"
        BY <1>5 DEF Write, At
      <4> HIDE DEF label, known
      <4>2. CASE known = {next}
        BY <3>1, <3>3, <4>1, <4>2
      <4>3. CASE known # {next}
        BY <3>3, <4>1, <4>3
      <4> QED  BY <4>2, <4>3
    <3> QED  BY <1>5, <3>2, <3>3 DEF Write
  <2>2. At(t, {"write"}) /\ UNCHANGED <<allowlist, enabled, raced>>
    BY <1>5 DEF Write, tables, history
  <2>3. task[t].kind \in {"list", "enable"}
    BY <2>2 DEF RaceInv, KindsFit, At
  <2> DEFINE r == [task[t] EXCEPT !.asked = asked, !.at = label]
  <2>4. r \in Task /\ r.kind = task[t].kind /\ r.listed = task[t].listed /\ r.at = label
    BY <1>0 DEF Task
  <2>5. Become(t, r)
    BY <2>1
  <2> HIDE DEF r
  <2> QED  BY <2>1, <2>2, <2>3, <2>4, <2>5, GoesOn
<1>6. CASE ProbeRejected(t) \/ Revoke(t) \/ Mark(t) \/ Clear(t)
  <2>1. PICK label \in {"revoke", "mark", "clear", "end"} : Goto(t, label)
    BY <1>6 DEF ProbeRejected, Revoke, Mark, Clear, Fail
  <2>2. UNCHANGED <<allowlist, enabled, raced>>
    BY <1>6 DEF ProbeRejected, Revoke, Mark, Clear, tables, history
  <2> DEFINE r == [task[t] EXCEPT !.at = label]
  <2>3. r \in Task /\ r.kind = task[t].kind /\ r.listed = task[t].listed /\ r.at = label
    BY <1>0, <2>1 DEF Task
  <2> HIDE DEF r
  <2>4. Become(t, r)
    BY <2>1 DEF Goto, r
  <2> QED  BY <2>1, <2>2, <2>3, <2>4, GoesOn
<1> QED
  BY <1>1, <1>2, <1>4, <1>5, <1>6 DEF Resolve

LEMMA ListStep ==
    ASSUME RaceInv, NEW t \in Tasks, UNCHANGED now,
           BeginList(t) \/ ReadAllowlist(t) \/ ReadEnables(t)
    PROVE  RaceInv'
<1>0. task[t] \in Task /\ allowlist \in SUBSET Projects
  BY DEF RaceInv, TasksOK
<1>1. CASE BeginList(t)
  BY <1>1, Begins DEF BeginList, tables, history
<1>2. CASE ReadAllowlist(t)
  <2> DEFINE r == [task[t] EXCEPT !.listed = allowlist, !.at = "enables"]
  <2>1. task' = [task EXCEPT ![t] = r] /\ task[t].kind = "list"
    BY <1>2 DEF ReadAllowlist, At, RaceInv, KindsFit
  <2>2. r \in Task /\ r.kind = "list" /\ r.at = "enables"
    BY <1>0, <2>1 DEF Task
  <2> HIDE DEF r
  <2> QED  BY <1>2, <2>1, <2>2, GoesOn DEF Become, ReadAllowlist, tables, history, Asking
<1>3. CASE ReadEnables(t)
  <2> DEFINE r == [task[t] EXCEPT !.enables = enabled,
                                  !.at = IF task[t].listed = {} THEN "end" ELSE "lookup"]
  <2>1. Become(t, r) /\ task[t].kind = "list"
    BY <1>3 DEF ReadEnables, At, RaceInv, KindsFit
  <2>2. enabled \subseteq Projects
    BY DEF RaceInv, TasksOK
  <2>3. r \in Task /\ r.kind = "list" /\ r.at \in {"end", "lookup"}
    BY <1>0, <2>1, <2>2 DEF Task
  <2> HIDE DEF r
  <2> QED  BY <1>3, <2>1, <2>3, GoesOn DEF ReadEnables, tables, history
<1> QED
  BY <1>1, <1>2, <1>3

LEMMA EnableStep ==
    ASSUME RaceInv, NEW t \in Tasks, UNCHANGED now,
           \/ \E p \in Projects : BeginEnable(t, p) \/ BeginDisable(t, p)
           \/ FindConnection(t) \/ Upsert(t) \/ InvalidateUserProject(t)
    PROVE  RaceInv'
<1>0. task[t] \in Task
  BY DEF RaceInv, TasksOK
<1>1. ASSUME NEW p \in Projects, BeginEnable(t, p) PROVE RaceInv'
  BY <1>1, Begins DEF BeginEnable, tables, history
<1>2. CASE FindConnection(t)
  <2> DEFINE r == [task[t] EXCEPT !.at = IF active THEN "lookup" ELSE "end"]
  <2>1. Become(t, r) /\ task[t].kind = "enable"
    BY <1>2 DEF FindConnection, Goto, At, RaceInv, KindsFit
  <2>2. r \in Task /\ r.kind = "enable" /\ r.at \in {"end", "lookup"}
        /\ r.listed = task[t].listed
    BY <1>0, <2>1 DEF Task
  <2> HIDE DEF r
  <2> QED  BY <1>2, <2>1, <2>2, GoesOn DEF FindConnection, tables, history
<1>3. CASE Upsert(t)
  <2>1. /\ enabled' = enabled \cup task[t].listed
        /\ task' = [task EXCEPT ![t] = Idle]
        /\ UNCHANGED <<allowlist, raced>>
    BY <1>0, <1>3 DEF Upsert, Goto, Become, Task, history
  <2>2. task[t].listed \ allowlist \subseteq raced /\ task[t].listed \subseteq Projects
    BY <1>0, <1>3 DEF Upsert, At, RaceInv, KindsFit, EnablesKnown, Task
  <2>3. \A u \in Tasks : task'[u] = IF u = t THEN Idle ELSE task[u]
    BY <2>1 DEF RaceInv, TasksOK
  <2>4. TasksOK'
    BY <2>1, <2>2, IdleTask DEF RaceInv, TasksOK
  <2>5. KindsFit'
    BY <2>3, IdleTask DEF RaceInv, KindsFit, Asking
  <2>6. EnablesKnown'
    BY <2>1, <2>3, IdleTask DEF RaceInv, EnablesKnown
  <2> QED  BY <2>1, <2>2, <2>4, <2>5, <2>6 DEF RaceInv, StrandedOnlyByRace
<1>4. ASSUME NEW p \in Projects, BeginDisable(t, p) PROVE RaceInv'
  BY <1>4, Begins DEF BeginDisable, history
<1>5. CASE InvalidateUserProject(t)
  <2> DEFINE r == [task[t] EXCEPT !.at = "end"]
  <2>1. Become(t, r)
    BY <1>5 DEF InvalidateUserProject, Goto
  <2>2. r \in Task /\ r.kind = task[t].kind /\ r.at = "end" /\ r.listed = task[t].listed
    BY <1>0 DEF Task
  <2> HIDE DEF r
  <2> QED  BY <1>5, <2>1, <2>2, GoesOn DEF InvalidateUserProject, history, Asking
<1> QED
  BY <1>1, <1>2, <1>3, <1>4, <1>5

\* The removal names the enables it overlaps.
LEMMA RemoveStep ==
    ASSUME RaceInv, NEW t \in Tasks, Remove(t), UNCHANGED now
    PROVE  RaceInv'
<1>0. task[t] \in Task
  BY DEF RaceInv, TasksOK
<1>1. task' = [task EXCEPT ![t] = Idle]
  BY <1>0 DEF Remove, Goto, Become, Task
<1>2. \A u \in Tasks : task'[u] = IF u = t THEN Idle ELSE task[u]
  BY <1>1 DEF RaceInv, TasksOK
<1>3. KindsFit'
  BY <1>2, IdleTask DEF RaceInv, KindsFit, Asking
<1>4. CASE UNCHANGED <<allowlist, enabled, raced>>
  BY <1>1, <1>2, <1>3, <1>4, IdleTask DEF RaceInv, TasksOK, EnablesKnown, StrandedOnlyByRace
<1>5. CASE /\ allowlist' = allowlist \ task[t].listed
           /\ enabled' = enabled \ task[t].listed
           /\ raced' = raced \cup {p \in task[t].listed :
                          \E u \in Tasks : task[u].kind = "enable" /\ p \in task[u].listed}
  <2>1. TasksOK'
    BY <1>1, <1>5, IdleTask DEF RaceInv, TasksOK
  <2>2. EnablesKnown'
    BY <1>2, <1>5, IdleTask DEF RaceInv, EnablesKnown
  <2> QED  BY <1>3, <1>5, <2>1, <2>2 DEF RaceInv, StrandedOnlyByRace
<1> QED
  BY <1>4, <1>5 DEF Remove

LEMMA PageStepKeeps ==
    ASSUME RaceInv, NEW t \in Tasks, PageStep(t)
    PROVE  RaceInv'
<1>0. task[t] \in Task /\ UNCHANGED Held
  BY DEF RaceInv, TasksOK, PageStep, OpenWeek, Count, FindSnapshot, CreateSnapshot
<1>1. CASE OpenWeek(t)
  <2> DEFINE r == [task[t] EXCEPT !.listed = Shown(t), !.enables = {}, !.answer = Kept(t),
                                  !.at = IF Shown(t) = {} THEN "end" ELSE "count"]
  <2>1. Become(t, r)
    BY <1>1 DEF OpenWeek
  <2>2. Shown(t) \subseteq task[t].listed /\ Shown(t) \in SUBSET Projects
    BY <1>0 DEF Shown, Task
  <2>3. Kept(t) \in [Projects -> Answers]
    BY DEF Kept, Answers
  <2>4. r \in Task /\ r.kind = task[t].kind /\ r.listed = Shown(t)
        /\ r.at \in {"end", "count"}
    BY <1>0, <2>2, <2>3 DEF Task
  <2> HIDE DEF r
  <2> QED  BY <1>0, <2>1, <2>2, <2>4, GoesOn DEF Held, tables, history, Asking
<1>2. CASE Count(t) \/ FindSnapshot(t) \/ CreateSnapshot(t)
  <2>1. PICK label \in {"find", "create", "end"} : Goto(t, label)
    BY <1>2 DEF Count, FindSnapshot, CreateSnapshot, Proceed
  <2> DEFINE r == [task[t] EXCEPT !.at = label]
  <2>2. r \in Task /\ r.kind = task[t].kind /\ r.listed = task[t].listed /\ r.at = label
    BY <1>0, <2>1 DEF Task
  <2>3. Become(t, r)
    BY <2>1 DEF Goto
  <2> HIDE DEF r
  <2> QED  BY <1>0, <2>1, <2>2, <2>3, GoesOn DEF Held, tables, history, Asking
<1> QED
  BY <1>1, <1>2 DEF PageStep

-----------------------------------------------------------------------------
LEMMA RaceInit == Init => RaceInv
<1> SUFFICES ASSUME Init PROVE RaceInv
  OBVIOUS
<1>1. TasksOK
  BY IdleTask, AccessAssumption DEF Init, AccessInit, TasksOK
<1>2. KindsFit /\ EnablesKnown
  BY IdleTask DEF Init, AccessInit, KindsFit, EnablesKnown, Asking
<1> QED
  BY <1>1, <1>2 DEF RaceInv, Init, AccessInit, StrandedOnlyByRace

LEMMA RaceStep == RaceInv /\ [Next]_vars => RaceInv'
<1> SUFFICES ASSUME RaceInv, [Next]_vars PROVE RaceInv'
  OBVIOUS
<1>1. ASSUME NEW t \in Tasks, AccessStep(t) PROVE RaceInv'
  <2>1. UNCHANGED <<now, gitlab>>
    BY <1>1 DEF AccessStep
  <2>2. CASE \E p \in Projects : BeginRemove(t, p)
    BY <2>1, <2>2, Begins DEF BeginRemove, tables, history
  <2>3. CASE Resolve(t)
    BY <2>1, <2>3, ResolveStep
  <2>4. CASE BeginList(t) \/ ReadAllowlist(t) \/ ReadEnables(t)
    BY <2>1, <2>4, ListStep
  <2>5. CASE \/ \E p \in Projects : BeginEnable(t, p) \/ BeginDisable(t, p)
             \/ FindConnection(t) \/ Upsert(t) \/ InvalidateUserProject(t)
    BY <2>1, <2>5, EnableStep
  <2>6. CASE Remove(t)
    BY <2>1, <2>6, RemoveStep
  <2> QED
    BY <1>1, <2>2, <2>3, <2>4, <2>5, <2>6, Zenon DEF AccessStep
<1>2. ASSUME NEW t \in Tasks, PageStep(t) PROVE RaceInv'
  BY <1>2, PageStepKeeps
<1>3. CASE AccessEnvironment
  <2>1. /\ UNCHANGED <<task, enabled, raced>> /\ now' \in Nat
        /\ allowlist' \subseteq Projects /\ allowlist \subseteq allowlist'
    <3>1. CASE \E p \in Projects : SyncDenies(p)
      BY <3>1 DEF SyncDenies, gitlab, history, RaceInv, TasksOK
    <3>2. CASE \/ \E p \in Projects : AddProject(p) /\ UNCHANGED <<now, gitlab>>
               \/ \E p \in Projects : ChangeMembership(p)
               \/ RevokePat \/ Tick
      BY <3>2 DEF AddProject, ChangeMembership, RevokePat, Tick, tables, history, RaceInv, TasksOK
    <3> QED  BY <1>3, <3>1, <3>2, Zenon DEF AccessEnvironment
  <2> QED  BY <2>1 DEF RaceInv, TasksOK, KindsFit, EnablesKnown, StrandedOnlyByRace, Asking
<1>4. CASE (\E c \in Commits : StoreCommit(c)) \/ UNCHANGED vars
  <2>1. UNCHANGED accessVars
    BY <1>4 DEF StoreCommit, vars
  <2> QED  BY <2>1 DEF accessVars, tables, history, RaceInv, TasksOK, KindsFit, EnablesKnown,
                       StrandedOnlyByRace, Asking
<1> QED
  BY <1>1, <1>2, <1>3, <1>4 DEF Next

\* A project off the allowlist has an enable left only where an enable and a
\* removal of it overlapped, for any number of projects and requests: enable
\* checks the allowlist first, and removeProject deletes the enables in its
\* transaction.
THEOREM StrandedByRace == Spec => []StrandedOnlyByRace
<1>1. RaceInv => StrandedOnlyByRace
  BY DEF RaceInv
<1> QED
  BY RaceInit, RaceStep, <1>1, PTL DEF Spec

-----------------------------------------------------------------------------
(* Verdicts are recent                                                     *)

VerdictTypes ==
    /\ readable \subseteq Projects
    /\ cache \in [Projects -> {None} \cup CacheRow]
    /\ lastReadable \in [Projects -> Int] /\ lastHidden \in [Projects -> Int]
    /\ syncDenied \in [Projects -> Int]

\* The moments at which a project was readable, or not, lie behind; the present
\* is one of them.
MomentsKnown ==
    \A p \in Projects : /\ lastReadable[p] <= now /\ lastHidden[p] <= now /\ syncDenied[p] <= now
                        /\ p \in readable => lastReadable[p] = now
                        /\ p \notin readable => lastHidden[p] = now

\* A denial that holds until x is of a request of the user, which caches it at its
\* end, or of a synchronisation, which does so at once.
DenialAsOf(p, x) ==
    lastHidden[p] + DenialTtl + RequestTime >= x \/ syncDenied[p] + SyncDenialTtl >= x

\* A row of the cache ends as long after the answer as it is kept, and a request.
CacheKnown ==
    \A p \in Projects : cache[p] # None =>
        /\ cache[p].allowed => lastReadable[p] + AllowTtl + RequestTime >= cache[p].expires
        /\ ~cache[p].allowed => DenialAsOf(p, cache[p].expires)

\* A request knows its answers from the cache, with rows that had not expired
\* when it began, or from GitLab, after it began.
AnswersKnown(r) ==
    \A p \in Projects :
        /\ r.answer[p] = "allowed" => lastReadable[p] + AllowTtl + RequestTime >= r.since + 1
        /\ r.answer[p] = "denied" => DenialAsOf(p, r.since + 1)
        /\ p \in r.asked /\ r.answer[p] = "allowed" => lastReadable[p] >= r.since
        /\ p \in r.asked /\ r.answer[p] = "denied" => lastHidden[p] >= r.since

InTime(r) == r.at # "end" => r.kind # "none" /\ r.since <= now /\ now <= r.since + RequestTime

VerdictInv ==
    /\ VerdictTypes /\ MomentsKnown /\ CacheKnown
    /\ \A t \in Tasks : AnswersKnown(task[t]) /\ InTime(task[t])

LEMMA Times ==
    /\ {AllowTtl, DenialTtl, SyncDenialTtl} \subseteq Nat \ {0}
    /\ RequestTime \in Nat /\ Opening \in Nat
  BY AccessAssumption DEF DenialTtl

\* What holds whatever a request does next.
Unmoved == UNCHANGED <<now, gitlab, lastReadable, lastHidden, syncDenied>>

LEMMA IdleKnown ==
    AnswersKnown(Idle) /\ InTime(Idle) /\ Idle.answer = [p \in Projects |-> "none"]
  BY DEF AnswersKnown, InTime, Idle, NoAnswers

\* A step of a request that is in order afterwards, and so is the cache.
LEMMA VerdictsKept ==
    ASSUME RaceInv, VerdictInv, NEW t \in Tasks, NEW r \in Task, Become(t, r), Unmoved,
           AnswersKnown(r), InTime(r),
           cache' \in [Projects -> {None} \cup CacheRow], CacheKnown'
    PROVE  VerdictInv'
<1>1. \A u \in Tasks : task'[u] = task[u] \/ task'[u] = r \/ task'[u] = Idle
  BY DEF Become, RaceInv, TasksOK
<1>2. \A u \in Tasks : AnswersKnown(task'[u]) /\ InTime(task'[u])
  BY <1>1, IdleKnown DEF VerdictInv
<1>3. VerdictTypes' /\ MomentsKnown'
  BY DEF VerdictInv, VerdictTypes, MomentsKnown, Unmoved, gitlab
<1>4. \A u \in Tasks : AnswersKnown(task[u])' /\ InTime(task[u])'
  BY <1>2 DEF AnswersKnown, InTime, DenialAsOf, Unmoved
<1> QED  BY <1>3, <1>4 DEF VerdictInv

\* What the statements on the cache leave in it.
LEMMA CacheKept ==
    ASSUME VerdictInv, Unmoved, cache' = cache \/ \E ps : Forget(ps)
    PROVE  cache' \in [Projects -> {None} \cup CacheRow] /\ CacheKnown'
<1>1. \A p \in Projects : cache'[p] = cache[p] \/ cache'[p] = None
  BY DEF Forget
<1>2. cache' \in [Projects -> {None} \cup CacheRow]
  BY DEF VerdictInv, VerdictTypes, Forget
<1> QED  BY <1>1, <1>2 DEF VerdictInv, CacheKnown, DenialAsOf, Unmoved

\* A request that goes on with the answers it has.
LEMMA OnlyMoves ==
    ASSUME RaceInv, VerdictInv, NEW t \in Tasks, NEW r \in Task, Become(t, r), Unmoved,
           task[t].at # "end",
           r.kind = task[t].kind, r.since = task[t].since, r.asked = task[t].asked,
           r.answer = task[t].answer, cache' = cache \/ \E ps : Forget(ps)
    PROVE  VerdictInv'
<1>1. AnswersKnown(r)
  BY DEF VerdictInv, AnswersKnown
<1>2. InTime(r)
  BY DEF VerdictInv, InTime
<1> QED  BY <1>1, <1>2, CacheKept, VerdictsKept

LEMMA GoesTo ==
    ASSUME RaceInv, VerdictInv, NEW t \in Tasks, NEW label, Goto(t, label), Unmoved,
           task[t].at # "end", [task[t] EXCEPT !.at = label] \in Task,
           cache' = cache \/ \E ps : Forget(ps)
    PROVE  VerdictInv'
<1> DEFINE r == [task[t] EXCEPT !.at = label]
<1>1. task[t] \in Task
  BY DEF RaceInv, TasksOK
<1>2. /\ r.kind = task[t].kind /\ r.since = task[t].since /\ r.asked = task[t].asked
      /\ r.answer = task[t].answer
  BY <1>1 DEF Task
<1>3. Become(t, r) /\ r \in Task
  BY DEF Goto
<1> HIDE DEF r
<1> QED  BY <1>2, <1>3, OnlyMoves

LEMMA BeginsKnown ==
    ASSUME RaceInv, VerdictInv, NEW t \in Tasks, NEW kind, NEW label, NEW ps \in SUBSET Projects,
           kind # "none", Begin(t, kind, label, ps), Unmoved, cache' = cache
    PROVE  VerdictInv'
<1> DEFINE r == [Idle EXCEPT !.kind = kind, !.at = label, !.since = now, !.listed = ps]
<1>1. task' = [task EXCEPT ![t] = r]
  BY DEF Begin
<1>2. r.kind = kind /\ r.since = now /\ r.answer = NoAnswers
  BY DEF Idle
<1>3. AnswersKnown(r) /\ InTime(r)
  BY <1>2, Times DEF AnswersKnown, InTime, NoAnswers, RaceInv, TasksOK
<1> HIDE DEF r
<1>4. \A u \in Tasks : task'[u] = task[u] \/ task'[u] = r
  BY <1>1 DEF RaceInv, TasksOK
<1>5. \A u \in Tasks : AnswersKnown(task'[u]) /\ InTime(task'[u])
  BY <1>3, <1>4 DEF VerdictInv
<1>6. \A u \in Tasks : AnswersKnown(task[u])' /\ InTime(task[u])'
  BY <1>5 DEF AnswersKnown, InTime, DenialAsOf, Unmoved
<1> QED  BY <1>6, CacheKept DEF VerdictInv, VerdictTypes, MomentsKnown, Unmoved, gitlab

LEMMA LookupKnows ==
    ASSUME RaceInv, VerdictInv, NEW t \in Tasks, Lookup(t), Unmoved
    PROVE  VerdictInv'
<1> DEFINE fresh == {p \in task[t].listed : IsFresh(p)}
           answer == [p \in Projects |->
                        IF p \notin fresh THEN "none"
                        ELSE IF cache[p].allowed THEN "allowed" ELSE "denied"]
           asked == task[t].listed \ fresh
           r == [task[t] EXCEPT !.answer = answer, !.asked = asked,
                                !.at = IF asked = {} THEN Resolved(t, answer) ELSE "token"]
<1>0. task[t] \in Task /\ now \in Nat
  BY DEF RaceInv, TasksOK
<1>1. Become(t, r) /\ task[t].at = "lookup" /\ cache' = cache
  BY DEF Lookup, At, tables
<1>2. answer \in [Projects -> Answers] /\ asked \in SUBSET Projects
  BY <1>0 DEF Answers, Task
<1>3. Resolved(t, answer) \in {"shown", "upsert", "end"}
  BY DEF Resolved
<1>4. /\ r \in Task /\ r.kind = task[t].kind /\ r.since = task[t].since
      /\ r.asked = asked /\ r.answer = answer
  <2> HIDE DEF answer, asked
  <2> QED  BY <1>0, <1>2, <1>3 DEF Task
<1>5. task[t].since <= now /\ task[t].since \in Nat /\ InTime(task[t])
  BY <1>0, <1>1 DEF VerdictInv, InTime, Task
<1>6. AnswersKnown(r)
  <2> SUFFICES ASSUME NEW p \in Projects
               PROVE  /\ answer[p] = "allowed" =>
                             lastReadable[p] + AllowTtl + RequestTime >= task[t].since + 1
                      /\ answer[p] = "denied" => DenialAsOf(p, task[t].since + 1)
                      /\ p \in asked => answer[p] = "none"
    BY <1>4 DEF AnswersKnown
  <2>1. CASE p \notin fresh
    BY <2>1
  <2>2. CASE p \in fresh
    <3>1. /\ cache[p] \in CacheRow /\ cache[p] # None /\ cache[p].expires >= now + 1
          /\ cache[p].expires \in Nat
      BY <1>0, <2>2 DEF IsFresh, VerdictInv, VerdictTypes, CacheRow
    <3>2. lastReadable[p] \in Int /\ lastHidden[p] \in Int /\ syncDenied[p] \in Int
      BY DEF VerdictInv, VerdictTypes
    <3>3. CASE cache[p].allowed
      <4>1. answer[p] = "allowed" /\ p \notin asked
        BY <2>2, <3>3
      <4>2. lastReadable[p] + AllowTtl + RequestTime >= cache[p].expires
        BY <3>1, <3>3 DEF VerdictInv, CacheKnown
      <4> QED  BY <1>0, <1>5, <3>1, <3>2, <4>1, <4>2, Times
    <3>4. CASE ~cache[p].allowed
      <4>1. answer[p] = "denied" /\ p \notin asked
        BY <2>2, <3>4
      <4>2. DenialAsOf(p, cache[p].expires)
        BY <3>1, <3>4 DEF VerdictInv, CacheKnown
      <4>3. DenialAsOf(p, task[t].since + 1)
        BY <1>0, <1>5, <3>1, <3>2, <4>2, Times DEF DenialAsOf
      <4> QED  BY <4>1, <4>3
    <3> QED  BY <3>3, <3>4
  <2> QED  BY <2>1, <2>2
<1>7. InTime(r)
  BY <1>1, <1>4, <1>5 DEF InTime
<1> HIDE DEF r
<1> QED  BY <1>1, <1>4, <1>6, <1>7, CacheKept, VerdictsKept

LEMMA AnswerKnown ==
    ASSUME RaceInv, VerdictInv, NEW t \in Tasks, NEW p \in Projects, NEW verdict \in Answers,
           At(t, {"probe"}), Answered(t, p, verdict), Unmoved, cache' = cache,
           verdict = "allowed" => p \in readable, verdict = "denied" => p \notin readable
    PROVE  VerdictInv'
<1> DEFINE answer == [task[t].answer EXCEPT ![p] = verdict]
           label == IF Unanswered(t) = {p} THEN "write" ELSE task[t].at
           r == [task[t] EXCEPT !.answer = answer, !.at = label]
<1>0. task[t] \in Task /\ now \in Nat /\ task[t].at = "probe" /\ task[t].since \in Nat
      /\ task[t].answer \in [Projects -> Answers]
  BY DEF RaceInv, TasksOK, At, Task
<1>1. task' = [task EXCEPT ![t] = r]
  BY DEF Answered
<1>2. answer \in [Projects -> Answers] /\ label \in {"probe", "write"}
  BY <1>0
<1>3. /\ r \in Task /\ r.kind = task[t].kind /\ r.since = task[t].since
      /\ r.asked = task[t].asked /\ r.answer = answer /\ r.at = label
  <2> HIDE DEF answer, label
  <2> QED  BY <1>0, <1>2 DEF Task
<1>4. Become(t, r)
  BY <1>1, <1>2, <1>3 DEF Become
<1>5. InTime(task[t]) /\ AnswersKnown(task[t])
  BY DEF VerdictInv
<1>6. InTime(r)
  BY <1>0, <1>3, <1>5 DEF InTime
<1>7. AnswersKnown(r)
  <2> SUFFICES ASSUME NEW q \in Projects
               PROVE  /\ answer[q] = "allowed" =>
                             lastReadable[q] + AllowTtl + RequestTime >= task[t].since + 1
                      /\ answer[q] = "denied" => DenialAsOf(q, task[t].since + 1)
                      /\ q \in task[t].asked /\ answer[q] = "allowed" => lastReadable[q] >= task[t].since
                      /\ q \in task[t].asked /\ answer[q] = "denied" => lastHidden[q] >= task[t].since
    BY <1>3 DEF AnswersKnown
  <2>1. CASE q # p
    BY <1>0, <1>5, <2>1 DEF AnswersKnown
  <2>2. CASE q = p
    <3>1. answer[q] = verdict
      BY <1>0, <2>2
    <3>2. task[t].since <= now /\ lastReadable[q] \in Int /\ lastHidden[q] \in Int
      BY <1>0, <1>5 DEF InTime, VerdictInv, VerdictTypes
    <3>3. verdict = "allowed" => lastReadable[q] = now
      BY <2>2 DEF VerdictInv, MomentsKnown
    <3>4. verdict = "denied" => lastHidden[q] = now
      BY <2>2 DEF VerdictInv, MomentsKnown
    <3>5. verdict = "denied" => DenialAsOf(q, task[t].since + 1)
      BY <1>0, <3>2, <3>4, Times DEF DenialAsOf
    <3> QED  BY <1>0, <3>1, <3>2, <3>3, <3>4, <3>5, Times
  <2> QED  BY <2>1, <2>2
<1> HIDE DEF r
<1> QED  BY <1>3, <1>4, <1>6, <1>7, CacheKept, VerdictsKept

\* An answer that is cached is no older than the request that asked for it.
LEMMA WriteKnows ==
    ASSUME RaceInv, VerdictInv, NEW t \in Tasks, Write(t), Unmoved
    PROVE  VerdictInv'
<1> DEFINE known == {p \in task[t].asked : task[t].answer[p] \in {"allowed", "denied"}}
<1>0. task[t] \in Task /\ now \in Nat /\ task[t].at = "write" /\ task[t].since \in Nat
  BY DEF RaceInv, TasksOK, Write, At, Task
<1>1. InTime(task[t]) /\ AnswersKnown(task[t])
  BY DEF VerdictInv
<1>2. Resolved(t, task[t].answer) \in {"shown", "upsert", "end"}
  BY DEF Resolved
<1>3. ASSUME NEW label \in {"shown", "upsert", "end", "write"}, NEW asked \in SUBSET task[t].asked,
             NEW r, r = [task[t] EXCEPT !.asked = asked, !.at = label]
      PROVE  r \in Task /\ AnswersKnown(r) /\ InTime(r)
  <2>1. /\ r \in Task /\ r.kind = task[t].kind /\ r.since = task[t].since
        /\ r.asked = asked /\ r.answer = task[t].answer
    BY <1>0, <1>3 DEF Task
  <2> QED  BY <1>0, <1>1, <2>1 DEF AnswersKnown, InTime
<1>4. CASE known = {} /\ UNCHANGED tables
           /\ Become(t, [task[t] EXCEPT !.asked = {}, !.at = Resolved(t, task[t].answer)])
  <2> DEFINE r == [task[t] EXCEPT !.asked = {}, !.at = Resolved(t, task[t].answer)]
  <2>1. r \in Task /\ AnswersKnown(r) /\ InTime(r)
    BY <1>2, <1>3
  <2>2. Become(t, r)
    BY <1>4
  <2> HIDE DEF r
  <2> QED  BY <1>4, <2>1, <2>2, CacheKept, VerdictsKept DEF tables
<1>5. ASSUME NEW next \in known, WriteCache(next, task[t].answer[next] = "allowed"),
             Become(t, [task[t] EXCEPT
                          !.asked = known \ {next},
                          !.at = IF known = {next} THEN Resolved(t, task[t].answer) ELSE @])
      PROVE  VerdictInv'
  <2> DEFINE r == [task[t] EXCEPT
                     !.asked = known \ {next},
                     !.at = IF known = {next} THEN Resolved(t, task[t].answer) ELSE @]
  <2>1. Become(t, r)
    BY <1>5
  <2>2. known \ {next} \in SUBSET task[t].asked
    OBVIOUS
  <2>3. r \in Task /\ AnswersKnown(r) /\ InTime(r)
    <3>1. CASE known = {next}
      BY <1>2, <1>3, <2>2, <3>1
    <3>2. CASE known # {next}
      BY <1>0, <1>3, <2>2, <3>2
    <3> QED  BY <3>1, <3>2
  <2> HIDE DEF r
  <2>4. /\ next \in Projects /\ next \in task[t].asked
        /\ task[t].answer[next] \in {"allowed", "denied"}
    BY <1>0 DEF Task
  <2>5. cache' = [cache EXCEPT ![next] =
                    [allowed |-> task[t].answer[next] = "allowed",
                     expires |-> now + IF task[t].answer[next] = "allowed"
                                       THEN AllowTtl ELSE DenialTtl]]
    BY <1>5 DEF WriteCache
  <2> DEFINE row == cache'[next]
  <2>6. /\ row.allowed = (task[t].answer[next] = "allowed")
        /\ row.expires = now + IF task[t].answer[next] = "allowed" THEN AllowTtl ELSE DenialTtl
        /\ row \in CacheRow
        /\ \A p \in Projects : p # next => cache'[p] = cache[p]
    BY <1>0, <2>4, <2>5, Times DEF CacheRow, VerdictInv, VerdictTypes
  <2>7. cache' \in [Projects -> {None} \cup CacheRow]
    BY <1>0, <2>4, <2>5, Times DEF CacheRow, VerdictInv, VerdictTypes
  <2>8. /\ lastReadable[next] \in Int /\ lastHidden[next] \in Int
        /\ now <= task[t].since + RequestTime
    BY <1>0, <1>1, <2>4 DEF InTime, VerdictInv, VerdictTypes
  <2> HIDE DEF row
  <2>9. row.allowed => lastReadable[next] + AllowTtl + RequestTime >= row.expires
    <3>1. CASE task[t].answer[next] = "allowed"
      <4>1. lastReadable[next] >= task[t].since /\ row.expires = now + AllowTtl
        BY <1>1, <2>4, <2>6, <3>1 DEF AnswersKnown
      <4> QED  BY <1>0, <2>8, <4>1, Times
    <3> QED  BY <2>6, <3>1
  <2>10. ~row.allowed => DenialAsOf(next, row.expires)
    <3>1. CASE task[t].answer[next] = "denied"
      <4>1. lastHidden[next] >= task[t].since /\ row.expires = now + DenialTtl
        BY <1>1, <2>4, <2>6, <3>1 DEF AnswersKnown
      <4> QED  BY <1>0, <2>8, <4>1, Times DEF DenialAsOf
    <3> QED  BY <2>4, <2>6, <3>1
  <2>11. CacheKnown'
    <3> SUFFICES ASSUME NEW p \in Projects, cache'[p] # None
                 PROVE  /\ cache'[p].allowed =>
                              lastReadable[p] + AllowTtl + RequestTime >= cache'[p].expires
                        /\ ~cache'[p].allowed => DenialAsOf(p, cache'[p].expires)
      BY DEF CacheKnown, DenialAsOf, Unmoved
    <3>1. CASE p = next
      BY <2>9, <2>10, <3>1 DEF row
    <3>2. CASE p # next
      BY <2>6, <3>2 DEF VerdictInv, CacheKnown
    <3> QED  BY <3>1, <3>2
  <2> QED  BY <2>1, <2>3, <2>7, <2>11, VerdictsKept
<1> QED  BY <1>4, <1>5 DEF Write


LEMMA ResolveKnows ==
    ASSUME RaceInv, VerdictInv, NEW t \in Tasks, Resolve(t), Unmoved
    PROVE  VerdictInv'
<1>0. task[t] \in Task
  BY DEF RaceInv, TasksOK
<1>1. CASE Lookup(t) \/ Write(t)
  BY <1>1, LookupKnows, WriteKnows
<1>2. CASE \E p \in Projects : Probe(t, p) \/ ProbeFails(t, p)
  BY <1>2, AnswerKnown DEF Probe, ProbeFails, Answers, tables
<1>3. CASE GetAccessToken(t) \/ ProbeRejected(t) \/ Revoke(t) \/ Mark(t) \/ Clear(t)
  <2>1. PICK label \in {"probe", "revoke", "mark", "clear", "end"} : Goto(t, label)
    BY <1>3 DEF GetAccessToken, ProbeRejected, Revoke, Mark, Clear, Fail
  <2>2. task[t].at # "end"
    BY <1>3 DEF GetAccessToken, ProbeRejected, Revoke, Mark, Clear, At
  <2>3. cache' = cache \/ \E ps : Forget(ps)
    BY <1>3 DEF GetAccessToken, ProbeRejected, Revoke, Mark, Clear, tables
  <2>4. [task[t] EXCEPT !.at = label] \in Task
    BY <1>0, <2>1 DEF Task
  <2> QED  BY <2>1, <2>2, <2>3, <2>4, GoesTo
<1> QED  BY <1>1, <1>2, <1>3 DEF Resolve

LEMMA AccessKnows ==
    ASSUME RaceInv, VerdictInv, NEW t \in Tasks, AccessStep(t)
    PROVE  VerdictInv'
<1>0. /\ task[t] \in Task /\ allowlist \in SUBSET Projects /\ enabled \in SUBSET Projects
      /\ UNCHANGED <<now, gitlab>>
  BY DEF RaceInv, TasksOK, AccessStep
<1>1. CASE BeginList(t)
  BY <1>0, <1>1, BeginsKnown DEF BeginList, tables, history, Unmoved
<1>2. CASE ReadAllowlist(t)
  <2> DEFINE r == [task[t] EXCEPT !.listed = allowlist, !.at = "enables"]
  <2>1. task' = [task EXCEPT ![t] = r] /\ task[t].at = "begin" /\ UNCHANGED <<tables, history>>
    BY <1>2 DEF ReadAllowlist, At
  <2>2. /\ r \in Task /\ r.kind = task[t].kind /\ r.since = task[t].since
        /\ r.asked = task[t].asked /\ r.answer = task[t].answer /\ r.at = "enables"
    BY <1>0 DEF Task
  <2> HIDE DEF r
  <2> QED  BY <1>0, <2>1, <2>2, OnlyMoves DEF Become, tables, history, Unmoved
<1>3. CASE ReadEnables(t)
  <2> DEFINE r == [task[t] EXCEPT !.enables = enabled,
                                  !.at = IF task[t].listed = {} THEN "end" ELSE "lookup"]
  <2>1. Become(t, r) /\ task[t].at = "enables" /\ UNCHANGED <<tables, history>>
    BY <1>3 DEF ReadEnables, At
  <2>2. /\ r \in Task /\ r.kind = task[t].kind /\ r.since = task[t].since
        /\ r.asked = task[t].asked /\ r.answer = task[t].answer
    BY <1>0 DEF Task
  <2> HIDE DEF r
  <2> QED  BY <1>0, <2>1, <2>2, OnlyMoves DEF tables, history, Unmoved
<1>4. CASE \E p \in Projects : BeginEnable(t, p) \/ BeginDisable(t, p) \/ BeginRemove(t, p)
  BY <1>0, <1>4, BeginsKnown DEF BeginEnable, BeginDisable, BeginRemove, tables, history, Unmoved
<1>5. CASE Resolve(t)
  <2>1. UNCHANGED history
    BY <1>5 DEF Resolve, Lookup, GetAccessToken, Probe, ProbeFails, ProbeRejected, Write,
                Revoke, Mark, Clear, history
  <2> QED  BY <1>0, <1>5, <2>1, ResolveKnows DEF history, Unmoved
<1>6. CASE FindConnection(t) \/ Upsert(t) \/ InvalidateUserProject(t) \/ Remove(t)
  <2>1. PICK label \in {"lookup", "end"} : Goto(t, label)
    BY <1>6 DEF FindConnection, Upsert, InvalidateUserProject, Remove
  <2>2. task[t].at # "end"
    BY <1>6 DEF FindConnection, Upsert, InvalidateUserProject, Remove, At
  <2>3. cache' = cache \/ \E ps : Forget(ps)
    BY <1>6 DEF FindConnection, Upsert, InvalidateUserProject, Remove, tables
  <2>4. [task[t] EXCEPT !.at = label] \in Task
    BY <1>0, <2>1 DEF Task
  <2>5. UNCHANGED <<lastReadable, lastHidden, syncDenied>>
    BY <1>6 DEF FindConnection, Upsert, InvalidateUserProject, Remove, history
  <2> QED  BY <1>0, <2>1, <2>2, <2>3, <2>4, <2>5, GoesTo DEF Unmoved
<1> QED
  BY <1>1, <1>2, <1>3, <1>4, <1>5, <1>6, Zenon DEF AccessStep

\* The page keeps some of the answers of its listing.
LEMMA PageKnows ==
    ASSUME RaceInv, VerdictInv, NEW t \in Tasks, PageStep(t)
    PROVE  VerdictInv'
<1>0. task[t] \in Task /\ Unmoved /\ cache' = cache
  BY DEF RaceInv, TasksOK, PageStep, OpenWeek, Count, FindSnapshot, CreateSnapshot, Held,
         Unmoved, tables, history
<1>1. CASE OpenWeek(t)
  <2> DEFINE r == [task[t] EXCEPT !.listed = Shown(t), !.enables = {}, !.answer = Kept(t),
                                  !.at = IF Shown(t) = {} THEN "end" ELSE "count"]
  <2>1. Become(t, r) /\ task[t].at = "shown"
    BY <1>1 DEF OpenWeek, At
  <2>2. Shown(t) \in SUBSET Projects /\ Kept(t) \in [Projects -> Answers]
    BY <1>0 DEF Shown, Kept, Answers, Task
  <2>3. /\ r \in Task /\ r.kind = task[t].kind /\ r.since = task[t].since
        /\ r.asked = task[t].asked /\ r.answer = Kept(t)
    BY <1>0, <2>2 DEF Task
  <2>4. \A p \in Projects : Kept(t)[p] = task[t].answer[p] \/ Kept(t)[p] = "none"
    BY DEF Kept, Shown
  <2>5. AnswersKnown(task[t]) /\ InTime(task[t])
    BY DEF VerdictInv
  <2> HIDE DEF r
  <2>6. AnswersKnown(r) /\ InTime(r)
    BY <2>1, <2>3, <2>4, <2>5 DEF AnswersKnown, InTime
  <2> QED  BY <1>0, <2>1, <2>3, <2>6, CacheKept, VerdictsKept
<1>2. CASE Count(t) \/ FindSnapshot(t) \/ CreateSnapshot(t)
  <2>1. PICK label \in {"find", "create", "end"} : Goto(t, label)
    BY <1>2 DEF Count, FindSnapshot, CreateSnapshot, Proceed
  <2>2. task[t].at # "end"
    BY <1>2 DEF Count, FindSnapshot, CreateSnapshot, At
  <2>3. [task[t] EXCEPT !.at = label] \in Task
    BY <1>0, <2>1 DEF Task
  <2> QED  BY <1>0, <2>1, <2>2, <2>3, GoesTo
<1> QED  BY <1>1, <1>2 DEF PageStep

-----------------------------------------------------------------------------
\* GitLab and the time only make the moments of the past later.
LEMMA Later ==
    ASSUME RaceInv, VerdictInv, UNCHANGED <<task, cache>>,
           now' \in Nat, now <= now', now' <= now + 1,
           now' # now => \A t \in Tasks : Busy(t) => now < task[t].since + RequestTime,
           readable' \subseteq Projects,
           lastReadable' = Stamp(lastReadable, readable', now'),
           lastHidden' = Stamp(lastHidden, Projects \ readable', now'),
           syncDenied' = syncDenied
    PROVE  VerdictInv'
<1>0. /\ now \in Nat /\ \A t \in Tasks : task[t] \in Task
      /\ \A p \in Projects :
            lastReadable[p] \in Int /\ lastHidden[p] \in Int /\ syncDenied[p] \in Int
  BY DEF RaceInv, TasksOK, VerdictInv, VerdictTypes
<1>1. /\ lastReadable' \in [Projects -> Int] /\ lastHidden' \in [Projects -> Int]
      /\ \A p \in Projects :
            /\ lastReadable'[p] = IF p \in readable' THEN now' ELSE lastReadable[p]
            /\ lastHidden'[p] = IF p \notin readable' THEN now' ELSE lastHidden[p]
  BY <1>0 DEF Stamp
<1>2. \A p \in Projects : /\ lastReadable[p] <= lastReadable'[p] /\ lastReadable'[p] <= now'
                          /\ lastHidden[p] <= lastHidden'[p] /\ lastHidden'[p] <= now'
  <2> SUFFICES ASSUME NEW p \in Projects
               PROVE  /\ lastReadable[p] <= lastReadable'[p] /\ lastReadable'[p] <= now'
                      /\ lastHidden[p] <= lastHidden'[p] /\ lastHidden'[p] <= now'
    OBVIOUS
  <2>1. lastReadable[p] <= now /\ lastHidden[p] <= now
    BY DEF VerdictInv, MomentsKnown
  <2>2. lastReadable[p] \in Int /\ lastHidden[p] \in Int /\ now \in Int /\ now' \in Int
    BY <1>0
  <2>3. /\ lastReadable'[p] = IF p \in readable' THEN now' ELSE lastReadable[p]
        /\ lastHidden'[p] = IF p \notin readable' THEN now' ELSE lastHidden[p]
    BY <1>1
  <2> QED  BY <2>1, <2>2, <2>3
<1>3. VerdictTypes' /\ MomentsKnown'
  <2>1. \A p \in Projects : syncDenied'[p] <= now'
    <3> SUFFICES ASSUME NEW p \in Projects PROVE syncDenied[p] <= now'
      OBVIOUS
    <3>1. syncDenied[p] <= now /\ syncDenied[p] \in Int /\ now' \in Int
      BY <1>0 DEF VerdictInv, MomentsKnown
    <3> QED BY <1>0, <3>1
  <2>2. \A p \in Projects : /\ p \in readable' => lastReadable'[p] = now'
                            /\ p \notin readable' => lastHidden'[p] = now'
    BY <1>1
  <2>3. VerdictTypes'
    BY <1>1 DEF VerdictInv, VerdictTypes
  <2> QED BY <1>2, <2>1, <2>2, <2>3 DEF MomentsKnown
<1>4. \A p \in Projects, x \in Int :
         /\ DenialAsOf(p, x) => DenialAsOf(p, x)'
         /\ lastReadable[p] + AllowTtl + RequestTime >= x =>
               lastReadable'[p] + AllowTtl + RequestTime >= x
  <2> SUFFICES ASSUME NEW p \in Projects, NEW x \in Int
               PROVE  /\ DenialAsOf(p, x) => DenialAsOf(p, x)'
                      /\ lastReadable[p] + AllowTtl + RequestTime >= x =>
                            lastReadable'[p] + AllowTtl + RequestTime >= x
    OBVIOUS
  <2>1. /\ AllowTtl \in Int /\ DenialTtl \in Int /\ SyncDenialTtl \in Int /\ RequestTime \in Int
        /\ lastReadable[p] \in Int /\ lastReadable'[p] \in Int
        /\ lastHidden[p] \in Int /\ lastHidden'[p] \in Int /\ syncDenied[p] \in Int
    <3>1. lastReadable'[p] \in Int /\ lastHidden'[p] \in Int
      BY <1>1
    <3> QED BY <1>0, <3>1, Times
  <2>2. lastReadable[p] <= lastReadable'[p] /\ lastHidden[p] <= lastHidden'[p]
    BY <1>2
  <2>3. DenialAsOf(p, x) => DenialAsOf(p, x)'
    BY <2>1, <2>2 DEF DenialAsOf
  <2>4. lastReadable[p] + AllowTtl + RequestTime >= x =>
           lastReadable'[p] + AllowTtl + RequestTime >= x
    BY <2>1, <2>2
  <2> QED  BY <2>3, <2>4
<1>5. CacheKnown'
  BY <1>4 DEF VerdictInv, VerdictTypes, CacheKnown, CacheRow
<1>6. ASSUME NEW t \in Tasks PROVE AnswersKnown(task[t])' /\ InTime(task[t])'
  <2>1. AnswersKnown(task[t]) /\ InTime(task[t]) /\ task[t].since \in Nat
    BY <1>0 DEF VerdictInv, Task
  <2>2. AnswersKnown(task[t])'
    <3> SUFFICES ASSUME NEW p \in Projects
                 PROVE  /\ task[t].answer[p] = "allowed" =>
                             lastReadable'[p] + AllowTtl + RequestTime >= task[t].since + 1
                        /\ task[t].answer[p] = "denied" => DenialAsOf(p, task[t].since + 1)'
                        /\ p \in task[t].asked /\ task[t].answer[p] = "allowed" =>
                             lastReadable'[p] >= task[t].since
                        /\ p \in task[t].asked /\ task[t].answer[p] = "denied" =>
                             lastHidden'[p] >= task[t].since
      BY DEF AnswersKnown, DenialAsOf
    <3>1. task[t].since + 1 \in Int
      BY <2>1
    <3>2. /\ lastReadable[p] \in Int /\ lastReadable'[p] \in Int /\ lastReadable[p] <= lastReadable'[p]
          /\ lastHidden[p] \in Int /\ lastHidden'[p] \in Int /\ lastHidden[p] <= lastHidden'[p]
      BY <1>0, <1>1, <1>2
    <3>3. /\ p \in task[t].asked /\ task[t].answer[p] = "allowed" =>
                 lastReadable'[p] >= task[t].since
          /\ p \in task[t].asked /\ task[t].answer[p] = "denied" =>
                 lastHidden'[p] >= task[t].since
      <4>1. /\ p \in task[t].asked /\ task[t].answer[p] = "allowed" =>
                   lastReadable[p] >= task[t].since
            /\ p \in task[t].asked /\ task[t].answer[p] = "denied" =>
                   lastHidden[p] >= task[t].since
        BY <2>1 DEF AnswersKnown
      <4> QED  BY <2>1, <3>2, <4>1
    <3> QED  BY <1>4, <2>1, <3>1, <3>2, <3>3 DEF AnswersKnown
  <2>3. InTime(task[t])'
    BY <1>0, <2>1, Times DEF InTime, Busy
  <2> QED  BY <2>2, <2>3
<1> QED  BY <1>3, <1>5, <1>6 DEF VerdictInv

LEMMA DenialKnows ==
    ASSUME RaceInv, VerdictInv, NEW p \in Projects, SyncDenies(p)
    PROVE  VerdictInv'
<1>0. now \in Nat /\ p \notin readable /\ lastHidden[p] = now
  BY DEF RaceInv, TasksOK, SyncDenies, VerdictInv, MomentsKnown
<1>1. /\ UNCHANGED task
      /\ cache' = [cache EXCEPT ![p] = [allowed |-> FALSE, expires |-> now + SyncDenialTtl]]
      /\ UNCHANGED <<now, gitlab, lastReadable, lastHidden>>
      /\ syncDenied' \in [Projects -> Int]
      /\ \A q \in Projects : syncDenied'[q] = IF q = p THEN now ELSE syncDenied[q]
  BY <1>0 DEF SyncDenies, Stamp, VerdictInv, VerdictTypes
<1>2. cache' \in [Projects -> {None} \cup CacheRow]
  BY <1>0, <1>1, Times DEF CacheRow, VerdictInv, VerdictTypes
<1>3. \A q \in Projects : IF q = p THEN cache'[q].expires = now + SyncDenialTtl
                                        /\ cache'[q].allowed = FALSE
                          ELSE cache'[q] = cache[q]
  BY <1>1 DEF VerdictInv, VerdictTypes
<1>4. DenialAsOf(p, cache[p].expires)'
  <2>1. cache'[p].expires = now + SyncDenialTtl /\ syncDenied'[p] = now
    BY <1>1, <1>3
  <2> QED BY <1>0, <2>1, Times DEF DenialAsOf
<1>5. \A q \in Projects, x \in Int : DenialAsOf(q, x) => DenialAsOf(q, x)'
  <2> SUFFICES ASSUME NEW q \in Projects, NEW x \in Int, DenialAsOf(q, x)
               PROVE  DenialAsOf(q, x)'
    OBVIOUS
  <2>1. syncDenied[q] <= syncDenied'[q] /\ syncDenied[q] \in Int /\ syncDenied'[q] \in Int
    BY <1>0, <1>1 DEF VerdictInv, VerdictTypes, MomentsKnown
  <2> QED  BY <1>1, <2>1, Times DEF DenialAsOf
<1>6. CacheKnown'
  <2>1. ~cache'[p].allowed
    BY <1>3
  <2>2. ASSUME NEW q \in Projects \ {p}, cache'[q] # None
        PROVE  /\ cache'[q].allowed =>
                     lastReadable'[q] + AllowTtl + RequestTime >= cache'[q].expires
               /\ ~cache'[q].allowed => DenialAsOf(q, cache[q].expires)'
    <3>1. cache'[q] = cache[q] /\ lastReadable' = lastReadable /\ cache[q].expires \in Int
      BY <1>1, <1>3, <2>2 DEF VerdictInv, VerdictTypes, CacheRow
    <3>2. /\ cache[q].allowed => lastReadable[q] + AllowTtl + RequestTime >= cache[q].expires
          /\ ~cache[q].allowed => DenialAsOf(q, cache[q].expires)
      BY <2>2, <3>1 DEF VerdictInv, CacheKnown
    <3>3. DenialAsOf(q, cache[q].expires) => DenialAsOf(q, cache[q].expires)'
      BY <1>5, <3>1 DEF DenialAsOf
    <3> QED BY <3>1, <3>2, <3>3
  <2>3. \A q \in Projects : cache'[q] # None =>
           /\ cache'[q].allowed => lastReadable'[q] + AllowTtl + RequestTime >= cache'[q].expires
           /\ ~cache'[q].allowed => DenialAsOf(q, cache[q].expires)'
    BY <1>4, <2>1, <2>2
  <2> QED BY <2>3 DEF CacheKnown, DenialAsOf
<1>7. VerdictTypes' /\ MomentsKnown'
  BY <1>0, <1>1, <1>2 DEF VerdictInv, VerdictTypes, MomentsKnown, gitlab
<1>8. ASSUME NEW t \in Tasks PROVE AnswersKnown(task[t])' /\ InTime(task[t])'
  <2>1. AnswersKnown(task[t]) /\ InTime(task[t]) /\ task[t].since + 1 \in Int
    BY DEF VerdictInv, RaceInv, TasksOK, Task
  <2> QED  BY <1>1, <1>5, <2>1 DEF AnswersKnown, InTime, DenialAsOf
<1> QED  BY <1>6, <1>7, <1>8 DEF VerdictInv

LEMMA EnvironmentKnows ==
    ASSUME RaceInv, VerdictInv, AccessEnvironment
    PROVE  VerdictInv'
<1>1. ASSUME NEW p \in Projects, AddProject(p), UNCHANGED <<now, gitlab>> PROVE VerdictInv'
  BY <1>1 DEF AddProject, history, gitlab, VerdictInv, VerdictTypes, MomentsKnown, CacheKnown,
              AnswersKnown, InTime, DenialAsOf
<1>2. ASSUME NEW p \in Projects, ChangeMembership(p) PROVE VerdictInv'
  <2>1. /\ UNCHANGED <<now, task, cache>> /\ readable' \subseteq Projects
        /\ lastReadable' = Stamp(lastReadable, readable', now)
        /\ lastHidden' = Stamp(lastHidden, Projects \ readable', now)
        /\ syncDenied' = syncDenied
    BY <1>2 DEF ChangeMembership, tables, VerdictInv, VerdictTypes
  <2>2. now \in Nat
    BY DEF RaceInv, TasksOK
  <2> QED  BY <2>1, <2>2, Later
<1>3. CASE RevokePat
  BY <1>3 DEF RevokePat, tables, history, VerdictInv, VerdictTypes, MomentsKnown, CacheKnown,
              AnswersKnown, InTime, DenialAsOf
<1>4. CASE Tick
  <2>1. /\ UNCHANGED <<task, cache, readable>> /\ now' = now + 1
        /\ lastReadable' = Stamp(lastReadable, readable, now')
        /\ lastHidden' = Stamp(lastHidden, Projects \ readable, now')
        /\ syncDenied' = syncDenied
        /\ \A t \in Tasks : Busy(t) => now < task[t].since + RequestTime
    BY <1>4 DEF Tick, tables, gitlab
  <2>2. now \in Nat /\ readable \subseteq Projects
    BY DEF RaceInv, TasksOK, VerdictInv, VerdictTypes
  <2> QED  BY <2>1, <2>2, Later
<1> QED
  BY <1>1, <1>2, <1>3, <1>4, DenialKnows DEF AccessEnvironment

LEMMA VerdictInit == Init => VerdictInv
<1> SUFFICES ASSUME Init PROVE VerdictInv
  OBVIOUS
<1>1. LongAgo \in Int /\ LongAgo <= Opening
  BY Times DEF LongAgo
<1>2. VerdictTypes /\ MomentsKnown /\ CacheKnown
  BY <1>1, Times DEF Init, AccessInit, VerdictTypes, MomentsKnown, CacheKnown
<1>3. \A t \in Tasks : AnswersKnown(task[t]) /\ InTime(task[t])
  BY IdleKnown DEF Init, AccessInit
<1> QED  BY <1>2, <1>3 DEF VerdictInv

LEMMA VerdictStep == RaceInv /\ VerdictInv /\ [Next]_vars => VerdictInv'
<1> SUFFICES ASSUME RaceInv, VerdictInv, [Next]_vars PROVE VerdictInv'
  OBVIOUS
<1>1. CASE (\E c \in Commits : StoreCommit(c)) \/ UNCHANGED vars
  <2>1. UNCHANGED <<now, cache, readable, task, lastReadable, lastHidden, syncDenied>>
    BY <1>1 DEF StoreCommit, vars, accessVars, tables, gitlab, history
  <2> QED  BY <2>1 DEF VerdictInv, VerdictTypes, MomentsKnown, CacheKnown, AnswersKnown, InTime,
                       DenialAsOf
<1> QED
  BY <1>1, AccessKnows, PageKnows, EnvironmentKnows DEF Next

\* What is shown, enabled or counted could be read within the last AllowTtl and
\* two requests; what is withheld as denied could not within DenialTtl and two
\* requests, or a synchronisation was denied within SyncDenialTtl and a request.
\* For any number of projects and requests, any times of the cache and any
\* duration of a request: listForUser, resolveVisibility and the cache.
THEOREM VerdictsRecent == Spec => []VerdictsAreRecent
<1>1. ASSUME RaceInv, VerdictInv PROVE VerdictsAreRecent
  <2> SUFFICES ASSUME NEW t \in Tasks, At(t, Acting), NEW p \in task[t].listed
               PROVE  /\ task[t].answer[p] = "allowed" =>
                            lastReadable[p] + AllowTtl + 2 * RequestTime > now
                      /\ task[t].answer[p] = "denied" =>
                            \/ lastHidden[p] + DenialTtl + 2 * RequestTime > now
                            \/ syncDenied[p] + SyncDenialTtl + RequestTime > now
    BY DEF VerdictsAreRecent, WithheldByRequest, WithheldBySync
  <2>1. /\ task[t] \in Task /\ now \in Nat /\ task[t].at # "end" /\ p \in Projects
        /\ task[t].since \in Nat
    BY <1>1 DEF RaceInv, TasksOK, At, Acting, Task
  <2>2. /\ now <= task[t].since + RequestTime
        /\ lastReadable[p] \in Int /\ lastHidden[p] \in Int /\ syncDenied[p] \in Int
    BY <1>1, <2>1 DEF VerdictInv, VerdictTypes, InTime
  <2>3. AnswersKnown(task[t])
    BY <1>1 DEF VerdictInv
  <2>4. CASE task[t].answer[p] = "allowed"
    <3>1. lastReadable[p] + AllowTtl + RequestTime >= task[t].since + 1
      BY <2>1, <2>3, <2>4 DEF AnswersKnown
    <3> QED  BY <2>1, <2>2, <2>4, <3>1, Times
  <2>5. CASE task[t].answer[p] = "denied"
    <3>1. DenialAsOf(p, task[t].since + 1)
      BY <2>1, <2>3, <2>5 DEF AnswersKnown
    <3> QED  BY <2>1, <2>2, <2>5, <3>1, Times DEF DenialAsOf
  <2> QED  BY <2>4, <2>5
<1> QED
  BY RaceInit, RaceStep, VerdictInit, VerdictStep, <1>1, PTL DEF Spec


-----------------------------------------------------------------------------
(* The week                                                                *)

\* The hours of a day, and the days of a week.
LEMMA DayOf ==
    ASSUME NEW hour \in Int
    PROVE  /\ (hour \div Day) \in Int
           /\ (hour \div Day) * Day <= hour /\ hour < (hour \div Day) * Day + Day
  BY DEF Day

LEMMA WholeDays ==
    ASSUME NEW day \in Int
    PROVE  (day * Day) \div Day = day /\ (day * Day) % Day = 0
  BY DEF Day

\* The Monday at or before a day, days counted from one that is a Thursday.
LEMMA MondayBefore ==
    ASSUME NEW day \in Int
    PROVE  LET back == (((4 + day) % 7) + 6) % 7
           IN  back \in 0..6 /\ (4 + (day - back)) % 7 = 1
  OBVIOUS

LEMMA WeekStart ==
    ASSUME NEW hour \in Int
    PROVE  \E monday \in Int :
              /\ WeekOf(hour).start = monday * Day - Offset
              /\ WeekOf(hour).end = (monday + 7) * Day - Offset
              /\ (4 + monday) % 7 = 1
              /\ Within(hour, WeekOf(hour))
<1> DEFINE local == hour + Offset
           day == local \div Day
           back == (((4 + day) % 7) + 6) % 7
           monday == day - back
<1>1. /\ local \in Int /\ day \in Int /\ day * Day <= local /\ local < day * Day + Day
  BY DayOf DEF Offset
<1>2. back \in 0..6 /\ (4 + monday) % 7 = 1
  BY <1>1, MondayBefore
<1>3. /\ WeekOf(hour).start = monday * Day - Offset
      /\ WeekOf(hour).end = monday * Day - Offset + 7 * Day
  BY DEF WeekOf, WeekDay, Week
<1>4. hour = local - Offset
  BY DEF Offset
<1> HIDE DEF local, day, back
<1>5. monday \in Int
  BY <1>1, <1>2
<1>6. monday * Day <= local /\ local < (monday + 7) * Day
  BY <1>1, <1>2 DEF Day
<1> HIDE DEF monday
<1>7. monday * Day - Offset + 7 * Day = (monday + 7) * Day - Offset
  BY <1>5 DEF Day, Offset
<1>8. Within(hour, WeekOf(hour))
  BY <1>1, <1>3, <1>4, <1>5, <1>6, <1>7 DEF Within, Offset, Day
<1> QED BY <1>2, <1>3, <1>5, <1>7, <1>8

\* A week that begins on a Monday is the week of its own beginning.
LEMMA WeekOfMonday ==
    ASSUME NEW monday \in Int, (4 + monday) % 7 = 1
    PROVE  WeekOf(monday * Day - Offset).start = monday * Day - Offset
<1>1. (monday * Day - Offset) + Offset = monday * Day
  BY DEF Day, Offset
<1>2. (monday * Day) \div Day = monday
  BY WholeDays
<1>3. (((4 + monday) % 7) + 6) % 7 = 0
  OBVIOUS
<1>4. (monday - 0) * Day = monday * Day
  BY DEF Day
<1> QED BY <1>1, <1>2, <1>3, <1>4 DEF WeekOf, WeekDay

LEMMA WeekHolds ==
    ASSUME NEW hour \in Int
    PROVE  LET w == WeekOf(hour)
           IN  /\ Within(hour, w)
               /\ (w.start + Offset) % Day = 0 /\ WeekDay(w.start + Offset) = 1
               /\ WeekOf(w.end).start = w.end
<1>1. PICK monday \in Int : /\ WeekOf(hour).start = monday * Day - Offset
                            /\ WeekOf(hour).end = (monday + 7) * Day - Offset
                            /\ (4 + monday) % 7 = 1
                            /\ Within(hour, WeekOf(hour))
  BY WeekStart
<1>2. WeekOf(hour).start + Offset = monday * Day
  BY <1>1 DEF Day, Offset
<1>3. (monday * Day) \div Day = monday /\ (monday * Day) % Day = 0
  BY WholeDays
<1>4. WeekDay(WeekOf(hour).start + Offset) = 1
  BY <1>1, <1>2, <1>3 DEF WeekDay
<1>5. (monday + 7) \in Int /\ (4 + (monday + 7)) % 7 = 1
  BY <1>1
<1>6. WeekOf(WeekOf(hour).end).start = WeekOf(hour).end
  BY <1>1, <1>5, WeekOfMonday
<1> QED BY <1>1, <1>2, <1>3, <1>4, <1>6

\* At whatever moment a page opens a week, this holds the moment, begins on a
\* Monday at local midnight and ends where the next begins.
THEOREM WeeksOfPages == Spec => []WeeksPartition
<1>1. RaceInv => WeeksPartition
  <2>1. RaceInv => now \in Int
    BY DEF RaceInv, TasksOK
  <2> QED BY <2>1, WeekHolds DEF WeeksPartition
<1> QED BY RaceInit, RaceStep, <1>1, PTL DEF Spec


-----------------------------------------------------------------------------
(* Types of what the pages hold                                            *)

FlagTypes == /\ raced \subseteq Projects
             /\ active \in BOOLEAN /\ credential \in BOOLEAN /\ accepted \in BOOLEAN

PageTypes == /\ stored \subseteq Commits /\ IsFiniteSet(stored)
             /\ snapshots \subseteq Snapshot /\ IsFiniteSet(snapshots)
             /\ page \in [Tasks -> Page]

LEMMA FlagStep == RaceInv /\ FlagTypes /\ [Next]_vars => FlagTypes'
<1> SUFFICES ASSUME RaceInv, FlagTypes, [Next]_vars PROVE FlagTypes'
  OBVIOUS
<1>0. task \in [Tasks -> Task] /\ \A t \in Tasks : task[t].listed \subseteq Projects
  BY DEF RaceInv, TasksOK, Task
<1>1. ASSUME NEW t \in Tasks, AccessStep(t) PROVE FlagTypes'
  <2>1. accepted' = accepted
    BY <1>1 DEF AccessStep, gitlab
  <2>2. CASE UNCHANGED <<raced, active, credential>>
    BY <2>1, <2>2 DEF FlagTypes
  <2>3. CASE Revoke(t) \/ Mark(t)
    BY <2>1, <2>3 DEF Revoke, Mark, history, FlagTypes
  <2>4. CASE Remove(t)
    BY <1>0, <2>1, <2>4 DEF Remove, FlagTypes
  <2>5. CASE Resolve(t) /\ ~(Revoke(t) \/ Mark(t))
    BY <2>2, <2>5 DEF Resolve, Lookup, GetAccessToken, Probe, ProbeFails, ProbeRejected, Write, Clear,
                      tables, history
  <2>6. CASE \/ BeginList(t) \/ ReadAllowlist(t) \/ ReadEnables(t)
             \/ \E p \in Projects : BeginEnable(t, p) \/ BeginDisable(t, p) \/ BeginRemove(t, p)
             \/ FindConnection(t) \/ Upsert(t) \/ InvalidateUserProject(t)
    BY <2>2, <2>6 DEF BeginList, ReadAllowlist, ReadEnables, BeginEnable, BeginDisable, BeginRemove,
                      FindConnection, Upsert, InvalidateUserProject, tables, history
  <2> QED BY <1>1, <2>3, <2>4, <2>5, <2>6, Zenon DEF AccessStep
<1>2. ASSUME NEW t \in Tasks, PageStep(t) PROVE FlagTypes'
  BY <1>2 DEF PageStep, OpenWeek, Count, FindSnapshot, CreateSnapshot, Held, tables, gitlab, history,
              FlagTypes
<1>3. CASE AccessEnvironment
  BY <1>3 DEF AccessEnvironment, AddProject, ChangeMembership, SyncDenies, RevokePat, Tick,
              tables, gitlab, history, FlagTypes
<1>4. CASE (\E c \in Commits : StoreCommit(c)) \/ UNCHANGED vars
  BY <1>4 DEF StoreCommit, vars, accessVars, tables, gitlab, history, FlagTypes
<1> QED BY <1>1, <1>2, <1>3, <1>4 DEF Next

\* Metrics of finitely many commits are numbers.
LEMMA MetricsAreCounts ==
    ASSUME NEW commits, IsFiniteSet(commits), NEW moment
    PROVE  ReferenceMetrics(commits, moment) \in [MetricKeys -> Nat]
<1>1. ASSUME NEW S \in SUBSET commits
      PROVE  Cardinality({c.key : c \in S}) \in Nat
  <2>1. IsFiniteSet(S)
    BY FS_Subset
  <2> DEFINE K == {c.key : c \in S}
             key == [c \in S |-> c.key]
  <2>2. key \in Surjection(S, K)
    BY DEF Surjection
  <2>3. IsFiniteSet(K)
    BY <2>1, <2>2, FS_Surjection
  <2> QED BY <2>3, FS_CardinalityType
<1> DEFINE window == WeekOf(moment)
           inWindow == {c \in commits : Within(c.at, window)}
<1>2. CommitFrequency(commits, window) \in Nat
  BY <1>1 DEF CommitFrequency
<1>3. AiAssisted(inWindow) \in Nat
  <2>1. {d \in inWindow : d.kind = "ai"} \in SUBSET commits
    OBVIOUS
  <2> QED BY <1>1, <2>1 DEF AiAssisted
<1>4. ReferenceMetrics(commits, moment) = [commit_frequency |-> CommitFrequency(commits, window),
                                           ai_assisted_commits |-> AiAssisted(inWindow)]
  BY DEF ReferenceMetrics
<1> HIDE DEF window, inWindow
<1> QED BY <1>2, <1>3, <1>4 DEF MetricKeys


\* What a request becomes.
LEMMA Becomes ==
    ASSUME RaceInv, NEW t \in Tasks, NEW r, Become(t, r)
    PROVE  /\ task'[t].at = r.at
           /\ r.at # "end" => task'[t] = r
           /\ \A u \in Tasks \ {t} : task'[u] = task[u]
  BY IdleTask DEF Become, RaceInv, TasksOK

LEMMA GoesToLabel ==
    ASSUME RaceInv, NEW t \in Tasks, NEW label, Goto(t, label)
    PROVE  /\ task'[t].at = label
           /\ label # "end" => task'[t].listed = task[t].listed
           /\ \A u \in Tasks \ {t} : task'[u] = task[u]
<1> DEFINE r == [task[t] EXCEPT !.at = label]
<1>1. r.at = label /\ r.listed = task[t].listed
  BY DEF RaceInv, TasksOK, Task
<1>2. Become(t, r)
  BY DEF Goto
<1> HIDE DEF r
<1> QED BY <1>1, <1>2, Becomes

\* Each metric a page has to persist is of the kind known.
LEMMA NextMetricKnown == \A t : NextMetric(t) \in MetricKeys
  BY DEF NextMetric, MetricKeys

LEMMA ProceedOutcome ==
    ASSUME RaceInv, PageTypes, NEW t \in Tasks, Proceed(t)
    PROVE  /\ task'[t].at \in {"find", "end"}
           /\ \A u \in Tasks \ {t} : task'[u] = task[u] /\ page'[u] = page[u]
           /\ page' \in [Tasks -> Page]
<1>0. page \in [Tasks -> Page]
  BY DEF PageTypes
<1>1. CASE Goto(t, "end") /\ page' = [page EXCEPT ![t] = NoPage]
  <2>1. NoPage \in Page
    BY AccessAssumption DEF NoPage, Page
  <2> QED BY <1>0, <1>1, <2>1, GoesToLabel
<1>2. CASE Goto(t, "find") /\ page' = [page EXCEPT ![t].left = @ \ {NextMetric(t)}]
  <2>1. \A p \in Page : [p EXCEPT !.left = p.left \ {NextMetric(t)}] \in Page
    BY DEF Page
  <2>2. page' = [page EXCEPT ![t] = [page[t] EXCEPT !.left = page[t].left \ {NextMetric(t)}]]
    BY <1>0, <1>2
  <2>3. page' \in [Tasks -> Page]
    BY <1>0, <2>1, <2>2
  <2> QED BY <1>0, <1>2, <2>2, <2>3, GoesToLabel
<1> QED BY <1>1, <1>2 DEF Proceed

LEMMA PageTypesStep == RaceInv /\ PageTypes /\ [Next]_vars => PageTypes'
<1> SUFFICES ASSUME RaceInv, PageTypes, [Next]_vars PROVE PageTypes'
  OBVIOUS
<1>0. /\ stored \subseteq Commits /\ IsFiniteSet(stored)
      /\ snapshots \subseteq Snapshot /\ IsFiniteSet(snapshots)
      /\ page \in [Tasks -> Page] /\ now \in Int
  BY DEF PageTypes, RaceInv, TasksOK
<1>1. CASE UNCHANGED pageVars
  BY <1>1 DEF pageVars, PageTypes
<1>2. ASSUME NEW c \in Commits, StoreCommit(c) PROVE PageTypes'
  <2>1. IsFiniteSet(stored \cup {c})
    BY <1>0, FS_AddElement
  <2> QED BY <1>0, <1>2, <2>1 DEF StoreCommit, PageTypes
<1>3. ASSUME NEW t \in Tasks, OpenWeek(t) PROVE PageTypes'
  <2>1. WeekOf(now).start \in Int
    <3>1. PICK monday \in Int : WeekOf(now).start = monday * Day - Offset
      BY <1>0, WeekStart
    <3> QED BY <3>1 DEF Day, Offset
  <2> DEFINE start == IF Shown(t) = {} THEN page[t].window ELSE WeekOf(now).start
  <2>2. page' = [page EXCEPT ![t] = [page[t] EXCEPT !.window = start]]
    BY <1>0, <1>3 DEF OpenWeek
  <2>3. page[t] \in Page /\ start \in Int
    BY <1>0, <2>1 DEF Page
  <2> HIDE DEF start
  <2>4. [page[t] EXCEPT !.window = start] \in Page
    BY <2>3 DEF Page
  <2> QED BY <1>0, <1>3, <2>2, <2>4 DEF OpenWeek, PageTypes
<1>4. ASSUME NEW t \in Tasks, Count(t) PROVE PageTypes'
  <2> DEFINE read == {c \in stored : c.key[1] \in Listed(t) /\ Within(c.at, Window(t))}
             metrics == ReferenceMetrics(read, Window(t).end)
             new == [page[t] EXCEPT !.read = read, !.metrics = metrics, !.left = MetricKeys]
  <2>1. page' = [page EXCEPT ![t] = new]
    BY <1>0, <1>4 DEF Count
  <2>2. read \in SUBSET Commits /\ IsFiniteSet(read)
    BY <1>0, FS_Subset
  <2>3. metrics \in [MetricKeys -> Nat]
    BY <2>2, MetricsAreCounts
  <2> HIDE DEF read, metrics
  <2>4. new \in Page
    BY <1>0, <2>2, <2>3 DEF Page
  <2>5. UNCHANGED <<Held, stored, snapshots>>
    BY <1>4 DEF Count
  <2> HIDE DEF new
  <2> QED BY <1>0, <2>1, <2>4, <2>5 DEF PageTypes, Held
<1>5. ASSUME NEW t \in Tasks, FindSnapshot(t) PROVE PageTypes'
  <2>1. page' \in [Tasks -> Page]
    BY <1>0, <1>5, ProceedOutcome DEF FindSnapshot
  <2> QED BY <1>0, <1>5, <2>1 DEF FindSnapshot, PageTypes
<1>6. ASSUME NEW t \in Tasks, CreateSnapshot(t) PROVE PageTypes'
  <2> DEFINE k == NextMetric(t)
             found == {s \in snapshots : Describes(s, t, k)}
             new == [scope |-> Scope(t), metric |-> k, window |-> page[t].window,
                     value |-> page[t].metrics[k], copy |-> Cardinality(found)]
  <2>1. snapshots' = snapshots \cup {new} /\ Proceed(t) /\ UNCHANGED stored
    BY <1>6 DEF CreateSnapshot, AddSnapshot
  <2>2. Cardinality(found) \in Nat
    BY <1>0, FS_Subset, FS_CardinalityType
  <2>3. Listed(t) \in SUBSET Projects /\ Cardinality(Listed(t)) \in Nat
    BY AccessAssumption, FS_Subset, FS_CardinalityType DEF RaceInv, TasksOK, Task, Listed
  <2>4. Scope(t) \in [count : Nat, only : SUBSET Projects]
    BY <2>3 DEF Scope
  <2>5. k \in MetricKeys /\ page[t].window \in Int /\ page[t].metrics[k] \in Nat
    BY <1>0, NextMetricKnown DEF Page
  <2> HIDE DEF found, k
  <2>6. new \in Snapshot
    BY <2>2, <2>4, <2>5 DEF Snapshot
  <2> HIDE DEF new
  <2>7. snapshots' \subseteq Snapshot /\ IsFiniteSet(snapshots')
    BY <1>0, <2>1, <2>6, FS_AddElement
  <2> QED BY <1>0, <2>1, <2>7, ProceedOutcome DEF PageTypes
<1> QED BY <1>1, <1>2, <1>3, <1>4, <1>5, <1>6 DEF Next, PageStep, vars

LEMMA PageTypesInit == Init => PageTypes /\ FlagTypes
<1> SUFFICES ASSUME Init PROVE PageTypes /\ FlagTypes
  OBVIOUS
<1>1. NoPage \in Page
  BY AccessAssumption DEF NoPage, Page
<1> QED BY <1>1, FS_EmptySet DEF Init, AccessInit, PageTypes, FlagTypes

LEMMA TypesInvariant == Spec => [](RaceInv /\ VerdictInv /\ FlagTypes /\ PageTypes)
  BY RaceInit, RaceStep, VerdictInit, VerdictStep, PageTypesInit, FlagStep, PageTypesStep, PTL
     DEF Spec

\* Every row and request keeps its type; in particular no metric of a finite
\* set of commits, and no number of copies, is anything but a number.
THEOREM TypesHold == Spec => []TypeOK
<1>1. RaceInv /\ VerdictInv /\ FlagTypes /\ PageTypes => TypeOK
  BY DEF RaceInv, TasksOK, VerdictInv, VerdictTypes, FlagTypes, PageTypes, TypeOK, AccessTypeOK
<1> QED BY <1>1, TypesInvariant, PTL

-----------------------------------------------------------------------------
(* Copies of a snapshot                                                    *)

\* The snapshots of one metric, and the requests that found none and are about
\* to create one.
RowsOf(k) == {x \in snapshots : /\ x.scope = k.scope /\ x.metric = k.metric
                                /\ x.window = k.window}
Creators(k) == {t \in Tasks : task[t].at = "create" /\ Describes(k, t, NextMetric(t))}

CopiesInv ==
    \A k \in Snapshot : Cardinality(RowsOf(k)) + Cardinality(Creators(k)) <= Cardinality(Tasks)

\* A step that is not of the page does not lead to the creation of a snapshot.
LEMMA AccessNeverCounts ==
    ASSUME RaceInv, NEW t \in Tasks, AccessStep(t)
    PROVE  /\ task'[t].at \notin {"count", "create"}
           /\ \A u \in Tasks \ {t} : task'[u] = task[u]
<1>0. task[t] \in Task /\ task \in [Tasks -> Task]
  BY DEF RaceInv, TasksOK
<1>a. ASSUME NEW label, label \notin {"count", "create"}, Goto(t, label)
      PROVE  task'[t].at \notin {"count", "create"} /\ \A u \in Tasks \ {t} : task'[u] = task[u]
  BY <1>a, GoesToLabel
<1>b. ASSUME NEW kind, NEW label, NEW ps, label \notin {"count", "create"}, Begin(t, kind, label, ps)
      PROVE  task'[t].at \notin {"count", "create"} /\ \A u \in Tasks \ {t} : task'[u] = task[u]
  BY <1>0, <1>b, IdleTask DEF Begin, Task
<1>c. \A answer : Resolved(t, answer) \in {"shown", "upsert", "end"}
  BY DEF Resolved
<1>1. CASE Lookup(t)
  <2> DEFINE fresh == {p \in task[t].listed : IsFresh(p)}
             answer == [p \in Projects |->
                          IF p \notin fresh THEN "none"
                          ELSE IF cache[p].allowed THEN "allowed" ELSE "denied"]
             asked == task[t].listed \ fresh
             label == IF asked = {} THEN Resolved(t, answer) ELSE "token"
             r == [task[t] EXCEPT !.answer = answer, !.asked = asked, !.at = label]
  <2>1. Become(t, r)
    BY <1>1 DEF Lookup
  <2>2. label \notin {"count", "create"}
    BY <1>c
  <2> HIDE DEF answer, asked, label
  <2>3. r.at = label
    BY <1>0 DEF Task
  <2> HIDE DEF r
  <2> QED BY <2>1, <2>2, <2>3, Becomes
<1>2. CASE Write(t)
  <2>1. PICK asked, label :
          /\ Become(t, [task[t] EXCEPT !.asked = asked, !.at = label])
          /\ label \notin {"count", "create"}
    BY <1>0, <1>2, <1>c DEF Write, At
  <2> DEFINE r == [task[t] EXCEPT !.asked = asked, !.at = label]
  <2>2. r.at = label
    BY <1>0 DEF Task
  <2>3. Become(t, r)
    BY <2>1
  <2> HIDE DEF r
  <2> QED BY <2>1, <2>2, <2>3, Becomes
<1>3. CASE \E p \in Projects : Probe(t, p) \/ ProbeFails(t, p)
  <2>1. PICK p, verdict : Answered(t, p, verdict) /\ At(t, {"probe"})
    BY <1>3 DEF Probe, ProbeFails
  <2> QED BY <1>0, <2>1 DEF Answered, At, Task
<1>4. CASE ReadAllowlist(t)
  BY <1>0, <1>4 DEF ReadAllowlist, Task
<1>5. CASE ReadEnables(t)
  <2> DEFINE r == [task[t] EXCEPT !.enables = enabled,
                                  !.at = IF task[t].listed = {} THEN "end" ELSE "lookup"]
  <2>1. Become(t, r)
    BY <1>5 DEF ReadEnables
  <2>2. r.at \notin {"count", "create"}
    BY <1>0 DEF Task
  <2> HIDE DEF r
  <2> QED BY <2>1, <2>2, Becomes
<1>6. CASE \/ GetAccessToken(t) \/ ProbeRejected(t) \/ Revoke(t) \/ Mark(t) \/ Clear(t)
           \/ FindConnection(t) \/ Upsert(t) \/ InvalidateUserProject(t) \/ Remove(t)
  <2>1. PICK label : Goto(t, label) /\ label \notin {"count", "create"}
    BY <1>6 DEF GetAccessToken, ProbeRejected, Revoke, Mark, Clear, FindConnection, Upsert,
                InvalidateUserProject, Remove, Fail
  <2> QED BY <1>a, <2>1
<1>7. CASE \/ BeginList(t)
           \/ \E p \in Projects : BeginEnable(t, p) \/ BeginDisable(t, p) \/ BeginRemove(t, p)
  <2>1. CASE BeginList(t)
    BY <1>b, <2>1 DEF BeginList
  <2>2. ASSUME NEW p \in Projects, BeginEnable(t, p)
        PROVE  task'[t].at \notin {"count", "create"} /\ \A u \in Tasks \ {t} : task'[u] = task[u]
    BY <1>b, <2>2 DEF BeginEnable
  <2>3. ASSUME NEW p \in Projects, BeginDisable(t, p)
        PROVE  task'[t].at \notin {"count", "create"} /\ \A u \in Tasks \ {t} : task'[u] = task[u]
    BY <1>b, <2>3 DEF BeginDisable
  <2>4. ASSUME NEW p \in Projects, BeginRemove(t, p)
        PROVE  task'[t].at \notin {"count", "create"} /\ \A u \in Tasks \ {t} : task'[u] = task[u]
    BY <1>b, <2>4 DEF BeginRemove
  <2> QED BY <1>7, <2>1, <2>2, <2>3, <2>4
<1> QED BY <1>1, <1>2, <1>3, <1>4, <1>5, <1>6, <1>7, Zenon DEF AccessStep, Resolve

\* Counting of subsets of a finite set.
LEMMA FewerCount ==
    ASSUME NEW S, IsFiniteSet(S), NEW T \in SUBSET S
    PROVE  /\ IsFiniteSet(T) /\ Cardinality(T) \in Nat /\ Cardinality(S) \in Nat
           /\ Cardinality(T) <= Cardinality(S)
  BY FS_Subset, FS_CardinalityType

\* A step that adds no snapshot keeps the count when it leads no request to the
\* creation of one that exists.
LEMMA CopiesKept ==
    ASSUME PageTypes, CopiesInv, UNCHANGED snapshots,
           \A k \in Snapshot : Creators(k)' \subseteq Creators(k) \/ RowsOf(k) = {}
    PROVE  CopiesInv'
<1> SUFFICES ASSUME NEW k \in Snapshot
             PROVE  Cardinality(RowsOf(k)') + Cardinality(Creators(k)') <= Cardinality(Tasks)
  BY DEF CopiesInv
<1>1. RowsOf(k)' = RowsOf(k)
  BY DEF RowsOf
<1>2. IsFiniteSet(RowsOf(k)) /\ Cardinality(RowsOf(k)) \in Nat
  BY FewerCount DEF PageTypes, RowsOf
<1>3. /\ IsFiniteSet(Creators(k)) /\ Cardinality(Creators(k)) \in Nat
      /\ Cardinality(Creators(k)') \in Nat /\ Cardinality(Tasks) \in Nat
      /\ Cardinality(Creators(k)') <= Cardinality(Tasks)
  BY AccessAssumption, FewerCount DEF Creators
<1>4. Cardinality(RowsOf(k)) + Cardinality(Creators(k)) <= Cardinality(Tasks)
  BY DEF CopiesInv
<1>5. CASE Creators(k)' \subseteq Creators(k)
  <2>1. Cardinality(Creators(k)') <= Cardinality(Creators(k))
    BY <1>3, <1>5, FewerCount
  <2> QED BY <1>1, <1>2, <1>3, <1>4, <2>1
<1>6. CASE RowsOf(k) = {}
  <2>1. Cardinality(RowsOf(k)) = 0
    BY <1>6, FS_EmptySet
  <2> QED BY <1>1, <1>3, <2>1
<1> QED BY <1>5, <1>6

\* A page of one request does not change what another is about to create.
LEMMA OthersCreate ==
    ASSUME NEW t \in Tasks, NEW u \in Tasks \ {t}, NEW k, task'[u] = task[u], page'[u] = page[u]
    PROVE  u \in Creators(k)' <=> u \in Creators(k)
  BY DEF Creators, Describes, Scope, Listed, NextMetric

LEMMA CopiesStep == RaceInv /\ PageTypes /\ CopiesInv /\ [Next]_vars => CopiesInv'
<1> SUFFICES ASSUME RaceInv, PageTypes, CopiesInv, [Next]_vars PROVE CopiesInv'
  OBVIOUS
<1>0. page \in [Tasks -> Page] /\ task \in [Tasks -> Task]
  BY DEF PageTypes, RaceInv, TasksOK
\* A step of a request that is not about to create a snapshot afterwards.
<1>a. ASSUME NEW t \in Tasks, task'[t].at # "create", UNCHANGED snapshots,
             \A u \in Tasks \ {t} : task'[u] = task[u] /\ page'[u] = page[u]
      PROVE  CopiesInv'
  <2>1. \A k \in Snapshot : Creators(k)' \subseteq Creators(k)
    <3> SUFFICES ASSUME NEW k \in Snapshot, NEW u \in Creators(k)' PROVE u \in Creators(k)
      OBVIOUS
    <3>1. u \in Tasks \ {t}
      BY <1>a DEF Creators
    <3> QED BY <1>a, <3>1, OthersCreate
  <2> QED BY <1>a, <2>1, CopiesKept
<1>1. ASSUME NEW t \in Tasks, AccessStep(t), UNCHANGED pageVars PROVE CopiesInv'
  BY <1>1, <1>a, AccessNeverCounts DEF pageVars
<1>2. ASSUME NEW t \in Tasks, OpenWeek(t) PROVE CopiesInv'
  <2> DEFINE r == [task[t] EXCEPT !.listed = Shown(t), !.enables = {}, !.answer = Kept(t),
                                  !.at = IF Shown(t) = {} THEN "end" ELSE "count"]
  <2>1. Become(t, r)
    BY <1>2 DEF OpenWeek
  <2>2. r.at # "create"
    BY <1>0 DEF Task
  <2> HIDE DEF r
  <2>3. task'[t].at # "create" /\ \A u \in Tasks \ {t} : task'[u] = task[u]
    BY <2>1, <2>2, Becomes
  <2>4. snapshots' = snapshots /\ \A u \in Tasks \ {t} : page'[u] = page[u]
    BY <1>0, <1>2 DEF OpenWeek
  <2> QED BY <1>a, <2>3, <2>4
<1>3. ASSUME NEW t \in Tasks, Count(t) PROVE CopiesInv'
  <2>0. Goto(t, "find")
    BY <1>3 DEF Count
  <2>1. task'[t].at # "create" /\ \A u \in Tasks \ {t} : task'[u] = task[u]
    BY <2>0, GoesToLabel
  <2>2. snapshots' = snapshots /\ \A u \in Tasks \ {t} : page'[u] = page[u]
    BY <1>0, <1>3 DEF Count
  <2> QED BY <1>a, <2>1, <2>2
<1>4. ASSUME NEW t \in Tasks, FindSnapshot(t) PROVE CopiesInv'
  <2>0. snapshots' = snapshots
    BY <1>4 DEF FindSnapshot
  <2>1. CASE Proceed(t)
    BY <1>a, <2>0, <2>1, ProceedOutcome
  <2>2. CASE /\ ~\E s \in snapshots : Describes(s, t, NextMetric(t))
             /\ Goto(t, "create") /\ UNCHANGED page
    <3>1. /\ task'[t].listed = task[t].listed /\ page' = page
          /\ \A u \in Tasks \ {t} : task'[u] = task[u]
      BY <2>2, GoesToLabel
    <3>2. ASSUME NEW k \in Snapshot PROVE Creators(k)' \subseteq Creators(k) \/ RowsOf(k) = {}
      <4>1. CASE Describes(k, t, NextMetric(t))
        BY <2>2, <4>1 DEF RowsOf, Describes
      <4>2. CASE ~Describes(k, t, NextMetric(t))
        <5>1. ~Describes(k, t, NextMetric(t))'
          BY <3>1, <4>2 DEF Describes, Scope, Listed, NextMetric
        <5>2. t \notin Creators(k)'
          BY <5>1 DEF Creators
        <5> QED BY <3>1, <5>2, OthersCreate DEF Creators
      <4> QED BY <4>1, <4>2
    <3> QED BY <2>0, <3>2, CopiesKept
  <2> QED BY <1>4, <2>1, <2>2 DEF FindSnapshot
<1>5. ASSUME NEW t \in Tasks, CreateSnapshot(t) PROVE CopiesInv'
  <2> DEFINE new == [scope |-> Scope(t), metric |-> NextMetric(t), window |-> page[t].window,
                     value |-> page[t].metrics[NextMetric(t)],
                     copy |-> Cardinality({s \in snapshots : Describes(s, t, NextMetric(t))})]
  <2>1. /\ snapshots' = snapshots \cup {new}
        /\ new.scope = Scope(t) /\ new.metric = NextMetric(t) /\ new.window = page[t].window
    BY <1>5 DEF CreateSnapshot, AddSnapshot
  <2> HIDE DEF new
  <2>2. /\ task[t].at = "create" /\ task'[t].at # "create"
        /\ \A u \in Tasks \ {t} : task'[u] = task[u] /\ page'[u] = page[u]
    BY <1>5, ProceedOutcome DEF CreateSnapshot, At
  <2> SUFFICES ASSUME NEW k \in Snapshot
               PROVE  Cardinality(RowsOf(k)') + Cardinality(Creators(k)') <= Cardinality(Tasks)
    BY DEF CopiesInv
  <2>3. Cardinality(RowsOf(k)) + Cardinality(Creators(k)) <= Cardinality(Tasks)
    BY DEF CopiesInv
  <2>4. /\ IsFiniteSet(RowsOf(k)) /\ Cardinality(RowsOf(k)) \in Nat
        /\ IsFiniteSet(Creators(k)) /\ Cardinality(Creators(k)) \in Nat
        /\ Cardinality(Tasks) \in Nat
    BY AccessAssumption, FewerCount DEF PageTypes, RowsOf, Creators
  <2>5. Creators(k)' = Creators(k) \ {t}
    <3>1. t \notin Creators(k)'
      BY <2>2 DEF Creators
    <3>2. \A u \in Tasks \ {t} : u \in Creators(k)' <=> u \in Creators(k)
      BY <2>2, OthersCreate
    <3> QED BY <3>1, <3>2 DEF Creators
  <2>6. CASE Describes(k, t, NextMetric(t))
    <3>1. t \in Creators(k)
      BY <2>2, <2>6 DEF Creators
    <3>2. Cardinality(Creators(k)') = Cardinality(Creators(k)) - 1
      BY <2>4, <2>5, <3>1, FS_RemoveElement
    <3>3. RowsOf(k)' \subseteq RowsOf(k) \cup {new}
      BY <2>1 DEF RowsOf
    <3>a. /\ IsFiniteSet(RowsOf(k) \cup {new})
          /\ \/ Cardinality(RowsOf(k) \cup {new}) = Cardinality(RowsOf(k))
             \/ Cardinality(RowsOf(k) \cup {new}) = Cardinality(RowsOf(k)) + 1
      BY <2>4, FS_AddElement, Zenon
    <3>b. Cardinality(RowsOf(k) \cup {new}) \in Nat
      BY <3>a, FS_CardinalityType
    <3>4. /\ IsFiniteSet(RowsOf(k) \cup {new}) /\ Cardinality(RowsOf(k) \cup {new}) \in Nat
          /\ Cardinality(RowsOf(k) \cup {new}) <= Cardinality(RowsOf(k)) + 1
      BY <2>4, <3>a, <3>b
    <3>5. /\ Cardinality(RowsOf(k)') <= Cardinality(RowsOf(k) \cup {new})
          /\ Cardinality(RowsOf(k)') \in Nat
      BY <3>3, <3>4, FewerCount
    <3> QED BY <2>3, <2>4, <3>2, <3>4, <3>5
  <2>7. CASE ~Describes(k, t, NextMetric(t))
    <3>1. RowsOf(k)' = RowsOf(k)
      BY <2>1, <2>7 DEF RowsOf, Describes
    <3>2. Cardinality(Creators(k)') <= Cardinality(Creators(k)) /\ Cardinality(Creators(k)') \in Nat
      BY <2>4, <2>5, FewerCount
    <3> QED BY <2>3, <2>4, <3>1, <3>2
  <2> QED BY <2>6, <2>7
<1>6. CASE UNCHANGED <<task, page, snapshots>>
  <2>1. \A k \in Snapshot : Creators(k)' \subseteq Creators(k)
    BY <1>6 DEF Creators, Describes, Scope, Listed, NextMetric
  <2> QED BY <1>6, <2>1, CopiesKept
<1>7. AccessEnvironment /\ UNCHANGED pageVars => UNCHANGED <<task, page, snapshots>>
  BY DEF AccessEnvironment, AddProject, ChangeMembership, SyncDenies, RevokePat, Tick, pageVars
<1>8. (\E c \in Commits : StoreCommit(c)) \/ UNCHANGED vars => UNCHANGED <<task, page, snapshots>>
  BY DEF StoreCommit, vars, accessVars, pageVars
<1> QED BY <1>1, <1>2, <1>3, <1>4, <1>5, <1>6, <1>7, <1>8 DEF Next, PageStep

\* Of each metric, scope and week there are never more snapshots than pages
\* loaded at once: a page creates one only when it has found none, and whoever
\* is about to create one beside it looked before the first was there.
THEOREM SnapshotsBounded == Spec => []NoMoreSnapshotsThanPages
<1>1. Init => CopiesInv
  <2> SUFFICES ASSUME Init, NEW k \in Snapshot
               PROVE  Cardinality(RowsOf(k)) + Cardinality(Creators(k)) <= Cardinality(Tasks)
    BY DEF CopiesInv
  <2>1. RowsOf(k) = {} /\ Creators(k) = {}
    BY IdleTask DEF Init, AccessInit, RowsOf, Creators
  <2>2. Cardinality({}) = 0 /\ Cardinality(Tasks) \in Nat
    BY AccessAssumption, FS_EmptySet, FS_CardinalityType
  <2> QED BY <2>1, <2>2
<1>2. PageTypes /\ CopiesInv => NoMoreSnapshotsThanPages
  <2> SUFFICES ASSUME PageTypes, CopiesInv, NEW s \in snapshots
               PROVE  Cardinality(RowsOf(s)) <= Cardinality(Tasks)
    BY DEF NoMoreSnapshotsThanPages, RowsOf
  <2>1. s \in Snapshot
    BY DEF PageTypes
  <2>2. Cardinality(RowsOf(s)) + Cardinality(Creators(s)) <= Cardinality(Tasks)
    BY <2>1 DEF CopiesInv
  <2>3. Cardinality(RowsOf(s)) \in Nat /\ Cardinality(Creators(s)) \in Nat /\ Cardinality(Tasks) \in Nat
    BY AccessAssumption, FewerCount DEF PageTypes, RowsOf, Creators
  <2> QED BY <2>2, <2>3
<1> QED BY <1>1, <1>2, TypesInvariant, CopiesStep, PTL DEF Spec
-----------------------------------------------------------------------------
(* What the metrics of a page count                                        *)

\* The metrics of every page are nothing, and so is every snapshot of them.
PagesCountNothing ==
    /\ \A t \in Tasks, k \in MetricKeys : page[t].metrics[k] = 0
    /\ \A s \in snapshots : s.value = 0

WeekInv ==
    /\ PagesCountNothing
    /\ \A t \in Tasks : task[t].at = "count" => \E h \in Int : page[t].window = WeekOf(h).start

\* Commits of one week have no metrics at the end of it.
LEMMA NothingAtTheEnd ==
    ASSUME NEW h \in Int, NEW commits,
           \A c \in commits : c.at \in Int /\ Within(c.at, WeekOf(h)), NEW k \in MetricKeys
    PROVE  ReferenceMetrics(commits, WeekOf(h).end)[k] = 0
<1> DEFINE end == WeekOf(h).end
           next == WeekOf(end)
           inWindow == {c \in commits : Within(c.at, next)}
<1>1. end \in Int /\ next.start = end
  <2>1. PICK monday \in Int : WeekOf(h).end = (monday + 7) * Day - Offset
    BY WeekStart
  <2> QED BY <2>1, WeekHolds DEF Day, Offset
<1>2. \A c \in commits : ~Within(c.at, next)
  BY <1>1 DEF Within
<1>3. {d \in commits : Within(d.at, next) /\ ~IsExcluded(d)} = {} /\ inWindow = {}
  BY <1>2
<1>4. Cardinality({}) = 0
  BY FS_EmptySet
<1>5. CommitFrequency(commits, next) = 0
  <2>1. {c.key : c \in {d \in commits : Within(d.at, next) /\ ~IsExcluded(d)}} = {}
    BY <1>3
  <2> QED BY <1>4, <2>1 DEF CommitFrequency
<1>6. AiAssisted(inWindow) = 0
  <2>1. {c.key : c \in {d \in inWindow : d.kind = "ai"}} = {}
    BY <1>3
  <2> QED BY <1>4, <2>1 DEF AiAssisted
<1>7. ReferenceMetrics(commits, end) = [commit_frequency |-> CommitFrequency(commits, next),
                                        ai_assisted_commits |-> AiAssisted(inWindow)]
  BY DEF ReferenceMetrics
<1> HIDE DEF next, inWindow
<1> QED BY <1>5, <1>6, <1>7 DEF MetricKeys

LEMMA WeekStep == RaceInv /\ PageTypes /\ WeekInv /\ [Next]_vars => WeekInv'
<1> SUFFICES ASSUME RaceInv, PageTypes, WeekInv, [Next]_vars PROVE WeekInv'
  OBVIOUS
<1>0. /\ stored \subseteq Commits /\ page \in [Tasks -> Page] /\ now \in Int
      /\ PagesCountNothing
      /\ \A u \in Tasks : task[u].at = "count" => \E h \in Int : page[u].window = WeekOf(h).start
  BY DEF PageTypes, RaceInv, TasksOK, WeekInv
<1>1. CASE UNCHANGED pageVars /\ \A u \in Tasks : task'[u] = task[u] \/ task'[u].at # "count"
  BY <1>0, <1>1 DEF WeekInv, PagesCountNothing, pageVars
<1>2. ASSUME NEW t \in Tasks, AccessStep(t), UNCHANGED pageVars PROVE WeekInv'
  BY <1>1, <1>2, AccessNeverCounts
<1>3. CASE AccessEnvironment /\ UNCHANGED pageVars
  <2>1. UNCHANGED task
    BY <1>3 DEF AccessEnvironment, AddProject, ChangeMembership, SyncDenies, RevokePat, Tick
  <2> QED BY <1>1, <1>3, <2>1
<1>4. CASE (\E c \in Commits : StoreCommit(c)) \/ UNCHANGED vars
  <2>1. UNCHANGED <<task, page, snapshots>>
    BY <1>4 DEF StoreCommit, vars, accessVars, pageVars
  <2> QED BY <1>0, <2>1 DEF WeekInv, PagesCountNothing
<1>5. ASSUME NEW t \in Tasks, OpenWeek(t) PROVE WeekInv'
  <2> DEFINE r == [task[t] EXCEPT !.listed = Shown(t), !.enables = {}, !.answer = Kept(t),
                                  !.at = IF Shown(t) = {} THEN "end" ELSE "count"]
             start == IF Shown(t) = {} THEN page[t].window ELSE WeekOf(now).start
  <2>1. Become(t, r) /\ UNCHANGED snapshots
    BY <1>5 DEF OpenWeek
  <2>2. r.at = IF Shown(t) = {} THEN "end" ELSE "count"
    BY DEF RaceInv, TasksOK, Task
  <2>3. page' = [page EXCEPT ![t] = [page[t] EXCEPT !.window = start]]
    BY <1>0, <1>5 DEF OpenWeek
  <2>4. page'[t].window = start /\ page'[t].metrics = page[t].metrics
    BY <1>0, <2>3 DEF Page
  <2>5. \A u \in Tasks \ {t} : page'[u] = page[u]
    BY <1>0, <2>3
  <2> HIDE DEF r
  <2>6. /\ task'[t].at = "count" => Shown(t) # {}
        /\ \A u \in Tasks \ {t} : task'[u] = task[u]
    BY <2>1, <2>2, Becomes
  <2>7. task'[t].at = "count" => \E h \in Int : page'[t].window = WeekOf(h).start
    BY <1>0, <2>4, <2>6
  <2> HIDE DEF start
  <2> QED BY <1>0, <2>1, <2>4, <2>5, <2>6, <2>7 DEF WeekInv, PagesCountNothing
<1>6. ASSUME NEW t \in Tasks, Count(t) PROVE WeekInv'
  <2> DEFINE read == {c \in stored : c.key[1] \in Listed(t) /\ Within(c.at, Window(t))}
             metrics == ReferenceMetrics(read, Window(t).end)
             new == [page[t] EXCEPT !.read = read, !.metrics = metrics, !.left = MetricKeys]
  <2>1. PICK h \in Int : page[t].window = WeekOf(h).start
    BY <1>0, <1>6 DEF Count, At
  <2>2. WeekOf(h).end = WeekOf(h).start + Week
    BY DEF WeekOf
  <2>3. Window(t).start = WeekOf(h).start /\ Window(t).end = WeekOf(h).end
    BY <2>1, <2>2 DEF Window
  <2>4. \A c \in read : c.at \in Int /\ Within(c.at, WeekOf(h))
    BY <1>0, <2>3, CommitsAssumption DEF Within
  <2>5. ASSUME NEW k \in MetricKeys PROVE metrics[k] = 0
    <3> HIDE DEF read
    <3> QED BY <2>3, <2>4, NothingAtTheEnd
  <2>6. page' = [page EXCEPT ![t] = new] /\ UNCHANGED snapshots /\ Goto(t, "find")
    BY <1>0, <1>6 DEF Count
  <2> HIDE DEF read, metrics
  <2>7. new.metrics = metrics
    BY <1>0 DEF Page
  <2> HIDE DEF new
  <2>8. page'[t] = new /\ \A u \in Tasks \ {t} : page'[u] = page[u]
    BY <1>0, <2>6
  <2>9. task'[t].at # "count" /\ \A u \in Tasks \ {t} : task'[u] = task[u]
    BY <2>6, GoesToLabel
  <2> QED BY <1>0, <2>5, <2>6, <2>7, <2>8, <2>9 DEF WeekInv, PagesCountNothing
<1>7. ASSUME NEW t \in Tasks, Proceed(t)
      PROVE  /\ task'[t].at # "count" /\ \A u \in Tasks \ {t} : task'[u] = task[u]
             /\ \A u \in Tasks \ {t} : page'[u] = page[u]
             /\ \A k \in MetricKeys : page'[t].metrics[k] = 0
  <2>1. \A k \in MetricKeys : page'[t].metrics[k] = 0
    <3>1. CASE page' = [page EXCEPT ![t] = NoPage]
      BY <1>0, <3>1 DEF NoPage
    <3>2. CASE page' = [page EXCEPT ![t].left = @ \ {NextMetric(t)}]
      BY <1>0, <3>2 DEF Page, PagesCountNothing
    <3> QED BY <1>7, <3>1, <3>2 DEF Proceed
  <2> QED BY <1>7, <2>1, ProceedOutcome
<1>8. ASSUME NEW t \in Tasks, FindSnapshot(t) PROVE WeekInv'
  <2>1. CASE Proceed(t)
    BY <1>0, <1>7, <1>8, <2>1 DEF FindSnapshot, WeekInv, PagesCountNothing
  <2>2. CASE Goto(t, "create") /\ UNCHANGED page
    BY <1>0, <1>8, <2>2, GoesToLabel DEF FindSnapshot, WeekInv, PagesCountNothing
  <2> QED BY <1>8, <2>1, <2>2 DEF FindSnapshot
<1>9. ASSUME NEW t \in Tasks, CreateSnapshot(t) PROVE WeekInv'
  <2> DEFINE k == NextMetric(t)
             copy == Cardinality({s \in snapshots : Describes(s, t, k)})
             new == [scope |-> Scope(t), metric |-> k, window |-> page[t].window,
                     value |-> page[t].metrics[k], copy |-> copy]
  <2>1. snapshots' = snapshots \cup {new} /\ Proceed(t)
    BY <1>9 DEF CreateSnapshot, AddSnapshot
  <2>2. new.value = 0
    BY <1>0, NextMetricKnown DEF PagesCountNothing
  <2> HIDE DEF new
  <2> QED BY <1>0, <1>7, <2>1, <2>2 DEF WeekInv, PagesCountNothing
<1> QED BY <1>2, <1>3, <1>4, <1>5, <1>6, <1>8, <1>9 DEF Next, PageStep

\* However many commits of the week a page has read, and whenever it was opened,
\* its metrics are zero, and so are the snapshots that keep them: query hands the
\* end of its window to calculateReferenceMetrics as the present, and that is the
\* beginning of the next week.
THEOREM MetricsOfTheNextWeek == Spec => []PagesCountNothing
<1>1. Init => WeekInv
  BY IdleTask DEF Init, AccessInit, NoPage, WeekInv, PagesCountNothing
<1>2. WeekInv => PagesCountNothing
  BY DEF WeekInv
<1> QED BY <1>1, <1>2, TypesInvariant, WeekStep, PTL DEF Spec
=============================================================================

# ReviewPulse in TLA+

ReviewPulse mirrors commits and merge requests of allowlisted GitLab projects
into PostgreSQL and shows each user what that user may see. This directory
models the program, checks it with TLC and proves part of it with TLAPS. Every
definition follows the code; `PROJECT.json` ("map") names the lines.

## The system

| component | source | state | operations |
| --- | --- | --- | --- |
| job queue | `packages/domain/src/job-queue.ts` | `sync_jobs` | enqueue, claim, complete, fail, reschedule, syncBlocked, heartbeat, recoverStaleClaims |
| scheduler | `packages/domain/src/sync-scheduler.ts` | reads enables, users, connections, allowlist; inserts jobs | schedule, scheduleTarget |
| worker loop | `apps/worker/src` | the iteration's locals: job, lease flag, heartbeat in flight | runWorkerIteration, runWorkerLoop, heartbeat timer |
| commit synchronisation | `sync-orchestrator.ts` (`#syncCommits`, `PrismaSyncPersistence`) | `commit_sync_states`, `commit_caches` | list branches, open or resume a window, drain pages, advance, pause, complete |
| merge request synchronisation | `sync-orchestrator.ts` (`#syncMergeRequests`) | `mr_sync_states`, `merge_request_caches` | begin, fetch a page, upsert, complete |
| candidate loop | `sync-orchestrator.ts` (`syncProject`) | connections, credentials, membership cache | try each user's credential; handle 401, 403, 404 |
| allowlist administration | `allowlist-admin.ts` | instance and project allowlists | add and remove; removal also clears enables and cache and blocks jobs |
| connections and credentials | `gitlab-connection.ts`, `packages/credentials` | `gitlab_connections`, `user_credentials` | test, save, delete, retest; store, replace, read, invalidate |
| project access, membership cache | `project-access.ts`, `membership-cache.ts` | `user_project_enables`, `membership_caches` | list, enable, disable, authorise; look up, write, invalidate |
| dashboard and metrics | `dashboard-query.ts`, `metrics/` | `metric_snapshots` | query, append snapshots |
| authentication | `packages/app-auth` | users, sessions, IP buckets | login, lockout, validate, revoke, deactivate, reset |
| GitLab client | `packages/gitlab-client` | none beyond a request | attempts with back-off and deadline, page loop, egress guard |
| encryption, database, web | `packages/crypto`, `packages/db`, `apps/web` | configuration | sealing, environment, routes and pages |

Workers are separate processes that share only the database. A worker
recovers expired claims, schedules what is due, claims one job, runs the
orchestrator on its project while a timer renews the claim, and settles the
job. Administrators and users change what is to be synchronised through the
web application, and GitLab changes under the synchronisation all the time.

What is hard: check-then-insert without a unique index; claims that expire
under a live worker, heartbeats and settle calls that land late, fail, or take
effect without an answer; processes that die anywhere and come back under the
same name; windows of dates that outlive the run that opened them; lists that
shift between two pages; and, in the web half, statuses read before a call to
GitLab and written after it. `PROJECT.json` ("hazards") lists these at their
lines, with the property that watches each or the reason none does.

What makes each part correct:

- queue, scheduler, workers: one active job per project; a fresh lease is a
  real one; ended jobs stay ended; attempts add up; claims end; targets are
  synchronised, one interval apart;
- commits: what lies below the watermark is in the cache, the cursor passes
  drained branches only, windows close, pushed commits arrive;
- merge requests: what lies below the cursor is in the cache as it last was,
  but for what slipped to a page already read;
- connections: an active connection has an active credential, a verdict about
  one credential hits no other, a deleted connection stays deleted;
- access: nobody is shown a project longer than the cache's time to live after
  access was lost, nor denied it longer than a cached denial lasts after access is
  back; a removed project leaves no enable behind;
- dashboard: its metrics count the week it shows, and are kept once;
- authentication: revoked sessions stay revoked, a deactivated user gets
  nowhere, failures are counted and bounded per address;
- GitLab client: a call keeps its total time, an aborted one goes quiet, the
  page loop ends, and the guard judges an address whatever its spelling.

## Modules

| module | what it is |
| --- | --- |
| `JobQueue` | the `sync_jobs` table and each statement on it, as operators |
| `SyncWorkers` | the worker processes and the people around them: who issues these statements and when |
| `ProjectLease` | abstract specification: per project idle, queued or held under a lease |
| `MCSyncWorkers` | small instances of `SyncWorkers` |
| `SyncWorkersProofs` | theorems about `SyncWorkers` |
| `LeaseProofs` | the proof that `SyncWorkers` implements `ProjectLease` |
| `Paging` | what GitLab's list endpoints return page by page |
| `CommitSync` | `#syncCommits` over a repository that people push to |
| `LateCommitSync` | the same with runs that outlive their claim |
| `MCCommitSync`, `CommitSyncProofs` | small instances of both, and theorems about `CommitSync` |
| `MrSync` | `#syncMergeRequests` while people update merge requests |
| `ProjectSync` | a run of `syncProject`: `CommitSync`, and then `MrSync` |
| `MCProjectSync`, `MrSyncProofs` | a small instance of `ProjectSync`, and theorems about it and `MrSync` |
| `Credentials` | the tables `gitlab_connections`, `user_credentials` and `membership_caches` and the statements on them |
| `Connections` | the requests and synchronisations that issue these statements |
| `MCConnections`, `ConnectionsProofs` | small instances of `Connections`, and theorems about it |
| `AuthSessions` | the tables `users` and `sessions`, the counters of failed logins, and the requests on them |
| `MCAuthSessions`, `AuthSessionsProofs` | a small instance of it, and theorems |
| `Addresses` | reading and classifying written IP addresses |
| `GitLabHttp` | one call after another of `requestJson`, the egress guard before each attempt, the page loop around them |
| `MCGitLabHttp`, `GitLabHttpProofs` | a small instance, and theorems |
| `ProjectAccess` | allowlist, enables, membership cache and the requests that read and write them |
| `Metrics` | weeks and metrics, as operators |
| `Dashboard` | `ProjectAccess` composed with the page of the dashboard, its snapshots and the commits stored meanwhile |
| `MCDashboard`, `DashboardProofs` | small instances of `Dashboard`, and theorems about it |

`SyncWorkers` and `ProjectLease` are tied by a refinement; `LateCommitSync`
extends `CommitSync`, `Dashboard` extends `ProjectAccess`, `ProjectSync` extends
`MrSync` and composes it with an instance of `CommitSync`, `Connections` and
`SyncWorkers` are built over the tables of `Credentials` and `JobQueue`. In
several modules a definition is preceded by a broken variant of it (marked
"mutant", or explained in the module's header); nothing but the mutants of
`PROJECT.json` uses these.

### JobQueue and SyncWorkers

A row of `sync_jobs` is a record of the columns the program branches on. One SQL
statement is one step. `enqueue` and `scheduleTarget` are two statements in a
transaction, so they are two steps (`BeginInsert`, `InsertJob`) under the
advisory lock of their project (`inserting`). `schedule` reads enables and
allowlist in two parallel queries, which are two steps in either order. A
worker's `pc` says which await it is at. The heartbeat (`beat`) is a statement in
flight that may land at any time, after the iteration that sent it is over
too, and may fail with or without its effect, as may the settle calls
(`SettleErrs`). `Crash` stands for signals and for the queue calls whose
rejection ends `main`. A worker restarts under the same `workerId`, which is
host and pid and may repeat.

Abstractions: users, connections and enables are one set `enabled` of
projects an active user with an active connection has enabled; `enable` may add
a project at any time, because the allowlist check it made earlier may be
stale. Nothing in the program calls `enqueue` yet but tests; the model lets
clients call it. One clock is read by all processes and the database.
Time is not a cost: `iterationNow` may be arbitrarily old when it is used.
`runAfter` and `updatedAt` are kept for the rows whose value is read.

### CommitSync and LateCommitSync

The row of `commit_sync_states` is `row`; `pc` and the other locals are those of
a run of `#syncCommits`, one await after another. Fetching a page and upserting
its commits is one step: the upserts are keyed by SHA and the cursor moves only
later, so a part of a page is no more than the page not fetched.
`Stop` ends a run anywhere: an error, a crash, an abort, or a candidate whose
credential turns out bad, after which the next candidate starts anew.
GitLab is `branches`, `pushed` and `reach`: people push commits with dates of
their own (at most `MaxLag` behind and `MaxAhead` ahead of the clock), merge them to other
branches, and, with `Rewrites`, force-push and delete. `Orders` lets the sorted
names come in any order, which covers every naming of branches that appear
later.

Two assumptions of the code are explicit. `MaxLag + ListTime <= Overlap`
(`SyncAssumption`): a commit is dated at most the overlap, less the time the
branch listing takes, before its push; with an equality broken by one TLC
finds commits missed, so this is exactly what `COMMIT_LOOKBACK_OVERLAP_SECONDS`
(15 minutes) buys, and a commit made offline and pushed later than that is
outside what the code promises. And runs follow one another, which
`LateCommitSync` gives up: there a claim may be lost under a running executor.

Left out: the cursor format older than the snapshot (`lowerBound`) and the
repeated-cursor check (the modelled server never repeats one). The
candidate loop around it is in `Connections`.

### MrSync

One run after another. A page is fetched in one step and upserted in a
later one, so that GitLab may change in between; `Stop` upserts any part of it.
Pages are asked for by number, and the list is in order of `updated_at`: an
`Update` moves its merge request to the end and those behind it a place up. A
page is all the code remembers of where it is, so whatever moves over the edge of
a page already read is not seen again in this run, and its `updated_at` is below
the cursor that the run leaves. The history variable `slipped` keeps these:
`CursorCovers` says that nothing else is missing, `UpdatesArrive` that
nothing else stays missing, and `NothingSkipped` is what the documents promise
(see the disagreements below).

### ProjectSync

`syncProject` with one candidate after another: `half` says whether the run is in
`#syncCommits` or in `#syncMergeRequests`, which follows only where the window
of the commits is complete. `CommitStep` and `MrStep` are the steps of the two
halves, which share the clock. `RunStops` is every end of a run but pausing or
completing; the next run, or the next candidate of the same one, begins with the
commits again. GitLab's half is `People` of `CommitSync` and `Update` of
`MrSync`.

### Credentials and Connections

One instance, one project, which all users have enabled. `req` holds what each
request of the web application and each synchronisation knows; between any two
of their statements and probes of GitLab others take theirs. `saveConnection` is `Save...`,
`deleteConnection` is `Delete...`, `retestStored` is `BeginRetest`, `ReadToken`,
`Probe` and `RetestConfirm`; `resolveVisibility` is a visit; the loop of
`syncProject` is `SyncNext`, which turns to the next candidate, and `SyncDone`.
What follows a 401 (`Invalidate`, `Mark`, `Clear`), a 403 or a 404 (`Deny`) is
shared: three copies of it in the code differ only in that a synchronisation
marks active connections and the others any (`Marks`). Statements that an index refuses
end the request, as the exception does. `Abandon` is every other error, and
the end of the process.

A PAT opens one account for good; GitLab may revoke it (`valid`) and change who
may read the project (`members`). An entry of the membership cache is kept as
the account it was learned with: which way it decides is in no guard here but
in `ProjectAccess`. Times to live are `Expire`, at any moment. Two history
variables carry what properties compare with: whether requests overlapped or
stopped half done, and which credentials were good throughout a
synchronisation.

### AuthSessions

`req` holds each request: login, visit, logout, "revoke all", creation,
deactivation and reset of a user. All begin with `Validate` on the session of
their cookie (`validateToken`), which reads the row and judges it at one
moment; the touch of `lastSeen` and the end of an idle session are later
statements (`Touch`, `ExpireIdle`). A login goes through `IpAllowed`, `Find`,
`Verify` (the hash is an await, and the address's counter is raised right
after it, without one), `ReadFailures` and `CountFailure` (the read and the
write of `recordFailure`), or `Succeed`, `Rotate` and `OpenSession`. The address
counters (`bucket`) are the process's own and lost with it (`Restart`); `Fail`
ends a request at any step.

`Latency` bounds the time between reading the clock and writing what was read.
The history variables are the last use of each session, the wrong passwords since
the last right one, and `disturbed`: whether requests overlapped or one
stopped half done. `FailuresAreCounted`, `SessionsFitUsers` and
`SomeAdminRemains` are stated for undisturbed behaviours, because overlapping
requests do break them: two failures at once are counted once, a login that
verified its password before a reset or a deactivation opens a session after
it, two administrators deactivate each other. What then still holds is
`DeactivatedGetNowhere`, `FailuresPerWindow`, `RevokedIsFinal` and
`IdleCountsFromUse`, which are stated for all.

### GitLabHttp and Addresses

`call` is one `requestJson`: `begin` (the signal and the deadline are looked
at), `check` (`ssrf.check` and `getCredential` are awaited), `send` (timer and
listener are set, the request is out), `sleep` (back-off or `Retry-After`),
`over`. `drain` is `drainPages` over such calls. The clock is the time since
the call began. `Tick` never passes a due timer of an attempt, a wait may last
`TimerLag` longer, and the guard and the credential end within `CheckTime`,
which nothing in the code enforces: `TotalTimeHolds` says what the total time is
worth with that. GitLab's answers are statuses, bodies that can be read, cannot or
are too large, any next link, or nothing at all.

`Addresses` reads an address by its numbers (`Text`): octets, groups on both sides of
`::`, a dotted tail. The answers a resolver may give are lists of these
(`AnswersAssumption`), well formed or not. Hexadecimal digits, leading zeros and brackets are left out.
`Respelled` gives other spellings of an address, and the guard is asked for lists
of them in any order.

### ProjectAccess, Metrics and Dashboard

One user with one connection; `task` holds the user's requests and an
administrator's removals. `resolveVisibility` is `Lookup`, `GetAccessToken`,
`Probe` / `ProbeFails` / `ProbeRejected`, `Write` (the answers are cached one by
one, once the slowest has come) or `Revoke`, `Mark`, `Clear` after a 401. Around it:
`listForUser` (`BeginList`, `ReadAllowlist`, `ReadEnables`), `enable`
(`BeginEnable`, `FindConnection`, `Upsert`), `disable` (`BeginDisable`,
`InvalidateUserProject`), `addProject`, `removeProject` (`Remove` is its
transaction), and `SyncDenies`, the denial that a synchronisation caches.
The listing of the settings page and that of the dashboard are the same call; the
dashboard goes on with `OpenWeek`, `Count`, `FindSnapshot` and `CreateSnapshot`.

Time counts in hours of the dashboard's weeks. `RequestTime` bounds a request:
the model has no other reason for a verdict to be used soon after it was read,
and neither has the code but the time-outs of `GitLabHttp`. The clock of the instances
starts two hours before a Monday's local midnight, so that pages see a
week end. `weekWindowAsiaHoChiMinh` is `WeekOf`, checked against its definition
(`WeeksPartition`) at every moment at which a page uses it. History variables
say when each project was last readable and last hidden, when a synchronisation
last cached a denial of it, and which projects were removed while an enable was
under way. A denial is a request's own (`WithheldByRequest`) or a
synchronisation's (`WithheldBySync`), each with its own time to live:
`VerdictsAreRecent` says that there is no third kind, `DenialsAreBrief`, which the
code breaks, that the first is the only one.

## Runs

| run | bounds | shows |
| --- | --- | --- |
| `queue_safety` | 2 workers, 1 project, 2 jobs, 2 attempts, stale limit 1, clock 0..2 | `TypeOK`, `AtMostOneActiveJob`, `LeaseHolds`, `NoDoubleSync`, `TerminalIsFinal`, `SyncsAreSpaced`, and `ImplementsLease`: the detailed system implements `ProjectLease` |
| `queue_liveness` | 1 worker, 1 enqueue caller, 2 jobs, clock 0..2 | `AttemptBudget`, `ClaimsEnd`, `TargetsAreSynced` |
| `commit_windows` | 2 branches, 2 commits, page size 1, overlap 2, clock 0..3, deletions and forced pushes between two runs | `TypeOK`, `NothingMissed`, `CursorPassesDrained` |
| `project_sync` | 2 branches, 1 commit, overlap 1, deletions and forced pushes, 2 merge requests on pages of one, clock 0..2 | `CursorCovers`; `WindowsClose`, `CommitsArrive`, `UpdatesArrive` |
| `connections` | 2 users, 2 accounts with a PAT each, 2 connections, 2 credentials, one request beside one synchronisation | `GoodCandidateFound`, `EndedCredentialsAreFinal`; `TablesAgree` as long as requests come one by one |
| `auth` | 2 users, 2 passwords, 2 sessions, 2 requests, lock after 2 failures, clock 0..3 | `TypeOK`, `IdleCountsFromUse`, `DeactivatedGetNowhere`, `FailuresPerWindow`, `RevokedIsFinal`; `FailuresAreCounted`, `SessionsFitUsers` and `SomeAdminRemains` undisturbed |
| `http` | 3 attempts of time 2 within a total of 4, 3 pages, 2 items, answers of a resolver that mix spellings and categories | `TypeOK`, `TotalTimeHolds`, `AbortLeavesOneRequest`, `LastErrorIsTold`, `EveryPageOnce`, `NeitherSpellingNorOrderMatters`, `DrainEnds` |
| `access` | 2 projects, 2 requests, 1 commit, a time to live of one hour, two for a synchronisation's denial, clock 256..259 | `TypeOK`, `VerdictsAreRecent`, `StrandedOnlyByRace`, `NoMoreSnapshotsThanPages`, `WeeksPartition` |
| `late_executor` | 2 executors, 2 branches, 2 commits, one page, overlap 1, clock 0..2 | `NothingLost` is violated |
| `stale_verdict` | as `connections` | `OnlyRejectedInvalidated` is violated |
| `mr_pages` | 2 merge requests on pages of one, clock 0..2 | `NothingSkipped` is violated |
| `long_denial` | 1 project, 1 request, denials of one hour, three for a synchronisation's | `DenialsAreBrief` is violated |

Why the bounds are enough. Two workers and one project give every race for a
claim; projects interact only through the shared claim order. Two attempts
tell the last attempt from the others, two jobs give a terminal row and its
successor, and two ticks with a stale limit of one let a claim expire,
be claimed again and expire under its next holder. Two branches make a plan with a
next branch, a branch drained and one discovered on resume; a page size of one
makes every list of two a list of two pages: a run can fail between them, and
an update can come between them. Two connections of two users give a
candidate to fail over to, two credentials a replacement or a return after a
deletion; a request and a synchronisation already give every pair of a verdict
and a change it is stale for. Two requests of authentication give each pair of
a check and the write it misses. Three attempts give a first, a middle and a
last one, and the total time cuts the last short. Two projects are a batch with a
slow answer, a quick one and one that fails, and a scope of several projects.

The constraints of the instances are in the MC modules, each with its
reason: `MCSyncWorkers!Bounds` (at most one worker down, no enable without
its allowlist entry, in `queue_safety` only), `MCCommitSync!PushedFirst`,
`MCCommitSync!RewritesBetweenRuns` (branches are deleted or rewritten only between
two runs of one window that has a branch drained, and GitLab rests once a commit
was taken off the branch it came to),
`MCProjectSync!FewEvents` (a commit is taken off its branch only where no merge
request is open; where both are there, branches stay and the one merge request
is opened at the start; two merge requests come without commits),
`MCConnections!Bounds` (one PAT revoked or one account shut out at a time, and
races followed to the end of the synchronisation), `MCAuthSessions!Bounds` (a
behaviour is about ageing sessions, failing logins, a reset after
failures, or users that come and go) and `MCDashboard!Bounds` (what changes
concerns one project; once a commit is stored nothing else changes; once a
synchronisation has cached a denial only listings and the membership go on).

Each property has a mutant in `PROJECT.json`: the same code with a plausible bug
(a lock not taken, a heartbeat that writes nothing, a status guard without the
worker, a window that starts at the watermark, an attempt given the full time, ...)
that breaks it.

### Fairness

- `SyncWorkers`: an awaited database call is answered, an execution ends (the
  HTTP client has deadlines and the job a time budget between branches), a
  dead process is started again, and from some time on none dies. The last two
  are the deployment's part: nothing in the repository supervises workers. No
  fairness is given to sending heartbeats, to people, to single outcomes of a call
  or to success.
- `GitLabHttp`: time goes on, timers fire when due, lookups end, and the
  executor and the page loop take their next step. GitLab need never answer and
  the caller never abort: `DrainEnds` follows from the timers alone.
- `ProjectSync` (and `CommitSync` and `MrSync` alone): time goes on, the run
  takes its next step or the next one begins, and from some time on runs end only by
  completing or pausing. How often a run pauses is not restricted: each pause
  follows a branch. Nothing is assumed of which half gets its turn: the merge
  requests come because windows are completed.

The clock of the model stops at `MaxClock`. The liveness properties leave out
what would happen after that (a retry put off beyond it, a claim too young).

## Disagreements between documents and code

- `late_executor` (`NothingLost`): advancing the cursor and completing the window
  are writes without a condition. A run that lost its claim makes them
  until its next request to GitLab is refused by the abort, by then perhaps on
  the window of its successor.
- `stale_verdict` (`OnlyRejectedInvalidated`): after a 401 the code invalidates
  the active credential of the connection, not the one the rejected PAT was
  read from. A user who replaces a PAT and revokes the old one while something
  still uses it loses the new one.
- `mr_pages` (`NothingSkipped`): a merge request updated between two pages of a
  run moves another to a page already read; the run completes, the cursor is set to
  its beginning, and the other is not fetched again until somebody touches it,
  though the documents speak of fetching at least once and of a cursor that waits
  for all pages.
- `long_denial` (`DenialsAreBrief`): `denyMembership` keeps a denial for
  `membershipDeniedTtlMs`, 300 s, which the worker does not set, while
  `membership-cache-config.ts`, the runbook and a test give denials 30 s so
  that nobody is kept out for five minutes after access is back. The web
  application reads the same rows.
- The metrics of a page are computed at the end of its window, a moment that
  belongs to the next week, and so they are 0 whatever was committed, while a
  comment in `dashboard-query.ts` says they use all commits of the window. No run is
  needed for this: `MetricsOfTheNextWeek` proves it.

Known gaps, which the models show with other constants or at once, and which no
run repeats:

- with `PageSize = 1` and `Rewrites = TRUE` in `CommitSync`: offset pages, newest
  first, lose a commit when a forced push or a deletion between two
  requests shifts it out of sight; and a commit merged to a branch already
  drained, whose own branch is then deleted before its turn, is in no page of
  the window and too old for the next. `NothingMissed` and `CommitsArrive` are about
  commits that stay on the branch they were pushed to. (If GitLab answers 404 for a
  branch that is gone the run is denied, and the window stays open as long as its
  plan names the branch.)
- `TablesAgree` is stated for requests that do not overlap and do not stop half
  way, because the code gives no more: a save that fails between its two
  transactions, two saves that cross, a retest or a 401 that lands after a
  delete leave the tables in disagreement until the user saves again.

## Theorems

Each holds for every value of the constants that satisfies the assumptions named
in its module's `ASSUME`s: sizes are naturals, `None` is no other value, and where
numbers stand for limits in the code, the relation the code has between
them. The sets that are counted are finite (`Requests`, `Tasks`, `Mrs`, `Branches`, ...), and
the answers of a resolver are lists of written addresses. Eight modules hold them.

| module | theorem | states |
| --- | --- | --- |
| `SyncWorkersProofs` | `Invariance` | `Spec => []IndInv` |
| | `TypeCorrect` | `Spec => []TypeOK` |
| | `OneActiveJobPerProject` | `Spec => []AtMostOneActiveJob` |
| | `AttemptsAccounted` | `Spec => []AttemptBudget` |
| | `EndedJobsAreFinal` | `Spec => TerminalIsFinal` |
| | `LeasesHold` | `Spec => []LeaseHolds` |
| | `NoDoubleSyncs` | `Spec => []NoDoubleSync` |
| | `SyncsKeepInterval` | `Spec => SyncsAreSpaced`, assuming `Clients = {}` |
| `LeaseProofs` | `LeaseImplemented` | `Spec => ImplementsLease`, assuming `"idle" \notin Workers` |
| `CommitSyncProofs` | `TypesHold` | `Spec => []TypeOK` |
| | `NoCommitMissed` | `Spec => []NothingMissed`, assuming `~Rewrites` |
| | `PassesDrained` | `Spec => []CursorPassesDrained`, assuming `~Rewrites` |
| `MrSyncProofs` | `TypesHold` | `Spec => []TypeOK` |
| | `CursorCoversWindows` | `Spec => []CursorCovers` |
| | `NothingSkippedOnOnePage` | `Spec => []NothingSkipped`, assuming `Cardinality(Mrs) <= PageSize` |
| | `ProjectKeepsHalves` | `ProjectSpec => Spec /\ Commit!Spec` |
| | `ProjectCursorCovers` | `ProjectSpec => []CursorCovers` |
| `ConnectionsProofs` | `Invariance` | `Spec => []IndInv` |
| | `EndedFinal` | `Spec => EndedCredentialsAreFinal` |
| | `GoodCandidates` | `Spec => []GoodCandidateFound` |
| | `TablesAgreeBetween` | `Spec => []TablesAgree` |
| `DashboardProofs` | `StrandedByRace` | `Spec => []StrandedOnlyByRace` |
| | `VerdictsRecent` | `Spec => []VerdictsAreRecent` |
| | `TypesHold` | `Spec => []TypeOK` |
| | `SnapshotsBounded` | `Spec => []NoMoreSnapshotsThanPages` |
| | `WeeksOfPages` | `Spec => []WeeksPartition` |
| | `MetricsOfTheNextWeek` | `Spec => []PagesCountNothing` |
| `AuthSessionsProofs` | `TypesHold` | `Spec => []TypeOK` |
| | `RevocationIsFinal` | `Spec => RevokedIsFinal` |
| | `DeactivatedBarred` | `Spec => []DeactivatedGetNowhere` |
| | `FailuresBounded` | `Spec => []FailuresPerWindow` |
| | `IdleFromUse` | `Spec => []IdleCountsFromUse` |
| | `FailuresCounted` | `Spec => []FailuresAreCounted` |
| | `SessionsFit` | `Spec => []SessionsFitUsers` |
| | `AdminRemains` | `Spec => []SomeAdminRemains` |
| `GitLabHttpProofs` | `CallInvariant` | `Spec => []CallOK` |
| | `TotalTime` | `Spec => []TotalTimeHolds` |
| | `AbortBound` | `Spec => []AbortLeavesOneRequest` |
| | `LastError` | `Spec => []LastErrorIsTold` |
| | `PagesOnce` | `Spec => []EveryPageOnce` |
| | `TypesHold` | `Spec => []TypeOK` |
| | `SpellingAndOrder` | `Spec => []NeitherSpellingNorOrderMatters` |

Why the invariants are needed, for hardly a property is inductive alone:

- **SyncWorkers.** `AtMostOneActiveJob` needs `LockInv` (one transaction under the
  lock, and no active job while it is there), so that an insert makes the only
  active row. `AttemptBudget` needs to know that a worker in its catch block
  compares the attempts its row still has (`RemembersAttempts`, `HoldsWork`):
  a worker that uses its last attempt and one that may retry take different
  statements. Most actions only end, requeue or renew active rows; `Tame` says
  so once, and `TameKeepsJobInvs` derives the invariant from it, so that the
  proof per action is about one row. `LeaseHolds` has an invariant of its own
  on top (`LeaseInv`: the row carries at least the claim time the worker
  remembers, and no heartbeat in flight is newer than the clock). `NoDoubleSync`
  then follows from it and `AtMostOneActiveJob`. `SyncsAreSpaced` needs `SpacedInv`: a job
  that was requeued carries no due time that counts, but it has run before. It is proved for the
  scheduler's inserts: `enqueue`, which nothing calls yet, inserts a job that is due at once.
- **The lease.** A project has at most one active row (`AtMostOneActiveJob`), so its
  lease is a function of that row alone (`RowDecides`), and a statement that changes
  one row changes one project's lease (`OneRowChanges`). Each statement is then the
  step of `ProjectLease` named by the row's status before and after. `RowsInv` adds
  what the guards of those steps ask for: rows in work exist, and no claim and
  no heartbeat is dated after the clock, so that an expired row is an expired lease.
- **CommitSync.** `WindowInv` follows a commit through a window. A branch listing
  finds the home of every commit pushed before it began, or that home is on a
  page still to come (`ListOK`); so the plan of a window has a branch for
  each commit settled before its end. While the pages of a branch are read
  newest first, nothing settled moves to a page that was read (`StillAhead`,
  which counts finite sets). What is older than the window's start was settled
  at the watermark before it: here `MaxLag + ListTime <= Overlap` is used, and
  nowhere else. Row and run know the same of their window (`RowInv`, `RunOK`),
  which is why a run may stop anywhere. With deletions and forced pushes only
  the types are proved; the property is false where they come between two pages.
- **MrSync.** What the cache is behind with must still be on its way: in what was
  fetched and not yet stored, on a page the run will ask for (`Coming`,
  `Waiting`), or it has slipped. A list is in order of `updated_at`, oldest
  first, so `FetchPage` takes from the list what is on its page and leaves the
  rest waiting (`PageOrPast`), and only an `Update` can take a merge request off
  the pages to come, which is when it slips. A run may end at any page or half way
  through one, because the cursor moves only when the last page is stored. Where
  all merge requests fit on one page nothing can slip (`OnePage`).
- **ProjectSync.** Each of its steps is a step or a stutter of `MrSync`, and one of
  `CommitSync` (`ProjectSteps`). So the invariants of the halves hold of the
  whole; that a run leaves out the merge requests until the commits are complete
  costs none of them.
- **Connections.** `IndInv` says what a request holds at each of its statements
  (`Holds`) and what the two partial unique indexes give (`OneActive`, `OneLive`).
  `GoodCandidates` adds `SteadyInv`: a credential that was good all along belongs to
  a candidate still to try, or is the one being tried. `TablesAgreeBetween` adds
  `AgreeInv`: a request between two of its statements leaves only its own connection
  and user in disagreement, and only at the statements that owe the rest
  (`ConnectionDue`, `UserDue`).
- **Dashboard.** `RaceInv` extends `StrandedOnlyByRace` to the requests: what an
  enable in progress asks for was on the allowlist when it began, so it is there
  still or has been removed meanwhile. `VerdictInv` dates each row of the cache
  and each answer a request holds by the last moment at which it was true, or at
  which a synchronisation denied it (`CacheKnown`, `AnswersKnown`), and keeps
  requests within `RequestTime` (`InTime`).
  `NoMoreSnapshotsThanPages` counts, beside the snapshots there are, the pages
  that looked, found none and have still to create theirs (`CopiesInv`). `WeeksPartition` is
  arithmetic of quotients and remainders, for every moment there is. For
  `MetricsOfTheNextWeek` a page that counts has a window that is some week's
  (`WeekInv`), and no commit of a week is in the week that its end begins
  (`NothingAtTheEnd`).
- **AuthSessions.** `Fits` says what a request has read before it got to its label;
  the other theorems rest on it. `DeactivatedGetNowhere` needs that a barred request is past `validate`
  only on its way to ending the session (`BarredInv`);
  `FailuresPerWindow` counts the logins between the check of the address and its
  counter (`BucketInv`); `IdleCountsFromUse` bounds how far a row's `lastSeen` is behind
  the session's last use, and what a request holds behind the row (`IdleInv`).
  The three properties of undisturbed behaviours share `InTurn`: at most one request is
  under way (`Sole`), what it read when it began is still what the tables say
  (`Relies`), counts and sessions fit the users but for what it owes (`CountsFit`,
  `SessionFits`), and the administrator who acts is one who is left.
- **GitLabHttp.** Each label of a call has its own bound on the clock (`TimeInv`),
  the caller's abort leaves no second request (`AbortInv`), and the pages visited
  are counted as a finite set. For `SpellingAndOrder`, each way to write an address
  is shown to read to the same groups and bytes (`GroupsRead`, `ReadInFull`, `ReadTailed`,
  `MappedGroups`), and categories are functions of the bytes.

Only model-checked: the four disagreements that have a run, and all liveness
(`ClaimsEnd`, `TargetsAreSynced`, `WindowsClose`, `CommitsArrive`, `UpdatesArrive`,
`DrainEnds`), because liveness under fairness and `ENABLED` are out of the reach of the
prover used here. The properties of undisturbed behaviours are proved under that
condition and under no weaker one: they are false then. Neither of the two things the
properties of `CommitSync` need, that nobody rewrites branches and that runs
follow one another, can be dropped either (`late_executor`).

## What could follow

- Late runs of `MrSync`, as `LateCommitSync` has them: `completeMrSync` and
  `upsertMergeRequest` are unconditional too.
- An abstract specification of a connection, usable or not, that `Connections`
  implements as long as requests do not overlap.

## Not modelled, and why

- `packages/crypto`, password hashes, session tokens, CSRF tokens and the sealing
  of PATs: stateless functions, which a model would have to assume.
- `url.ts` and `transport.ts` of the GitLab client: strings and a socket that
  do not outlive a request. Header syntax and the mapping of JSON to records
  likewise.
- KPI rules and e-mail aliases: units, ranges and marks for display. The same
  holds for the rows the dashboard lists and the filters a user gives.
- `addInstance` and `removeInstance`: an insert, and a delete that a foreign key
  refuses while a connection to the instance exists.
- `rememberProjectPath`, the user's e-mail address in `saveConnection`, audit events:
  writes that nothing here reads.
- The cursor format older than the branch snapshot, and the repeated-cursor
  check, which the modelled GitLab never triggers.
- Environment parsing, the Prisma client, seeding, routes and pages: configuration
  and rendering without a protocol of their own.

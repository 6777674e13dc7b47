----------------------------- MODULE GitLabHttp -----------------------------
(***************************************************************************)
(* The request executor of the GitLab client (http.ts), the egress guard   *)
(* it asks before every attempt (ssrf.ts) and the page loop around it      *)
(* (drainPages).  One call of requestJson asks for one page: up to         *)
(* MaxAttempts attempts, each within its own time and all within the total *)
(* time, with waits in between; the caller may abort at any moment.        *)
(*                                                                         *)
(* The clock is the time since the call began.  A timer fires when it is   *)
(* due, except that a wait may last TimerLag longer.  The name lookup and  *)
(* the reading of the credential come before the timer of the attempt is   *)
(* set; they end within CheckTime, which nothing in the code enforces.     *)
(*                                                                         *)
(* Left out: the bytes of a body (too large or not JSON is an answer       *)
(* here), header syntax, and the address the socket is pinned to, which is *)
(* the first of those checked.                                             *)
(***************************************************************************)
EXTENDS Addresses, FiniteSets, SequencesExt

CONSTANTS
    MaxAttempts, AttemptTimeout, TotalTimeout,  \* ClientLimits
    BackoffBase, BackoffMax, MaxPages, MaxItems,
    CheckTime,      \* longest time the guard and the credential take
    TimerLag,       \* a wait lasts at most this much longer than asked
    RetryAfters,    \* values of a Retry-After header
    AnswerLists,    \* what the name may resolve to, a sequence each time
    Internal,       \* the allowlist entry admits private addresses
    Scope,          \* "project" or "global"
    PageNumbers,    \* pages a next link may name
    PageItems,      \* numbers of items a page may hold
    None

ASSUME HttpAssumption ==
    /\ {MaxAttempts, AttemptTimeout, TotalTimeout, MaxPages} \subseteq Nat \ {0}
    /\ {BackoffBase, BackoffMax} \subseteq Nat \ {0}
    /\ {MaxItems, CheckTime, TimerLag} \subseteq Nat
    /\ RetryAfters \subseteq Nat
    /\ PageNumbers \subseteq Nat \ {0} /\ PageItems \subseteq Nat
    /\ Internal \in BOOLEAN
    /\ Scope \in {"project", "global"}

ASSUME AnswersAssumption == AnswerLists \subseteq Seq(Text)

VARIABLES
    clock,      \* time since the call began
    call,       \* the progress of requestJson
    answers,    \* what the name resolved to for this attempt
    aborted,    \* the caller's signal
    late,       \* history: requests sent after the caller aborted
    drain       \* the progress of drainPages

vars == <<clock, call, answers, aborted, late, drain>>

Retryable == {"rateLimited", "timeout", "unavailable"}
Failures == Retryable \cup {"aborted", "blocked", "noCredential", "redirect", "unauthorized",
              "forbidden", "projectForbidden", "notFound", "projectNotFound", "unexpected",
              "malformed", "tooLarge"}

ASSUME NoneAssumption == None \notin Nat \cup Failures \cup {"ok"}

Call == [at : {"begin", "check", "send", "sleep", "over"},
         attempt : 1..MaxAttempts,
         limit : 0..AttemptTimeout,
         until : Nat,
         heard : BOOLEAN,                           \* the attempt listens to the signal
         last  : Retryable \cup {None},             \* lastError
         result : Failures \cup {"ok", None}]

FreshCall == [at |-> "begin", attempt |-> 1, limit |-> 0, until |-> 0, heard |-> FALSE,
              last |-> None, result |-> None]

Init ==
    /\ clock = 0
    /\ call = FreshCall
    /\ answers = <<>>
    /\ aborted = FALSE
    /\ late = 0
    /\ drain = [page |-> 1, visited |-> {1}, pages |-> 1, items |-> 0, result |-> None]

At(label) == call.at = label
Finish(result) == call' = [call EXCEPT !.at = "over", !.result = result]

\* signal.aborted, as the executor reads it; the first definition never does.
SignalIgnored == FALSE
Aborted == aborted

-----------------------------------------------------------------------------
(* The egress guard                                                        *)

AlwaysDenied == {"loopback", "linkLocal", "metadata", "unspecified", "multicast", "reserved", "unknown"}
Denied(address) == \/ Category(address) \in AlwaysDenied
                   \/ Category(address) = "private" /\ ~Internal

Allowed(list) == list # <<>> /\ \A i \in DOMAIN list : ~Denied(list[i])

-----------------------------------------------------------------------------
(* requestJson                                                             *)

\* What an attempt that starts beyond the total time ends with.
GiveUpAsTimeout == "timeout"
GiveUpReason == IF call.last # None THEN call.last ELSE "timeout"

Smaller(a, b) == IF a < b THEN a ELSE b
OwnTime == AttemptTimeout
TimeOfAttempt == Smaller(AttemptTimeout, TotalTimeout - clock)

StartAttempt ==
    /\ At("begin")
    /\ \/ Aborted /\ Finish("aborted") /\ UNCHANGED answers
       \/ ~Aborted /\ clock >= TotalTimeout /\ Finish(GiveUpReason) /\ UNCHANGED answers
       \/ /\ ~Aborted /\ clock < TotalTimeout
          /\ call' = [call EXCEPT !.at = "check", !.limit = TimeOfAttempt,
                                  !.until = clock + CheckTime]
          /\ \E list \in AnswerLists : answers' = list
    /\ UNCHANGED <<clock, aborted, late, drain>>

\* ssrf.check and getCredential; then the timer is set, the signal listened to
\* and the request sent.  A signal aborted by then is not heard any more.
Check ==
    /\ At("check")
    /\ \/ Finish("blocked") /\ UNCHANGED late           \* the lookup failed, or
       \/ Allowed(answers) /\ Finish("noCredential") /\ UNCHANGED late
       \/ /\ Allowed(answers)
          /\ call' = [call EXCEPT !.at = "send", !.until = clock + call.limit, !.heard = ~aborted]
          /\ late' = IF aborted THEN late + 1 ELSE late
    /\ UNCHANGED <<clock, answers, aborted, drain>>

Delays(n, retryAfter) ==
    IF retryAfter # None THEN {retryAfter}
    ELSE {d \in 0 .. BackoffMax - 1 : d < BackoffBase * 2^(n - 1)}

OneAttemptMore == call.attempt > MaxAttempts
NoAttemptLeft == call.attempt >= MaxAttempts

\* An attempt failed in a way that may pass.
Retry(error, retryAfter) ==
    \E delay \in Delays(call.attempt, retryAfter) :
        call' = IF NoAttemptLeft \/ clock + delay >= TotalTimeout
                THEN [call EXCEPT !.at = "over", !.last = error, !.result = error]
                ELSE IF Aborted
                THEN [call EXCEPT !.at = "over", !.last = error, !.result = "aborted"]
                ELSE [call EXCEPT !.at = "sleep", !.last = error, !.until = clock + delay]

\* handleResponse
Statuses == {200, 302, 401, 403, 404, 408, 422, 429, 500}
ErrorOf(status) ==
    CASE status \in 300..399 -> "redirect"
      [] status = 401 -> "unauthorized"
      [] status = 403 -> IF Scope = "project" THEN "projectForbidden" ELSE "forbidden"
      [] status = 404 -> IF Scope = "project" THEN "projectNotFound" ELSE "notFound"
      [] status = 429 -> "rateLimited"
      [] status = 408 -> "timeout"
      [] status >= 500 -> "unavailable"
      [] OTHER -> "unexpected"

\* What reading a body comes to: it is JSON, it is not, or it has too many bytes.
BodyResults == {"ok", "malformed", "tooLarge"}

\* The waits a response may ask for; a header that cannot be read asks for none.
WaitsAskedFor(status) == (IF status = 408 THEN {} ELSE RetryAfters) \cup {None}

Respond ==
    /\ At("send")
    /\ \E status \in Statuses :
          IF status \in 200..299 THEN \E result \in BodyResults : Finish(result)
          ELSE IF ErrorOf(status) \notin Retryable THEN Finish(ErrorOf(status))
          ELSE \E retryAfter \in WaitsAskedFor(status) : Retry(ErrorOf(status), retryAfter)
    /\ UNCHANGED <<clock, answers, aborted, late, drain>>

\* The transport fails: of itself, by the caller's signal, or by the timer.
Disconnect ==
    /\ At("send")
    /\ IF Aborted THEN Finish("aborted") ELSE Retry("unavailable", None)
    /\ UNCHANGED <<clock, answers, aborted, late, drain>>

HearAbort ==
    /\ At("send") /\ call.heard /\ Aborted
    /\ Finish("aborted")
    /\ UNCHANGED <<clock, answers, aborted, late, drain>>

DueUnlessAborted == clock = call.until /\ ~aborted
Due == clock = call.until
TimeOut ==
    /\ At("send") /\ Due
    /\ IF Aborted THEN Finish("aborted") ELSE Retry("timeout", None)
    /\ UNCHANGED <<clock, answers, aborted, late, drain>>

Wake ==
    /\ At("sleep")
    /\ \/ Aborted /\ Finish("aborted")
       \/ clock >= call.until /\ call' = [call EXCEPT !.at = "begin", !.attempt = @ + 1]
    /\ UNCHANGED <<clock, answers, aborted, late, drain>>

Abort ==
    /\ ~aborted /\ drain.result = None
    /\ aborted' = TRUE
    /\ UNCHANGED <<clock, call, answers, late, drain>>

Tick ==
    /\ \/ At("check") /\ clock < call.until
       \/ At("send") /\ clock < call.until
       \/ At("sleep") /\ clock < call.until + TimerLag
    /\ clock' = clock + 1
    /\ UNCHANGED <<call, answers, aborted, late, drain>>

-----------------------------------------------------------------------------
(* drainPages                                                              *)

AnyPage(page) == FALSE
Seen(page) == page \in drain.visited

EndDrain(result) == drain' = [drain EXCEPT !.result = result] /\ UNCHANGED <<clock, call, answers>>

\* A page may lead to no further one: its next link cannot be read or has
\* another origin, or one of its items lacks what every such item has.
LinkErrors == {"badLink"}
ItemErrors == {"badItem"}

TurnPage ==
    /\ At("over") /\ drain.result = None
    /\ \/ call.result # "ok" /\ EndDrain("failed")
       \/ /\ call.result = "ok"
          /\ \E n \in PageItems, next \in PageNumbers \cup {None} :
                LET items == drain.items + n IN
                CASE items > MaxItems -> EndDrain("limit")
                  [] items <= MaxItems /\ next = None ->
                        /\ drain' = [drain EXCEPT !.items = items, !.result = "ok"]
                        /\ UNCHANGED <<clock, call, answers>>
                  [] items <= MaxItems /\ next # None /\ (Seen(next) \/ drain.pages >= MaxPages) ->
                        EndDrain("limit")
                  [] OTHER ->
                        /\ drain' = [page |-> next, visited |-> drain.visited \cup {next},
                                     pages |-> drain.pages + 1, items |-> items, result |-> None]
                        /\ call' = FreshCall /\ clock' = 0 /\ answers' = <<>>
       \/ call.result = "ok" /\ \E error \in LinkErrors \cup ItemErrors : EndDrain(error)
    /\ UNCHANGED <<aborted, late>>

Done == drain.result # None /\ UNCHANGED vars

Next == StartAttempt \/ Check \/ Respond \/ Disconnect \/ HearAbort \/ TimeOut \/ Wake
        \/ Abort \/ Tick \/ TurnPage \/ Done

\* Lookups end, timers fire and the event loop takes up what has settled;
\* GitLab need never answer.
Fairness == /\ WF_vars(Tick) /\ WF_vars(StartAttempt) /\ WF_vars(Check) /\ WF_vars(TimeOut)
            /\ WF_vars(Wake) /\ WF_vars(TurnPage)

Spec == Init /\ [][Next]_vars /\ Fairness

-----------------------------------------------------------------------------
TypeOK ==
    /\ clock \in Nat
    /\ call \in Call
    /\ answers \in AnswerLists \cup {<<>>}
    /\ aborted \in BOOLEAN
    /\ late \in Nat
    /\ drain \in [page : PageNumbers \cup {1}, visited : SUBSET (PageNumbers \cup {1}), pages : Nat,
                  items : 0..MaxItems, result : {None, "ok", "failed", "limit", "badLink", "badItem"}]

\* The total time bounds a call through all attempts and waits but for the
\* guard and the credential of the last attempt, which no timer covers.
TotalTimeHolds ==
    /\ At("check") \/ At("send") => clock <= TotalTimeout + CheckTime
    /\ At("sleep") => clock < TotalTimeout + TimerLag

\* A call that is aborted sends nothing more, but for one request: the signal
\* is looked at before the guard is asked and listened to after.
AbortLeavesOneRequest == late <= 1

\* A call that gives up says what went wrong in the last attempt, not that it
\* ran out of time over it.
LastErrorIsTold == call.result \in Retryable /\ call.last # None => call.result = call.last

\* No page is asked for twice, though it is the server that names the next.
EveryPageOnce == drain.pages = Cardinality(drain.visited) /\ drain.pages <= MaxPages

\* How an address is spelled makes no difference to its category, nor the
\* order of a resolver's answers to what the guard decides.
NeitherSpellingNorOrderMatters ==
    /\ \A i \in DOMAIN answers : \A other \in Respelled(answers[i]) :
          Category(other) = Category(answers[i])
    /\ Allowed(answers) = Allowed(Reverse(answers))

\* Whatever GitLab does or fails to do, the page loop comes to an end.
DrainEnds == <>(drain.result # None)
=============================================================================

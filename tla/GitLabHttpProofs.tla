-------------------------- MODULE GitLabHttpProofs --------------------------
(***************************************************************************)
(* Proofs about GitLabHttp: for all limits, timers and answers, a call     *)
(* keeps to its total time, an abort leaves one request at most, the last  *)
(* error is the one told, and no page is asked for twice; and the guard    *)
(* judges an address however it is written.                                *)
(*                                                                         *)
(* Each theorem has its own part of the invariant; all rest on CallOK: the *)
(* types of the clock and the call, and that a wait is followed by another *)
(* attempt only while there is one left.                                   *)
(***************************************************************************)
EXTENDS GitLabHttp, FiniteSetTheorems, SequenceTheorems, TLAPS

CallOK ==
    /\ clock \in Nat /\ call \in Call
    /\ At("sleep") => call.attempt < MaxAttempts

\* Where the clock may be: an attempt is given no more than what is left of
\* the total time, which the guard's time alone comes on top of, and no wait
\* is begun that would end beyond it.
TimeInv ==
    /\ At("check") => clock <= call.until /\ call.until + call.limit <= TotalTimeout + CheckTime
    /\ At("send") => clock <= call.until /\ call.until <= TotalTimeout + CheckTime
    /\ At("sleep") => call.until < TotalTimeout /\ clock <= call.until + TimerLag

\* A request counts as late only once the caller has aborted, and no attempt
\* begins after that.
AbortInv ==
    /\ aborted \in BOOLEAN /\ late \in {0, 1}
    /\ ~aborted => late = 0
    /\ At("check") => late = 0

\* Only a call that is over has a result.
ErrorInv == LastErrorIsTold /\ (~At("over") => call.result = None)

PagesInv ==
    /\ drain \in [page : PageNumbers \cup {1}, visited : SUBSET (PageNumbers \cup {1}),
                  pages : Nat, items : 0..MaxItems,
                  result : {None, "ok", "failed", "limit", "badLink", "badItem"}]
    /\ IsFiniteSet(drain.visited)
    /\ EveryPageOnce

-----------------------------------------------------------------------------
\* What an attempt that failed leaves: a call that is over, or one that waits
\* with the total time in sight.
LEMMA RetryOutcome ==
    ASSUME CallOK, NEW error \in Retryable, NEW retryAfter \in RetryAfters \cup {None},
           Retry(error, retryAfter)
    PROVE  /\ call' \in Call
           /\ call'.last = error
           /\ \/ call'.at = "over" /\ call'.result \in {error, "aborted"}
              \/ /\ call'.at = "sleep" /\ call'.result = call.result
                 /\ call'.attempt < MaxAttempts /\ ~Aborted
                 /\ clock <= call'.until /\ call'.until < TotalTimeout
<1>1. PICK delay \in Delays(call.attempt, retryAfter) :
        call' = IF NoAttemptLeft \/ clock + delay >= TotalTimeout
                THEN [call EXCEPT !.at = "over", !.last = error, !.result = error]
                ELSE IF Aborted
                THEN [call EXCEPT !.at = "over", !.last = error, !.result = "aborted"]
                ELSE [call EXCEPT !.at = "sleep", !.last = error, !.until = clock + delay]
  BY DEF Retry
<1>2. delay \in Nat
  <2>1. CASE retryAfter = None
    BY <2>1, HttpAssumption DEF Delays
  <2>2. CASE retryAfter # None
    BY <2>2, HttpAssumption DEF Delays
  <2> QED  BY <2>1, <2>2
<1>3. TotalTimeout \in Nat /\ clock \in Nat /\ call \in Call
  BY HttpAssumption DEF CallOK
<1>4. CASE NoAttemptLeft \/ clock + delay >= TotalTimeout
  BY <1>1, <1>3, <1>4 DEF Call, Failures, Retryable
<1>5. CASE ~(NoAttemptLeft \/ clock + delay >= TotalTimeout) /\ Aborted
  BY <1>1, <1>3, <1>5 DEF Call, Failures, Retryable
<1>6. CASE ~(NoAttemptLeft \/ clock + delay >= TotalTimeout) /\ ~Aborted
  <2>1. call' = [call EXCEPT !.at = "sleep", !.last = error, !.until = clock + delay]
    BY <1>1, <1>6
  <2>2. clock + delay \in Nat /\ clock <= clock + delay /\ clock + delay < TotalTimeout
    BY <1>2, <1>3, <1>6
  <2>3. call.attempt < MaxAttempts
    BY <1>3, <1>6, HttpAssumption DEF NoAttemptLeft, Call
  <2> QED  BY <1>3, <1>6, <2>1, <2>2, <2>3 DEF Call
<1> QED  BY <1>4, <1>5, <1>6

\* An answer of GitLab, a broken connection, the timer and the caller's signal
\* end an attempt in one of three ways.
Settled ==
    /\ At("send") /\ UNCHANGED <<clock, aborted, late, drain>>
    /\ \/ \E result \in (Failures \ Retryable) \cup {"ok"} : Finish(result)
       \/ \E error \in Retryable, retryAfter \in RetryAfters \cup {None} : Retry(error, retryAfter)

LEMMA AttemptSettles ==
    ASSUME Respond \/ Disconnect \/ HearAbort \/ TimeOut
    PROVE  Settled
<1>1. CASE Respond
  <2>1. PICK status \in Statuses :
          IF status \in 200..299
          THEN \E result \in BodyResults : Finish(result)
          ELSE IF ErrorOf(status) \notin Retryable THEN Finish(ErrorOf(status))
          ELSE \E retryAfter \in WaitsAskedFor(status) : Retry(ErrorOf(status), retryAfter)
    BY <1>1 DEF Respond
  <2>2. status \notin 200..299 => ErrorOf(status) \in Failures
    BY DEF Statuses, ErrorOf, Failures, Retryable
  <2> QED
    BY <1>1, <2>1, <2>2
       DEF Respond, Settled, Failures, Retryable, BodyResults, WaitsAskedFor
<1>2. CASE Disconnect
  BY <1>2 DEF Disconnect, Settled, Failures, Retryable
<1>3. CASE HearAbort
  BY <1>3 DEF HearAbort, Settled, Failures, Retryable
<1>4. CASE TimeOut
  BY <1>4 DEF TimeOut, Settled, Failures, Retryable
<1> QED  BY <1>1, <1>2, <1>3, <1>4

\* The page loop leaves the call as it is, or makes a new one.
LEMMA TurnPageCalls ==
    ASSUME TurnPage
    PROVE  /\ At("over") /\ UNCHANGED <<aborted, late>>
           /\ \/ UNCHANGED <<clock, call, answers>>
              \/ call' = FreshCall /\ clock' = 0 /\ answers' = <<>>
<1>1. CASE EndDrain("failed") \/ \E error \in LinkErrors \cup ItemErrors : EndDrain(error)
  BY <1>1 DEF TurnPage, EndDrain
<1>2. ASSUME NEW n \in PageItems, NEW next \in PageNumbers \cup {None},
             LET items == drain.items + n IN
             CASE items > MaxItems -> EndDrain("limit")
               [] items <= MaxItems /\ next = None ->
                     /\ drain' = [drain EXCEPT !.items = items, !.result = "ok"]
                     /\ UNCHANGED <<clock, call, answers>>
               [] items <= MaxItems /\ next # None /\ (Seen(next) \/ drain.pages >= MaxPages) ->
                     EndDrain("limit")
               [] OTHER ->
                     /\ drain' = [page |-> next, visited |-> drain.visited \cup {next},
                                  pages |-> drain.pages + 1, items |-> items, result |-> None]
                     /\ call' = FreshCall /\ clock' = 0 /\ answers' = <<>>
      PROVE  \/ UNCHANGED <<clock, call, answers>>
             \/ call' = FreshCall /\ clock' = 0 /\ answers' = <<>>
  BY <1>2 DEF EndDrain
<1> QED
  BY <1>1, <1>2 DEF TurnPage

-----------------------------------------------------------------------------
(* The types of the clock and the call                                     *)

LEMMA CallInit == Init => CallOK
  BY HttpAssumption DEF Init, FreshCall, CallOK, Call, At

LEMMA CallStep == CallOK /\ [Next]_vars => CallOK'
<1> SUFFICES ASSUME CallOK, [Next]_vars PROVE CallOK'
  OBVIOUS
<1> USE DEF CallOK, At
<1>1. CASE StartAttempt
  <2>1. clock' = clock
    BY <1>1 DEF StartAttempt
  <2>2. CASE Aborted /\ Finish("aborted")
    BY <2>1, <2>2 DEF Finish, Call, Failures
  <2>3. CASE Finish(GiveUpReason)
    BY <2>1, <2>3 DEF Finish, GiveUpReason, Call, Failures, Retryable
  <2>4. CASE /\ clock < TotalTimeout
             /\ call' = [call EXCEPT !.at = "check", !.limit = TimeOfAttempt,
                                     !.until = clock + CheckTime]
    <3>1. TimeOfAttempt \in 0 .. AttemptTimeout /\ clock + CheckTime \in Nat
      BY <2>4, HttpAssumption DEF TimeOfAttempt, Smaller
    <3> QED  BY <2>1, <2>4, <3>1 DEF Call
  <2> QED  BY <1>1, <2>2, <2>3, <2>4 DEF StartAttempt
<1>2. CASE Check
  <2>1. clock' = clock
    BY <1>2 DEF Check
  <2>2. CASE Finish("blocked") \/ Finish("noCredential")
    BY <2>1, <2>2 DEF Finish, Call, Failures
  <2>3. CASE call' = [call EXCEPT !.at = "send", !.until = clock + call.limit,
                                  !.heard = ~aborted]
    <3>1. clock + call.limit \in Nat
      BY HttpAssumption DEF Call
    <3> QED  BY <2>1, <2>3, <3>1 DEF Call
  <2> QED  BY <1>2, <2>2, <2>3 DEF Check
<1>3. CASE Respond \/ Disconnect \/ HearAbort \/ TimeOut
  <2>1. Settled
    BY <1>3, AttemptSettles
  <2>2. ASSUME NEW result \in (Failures \ Retryable) \cup {"ok"}, Finish(result)
        PROVE  call' \in Call /\ call'.at = "over"
    BY <2>2 DEF Finish, Call
  <2>3. ASSUME NEW error \in Retryable, NEW retryAfter \in RetryAfters \cup {None},
               Retry(error, retryAfter)
        PROVE  call' \in Call /\ (call'.at = "sleep" => call'.attempt < MaxAttempts)
    BY <2>3, RetryOutcome
  <2> QED  BY <2>1, <2>2, <2>3 DEF Settled
<1>4. CASE Wake
  <2>1. CASE Finish("aborted")
    BY <1>4, <2>1 DEF Wake, Finish, Call, Failures
  <2>2. CASE call' = [call EXCEPT !.at = "begin", !.attempt = @ + 1]
    <3>1. call.attempt \in Nat /\ MaxAttempts \in Nat /\ call.attempt + 1 \in 1 .. MaxAttempts
      BY <1>4, HttpAssumption DEF Wake, Call
    <3>2. call'.at = "begin" /\ call' \in Call
      BY <2>2, <3>1 DEF Call
    <3> QED  BY <1>4, <3>2 DEF Wake
  <2> QED  BY <1>4, <2>1, <2>2 DEF Wake
<1>5. CASE Abort \/ Done \/ UNCHANGED vars
  BY <1>5 DEF Abort, Done, vars
<1>6. CASE Tick
  BY <1>6 DEF Tick
<1>7. CASE TurnPage
  <2>1. FreshCall \in Call
    BY HttpAssumption DEF FreshCall, Call
  <2>2. CASE UNCHANGED <<clock, call>>
    BY <2>2
  <2>3. CASE call' = FreshCall /\ clock' = 0
    BY <2>1, <2>3 DEF FreshCall
  <2> QED  BY <1>7, <2>2, <2>3, TurnPageCalls
<1> QED
  BY <1>1, <1>2, <1>3, <1>4, <1>5, <1>6, <1>7 DEF Next

\* A call is always in a state the code gives it: requestJson.
THEOREM CallInvariant == Spec => []CallOK
  BY CallInit, CallStep, PTL DEF Spec

-----------------------------------------------------------------------------
(* The total time                                                          *)

LEMMA TimeStep == CallOK /\ CallOK' /\ TimeInv /\ [Next]_vars => TimeInv'
<1> SUFFICES ASSUME CallOK, CallOK', TimeInv, [Next]_vars PROVE TimeInv'
  OBVIOUS
<1> USE DEF At
<1>0. /\ clock \in Nat /\ call \in Call
      /\ call.limit \in Nat /\ call.until \in Nat
      /\ {TotalTimeout, AttemptTimeout, CheckTime, TimerLag} \subseteq Nat
  BY HttpAssumption DEF CallOK, Call
<1>1. CASE StartAttempt
  <2>1. CASE Finish("aborted") \/ Finish(GiveUpReason)
    BY <1>0, <2>1 DEF Finish, TimeInv, Call
  <2>2. CASE /\ clock < TotalTimeout /\ clock' = clock
             /\ call' = [call EXCEPT !.at = "check", !.limit = TimeOfAttempt,
                                     !.until = clock + CheckTime]
    <3>1. TimeOfAttempt \in Nat /\ TimeOfAttempt <= TotalTimeout - clock
      BY <1>0, <2>2 DEF TimeOfAttempt, Smaller
    <3>2. call'.at = "check" /\ call'.limit = TimeOfAttempt /\ call'.until = clock + CheckTime
      BY <1>0, <2>2 DEF Call
    <3> QED  BY <1>0, <2>2, <3>1, <3>2 DEF TimeInv
  <2> QED  BY <1>1, <2>1, <2>2 DEF StartAttempt
<1>2. CASE Check
  <2>1. CASE Finish("blocked") \/ Finish("noCredential")
    BY <1>0, <2>1 DEF Finish, TimeInv, Call
  <2>2. CASE call' = [call EXCEPT !.at = "send", !.until = clock + call.limit,
                                  !.heard = ~aborted]
    <3>1. call'.at = "send" /\ call'.until = clock + call.limit
      BY <1>0, <2>2 DEF Call
    <3> QED  BY <1>0, <1>2, <3>1 DEF TimeInv, Check
  <2> QED  BY <1>2, <2>1, <2>2 DEF Check
<1>3. CASE Respond \/ Disconnect \/ HearAbort \/ TimeOut
  <2>1. Settled
    BY <1>3, AttemptSettles
  <2>2. ASSUME NEW result, Finish(result)
        PROVE  call'.at = "over"
    BY <1>0, <2>2 DEF Finish, Call
  <2>3. ASSUME NEW error \in Retryable, NEW retryAfter \in RetryAfters \cup {None},
               Retry(error, retryAfter)
        PROVE  \/ call'.at = "over"
               \/ call'.at = "sleep" /\ clock <= call'.until /\ call'.until < TotalTimeout
    BY <2>3, RetryOutcome
  <2>4. clock' = clock
    BY <2>1 DEF Settled
  <2>5. CASE call'.at = "over"
    BY <2>5 DEF TimeInv
  <2>6. CASE call'.at = "sleep" /\ clock <= call'.until /\ call'.until < TotalTimeout
    <3>1. call'.until \in Nat
      BY DEF CallOK, Call
    <3> QED  BY <1>0, <2>4, <2>6, <3>1 DEF TimeInv
  <2> QED  BY <2>1, <2>2, <2>3, <2>5, <2>6 DEF Settled
<1>4. CASE Wake
  <2>1. call'.at \in {"over", "begin"}
    BY <1>0, <1>4 DEF Wake, Finish, Call
  <2> QED  BY <2>1 DEF TimeInv
<1>5. CASE Abort \/ Done \/ UNCHANGED vars
  BY <1>5 DEF Abort, Done, vars, TimeInv
<1>6. CASE Tick
  BY <1>0, <1>6 DEF Tick, TimeInv
<1>7. CASE TurnPage
  <2>1. call'.at \in {"over", "begin"}
    BY <1>7, TurnPageCalls DEF FreshCall
  <2> QED  BY <2>1 DEF TimeInv
<1> QED
  BY <1>1, <1>2, <1>3, <1>4, <1>5, <1>6, <1>7 DEF Next

\* The total time bounds a call, but for the guard and the credential of its
\* last attempt, for all limits and all answers: http.ts gives each attempt what
\* is left and begins no wait that would end later.
THEOREM TotalTime == Spec => []TotalTimeHolds
<1>1. Init => TimeInv
  BY DEF Init, FreshCall, TimeInv, At
<1>2. CallOK /\ TimeInv => TotalTimeHolds
  BY HttpAssumption DEF CallOK, Call, TimeInv, TotalTimeHolds, At
<1> QED
  BY CallInvariant, TimeStep, <1>1, <1>2, PTL DEF Spec

-----------------------------------------------------------------------------
(* An abort                                                                *)

LEMMA AbortInvariant == Spec => []AbortInv
<1>1. Init => AbortInv
  BY DEF Init, FreshCall, AbortInv, At
<1>2. CallOK /\ AbortInv /\ [Next]_vars => AbortInv'
  <2> SUFFICES ASSUME CallOK, AbortInv, [Next]_vars PROVE AbortInv'
    OBVIOUS
  <2> USE DEF At, AbortInv
  <2>0. call \in Call
    BY DEF CallOK
  <2>1. CASE StartAttempt
    <3>1. UNCHANGED <<aborted, late>> /\ (Aborted => call'.at = "over")
      BY <2>0, <2>1 DEF StartAttempt, Finish, Call
    <3> QED  BY <3>1 DEF Aborted
  <2>2. CASE Check
    <3>1. call'.at \in {"over", "send"} /\ aborted' = aborted
      BY <2>0, <2>2 DEF Check, Finish, Call
    <3> QED  BY <2>2, <3>1 DEF Check
  <2>3. CASE Respond \/ Disconnect \/ HearAbort \/ TimeOut
    <3>1. Settled
      BY <2>3, AttemptSettles
    <3>2. ASSUME NEW result, Finish(result)
          PROVE  call'.at = "over"
      BY <2>0, <3>2 DEF Finish, Call
    <3>3. ASSUME NEW error \in Retryable, NEW retryAfter \in RetryAfters \cup {None},
                 Retry(error, retryAfter)
          PROVE  call'.at \in {"over", "sleep"}
      BY <3>3, RetryOutcome
    <3> QED  BY <3>1, <3>2, <3>3 DEF Settled
  <2>4. CASE Wake
    <3>1. call'.at \in {"over", "begin"} /\ UNCHANGED <<aborted, late>>
      BY <2>0, <2>4 DEF Wake, Finish, Call
    <3> QED  BY <3>1
  <2>5. CASE Abort \/ Done \/ Tick \/ UNCHANGED vars
    BY <2>5 DEF Abort, Done, Tick, vars
  <2>6. CASE TurnPage
    <3>1. call'.at \in {"over", "begin"} /\ UNCHANGED <<aborted, late>>
      BY <2>6, TurnPageCalls DEF FreshCall
    <3> QED  BY <3>1
  <2> QED
    BY <2>1, <2>2, <2>3, <2>4, <2>5, <2>6 DEF Next
<1> QED
  BY CallInvariant, <1>1, <1>2, PTL DEF Spec

\* A call that is aborted sends one more request at most: once the signal is
\* set no attempt begins and no wait does.
THEOREM AbortBound == Spec => []AbortLeavesOneRequest
<1>1. AbortInv => AbortLeavesOneRequest
  BY DEF AbortInv, AbortLeavesOneRequest
<1> QED
  BY AbortInvariant, <1>1, PTL

-----------------------------------------------------------------------------
(* What a call ends with                                                   *)

\* A call that gives up over an error that might have passed says the last one
\* it met: requestJson and its lastError.
THEOREM LastError == Spec => []LastErrorIsTold
<1>1. Init => ErrorInv
  BY HttpAssumption, NoneAssumption DEF Init, FreshCall, ErrorInv, LastErrorIsTold, Failures, Retryable, At
<1>2. CallOK /\ ErrorInv /\ [Next]_vars => ErrorInv'
  <2> SUFFICES ASSUME CallOK, ErrorInv, [Next]_vars PROVE ErrorInv'
    OBVIOUS
  <2> USE DEF At, ErrorInv, LastErrorIsTold
  <2>0. call \in Call /\ None \notin Failures \cup {"ok"}
    BY NoneAssumption DEF CallOK
  <2>1. CASE StartAttempt
    <3>1. CASE Finish("aborted")
      BY <2>0, <3>1 DEF Finish, Call, Retryable
    <3>2. CASE Finish(GiveUpReason)
      BY <2>0, <3>2 DEF Finish, GiveUpReason, Call
    <3>3. CASE call' = [call EXCEPT !.at = "check", !.limit = TimeOfAttempt,
                                    !.until = clock + CheckTime]
      BY <2>0, <2>1, <3>3 DEF Call, StartAttempt
    <3> QED  BY <2>1, <3>1, <3>2, <3>3 DEF StartAttempt
  <2>2. CASE Check
    BY <2>0, <2>2 DEF Check, Finish, Call, Retryable
  <2>3. CASE Respond \/ Disconnect \/ HearAbort \/ TimeOut
    <3>1. Settled
      BY <2>3, AttemptSettles
    <3>2. ASSUME NEW result \in (Failures \ Retryable) \cup {"ok"}, Finish(result)
          PROVE  ErrorInv'
      BY <2>0, <3>2 DEF Finish, Call, Retryable
    <3>3. ASSUME NEW error \in Retryable, NEW retryAfter \in RetryAfters \cup {None},
                 Retry(error, retryAfter)
          PROVE  ErrorInv'
      BY <2>0, <3>1, <3>3, RetryOutcome DEF Settled, Retryable, Failures
    <3> QED  BY <3>1, <3>2, <3>3 DEF Settled
  <2>4. CASE Wake
    BY <2>0, <2>4 DEF Wake, Finish, Call, Retryable
  <2>5. CASE Abort \/ Done \/ Tick \/ UNCHANGED vars
    BY <2>5 DEF Abort, Done, Tick, vars
  <2>6. CASE TurnPage
    BY <2>6, TurnPageCalls, NoneAssumption DEF FreshCall, Failures, Retryable
  <2> QED
    BY <2>1, <2>2, <2>3, <2>4, <2>5, <2>6 DEF Next
<1>3. ErrorInv => LastErrorIsTold
  BY DEF ErrorInv
<1> QED
  BY CallInvariant, <1>1, <1>2, <1>3, PTL DEF Spec

-----------------------------------------------------------------------------
(* The page loop                                                           *)

LEMMA PagesInvariant == Spec => []PagesInv
<1>1. Init => PagesInv
  <2>1. IsFiniteSet({1}) /\ Cardinality({1}) = 1
    BY FS_Singleton
  <2> QED  BY <2>1, HttpAssumption DEF Init, PagesInv, EveryPageOnce
<1>2. PagesInv /\ [Next]_vars => PagesInv'
  <2> SUFFICES ASSUME PagesInv, [Next]_vars PROVE PagesInv'
    OBVIOUS
  <2> USE DEF PagesInv, EveryPageOnce
  <2>1. CASE UNCHANGED drain
    BY <2>1
  <2>2. CASE TurnPage
    <3>1. ASSUME NEW result \in {"failed", "limit", "badLink", "badItem"}, EndDrain(result)
          PROVE  PagesInv'
      BY <3>1 DEF EndDrain
    <3>2. ASSUME NEW n \in PageItems, NEW next \in PageNumbers \cup {None},
                 LET items == drain.items + n IN
                 CASE items > MaxItems -> EndDrain("limit")
                   [] items <= MaxItems /\ next = None ->
                         /\ drain' = [drain EXCEPT !.items = items, !.result = "ok"]
                         /\ UNCHANGED <<clock, call, answers>>
                   [] items <= MaxItems /\ next # None /\ (Seen(next) \/ drain.pages >= MaxPages) ->
                         EndDrain("limit")
                   [] OTHER ->
                         /\ drain' = [page |-> next, visited |-> drain.visited \cup {next},
                                      pages |-> drain.pages + 1, items |-> items, result |-> None]
                         /\ call' = FreshCall /\ clock' = 0 /\ answers' = <<>>
          PROVE  PagesInv'
      <4> DEFINE items == drain.items + n
      <4>1. items \in Nat /\ MaxItems \in Nat /\ MaxPages \in Nat
        BY HttpAssumption
      <4>2. CASE items > MaxItems
        BY <3>1, <3>2, <4>1, <4>2
      <4>3. CASE items <= MaxItems /\ next = None
        <5>1. drain' = [drain EXCEPT !.items = items, !.result = "ok"]
          BY <3>2, <4>1, <4>3
        <5>2. items \in 0 .. MaxItems
          BY <4>1, <4>3
        <5> QED  BY <5>1, <5>2
      <4>4. CASE items <= MaxItems /\ next # None /\ (Seen(next) \/ drain.pages >= MaxPages)
        BY <3>1, <3>2, <4>1, <4>4
      <4>5. CASE items <= MaxItems /\ next # None /\ ~(Seen(next) \/ drain.pages >= MaxPages)
        <5>1. drain' = [page |-> next, visited |-> drain.visited \cup {next},
                        pages |-> drain.pages + 1, items |-> items, result |-> None]
          BY <3>2, <4>1, <4>5
        <5>2. next \notin drain.visited /\ drain.pages < MaxPages
          BY <4>1, <4>5 DEF Seen
        <5>3. /\ IsFiniteSet(drain.visited \cup {next})
              /\ Cardinality(drain.visited \cup {next}) = Cardinality(drain.visited) + 1
          BY <5>2, FS_AddElement
        <5>4. items \in 0 .. MaxItems /\ next \in PageNumbers
          BY <4>1, <4>5
        <5> HIDE DEF items
        <5> QED  BY <4>1, <5>1, <5>2, <5>3, <5>4
      <4> QED  BY <4>1, <4>2, <4>3, <4>4, <4>5
    <3> QED  BY <2>2, <3>1, <3>2 DEF TurnPage, LinkErrors, ItemErrors
  <2> QED
    BY <2>1, <2>2 DEF Next, vars, StartAttempt, Check, Respond, Disconnect, HearAbort, TimeOut,
                      Wake, Abort, Tick, Done
<1> QED
  BY <1>1, <1>2, PTL DEF Spec

\* Whatever pages the server names, none is asked for twice and no more than
\* MaxPages are: drainPages.
THEOREM PagesOnce == Spec => []EveryPageOnce
<1>1. PagesInv => EveryPageOnce
  BY DEF PagesInv
<1> QED
  BY PagesInvariant, <1>1, PTL

-----------------------------------------------------------------------------
(* Types                                                                   *)

LEMMA AnswersInvariant == Spec => [](answers \in AnswerLists \cup {<<>>})
<1>1. Init => answers \in AnswerLists \cup {<<>>}
  BY DEF Init
<1>2. answers \in AnswerLists \cup {<<>>} /\ [Next]_vars => (answers \in AnswerLists \cup {<<>>})'
  <2> SUFFICES ASSUME answers \in AnswerLists \cup {<<>>}, [Next]_vars
               PROVE  (answers \in AnswerLists \cup {<<>>})'
    OBVIOUS
  <2>1. CASE StartAttempt
    BY <2>1 DEF StartAttempt
  <2>2. CASE TurnPage
    <3>1. UNCHANGED answers \/ answers' = <<>>
      BY <2>2, TurnPageCalls
    <3> QED BY <3>1
  <2> QED
    BY <2>1, <2>2 DEF Next, vars, Check, Respond, Disconnect, HearAbort, TimeOut, Wake, Abort,
                      Tick, Done
<1> QED
  BY <1>1, <1>2, PTL DEF Spec

\* The call, the guard's answers and the page loop keep their types, whatever
\* the server says.
THEOREM TypesHold == Spec => []TypeOK
<1>1. /\ CallOK /\ AbortInv /\ PagesInv /\ answers \in AnswerLists \cup {<<>>}
      => TypeOK
  BY DEF CallOK, AbortInv, PagesInv, TypeOK
<1> QED
  BY CallInvariant, AbortInvariant, PagesInvariant, AnswersInvariant, <1>1, PTL

-----------------------------------------------------------------------------
(* Addresses                                                               *)

Groups8 == {g \in Seq(Group) : Len(g) = 8}

\* The 16 bytes of eight groups.
BytesOfGroups(g) ==
    [i \in 1..16 |-> IF i % 2 = 1 THEN g[(i + 1) \div 2] \div 256 ELSE g[i \div 2] % 256]

\* The numbers of two bytes and of one.
LEMMA GroupIs == \A x : x \in Group <=> x \in Nat /\ x <= 65535
<1> DEFINE n == 65535
<1>1. Group = 0..n /\ n \in Nat
  BY DEF Group
<1> HIDE DEF n
<1>2. \A x : x \in Group <=> x \in Nat /\ x <= n
  BY <1>1
<1> QED
  BY <1>2 DEF n

LEMMA ByteIs == \A x : x \in Byte <=> x \in Nat /\ x <= 255
<1> DEFINE n == 255
<1>1. Byte = 0..n /\ n \in Nat
  BY DEF Byte
<1> HIDE DEF n
<1>2. \A x : x \in Byte <=> x \in Nat /\ x <= n
  BY <1>1
<1> QED
  BY <1>2 DEF n

\* Sequences of groups.
LEMMA JoinedGroups ==
    ASSUME NEW s \in Seq(Group), NEW t \in Seq(Group)
    PROVE  /\ s \o t \in Seq(Group) /\ Len(s \o t) = Len(s) + Len(t)
           /\ \A i \in 1 .. Len(s) + Len(t) : (s \o t)[i] = IF i <= Len(s) THEN s[i] ELSE t[i - Len(s)]
  BY ConcatProperties

LEMMA GroupsAssociate ==
    ASSUME NEW s \in Seq(Group), NEW t \in Seq(Group), NEW u \in Seq(Group)
    PROVE  (s \o t) \o u = s \o (t \o u)
  BY ConcatAssociative

LEMMA EightNotNone == ASSUME NEW g \in Groups8 PROVE g # <<>>
<1>1. Len(g) = 8
  BY DEF Groups8
<1>2. Len(<<>>) = 0
  OBVIOUS
<1> QED BY <1>1, <1>2

LEMMA ZerosAreGroups ==
    ASSUME NEW n \in Nat
    PROVE  Zeros(n) \in Seq(Group) /\ Len(Zeros(n)) = n /\ \A i \in 1..n : Zeros(n)[i] = 0
<1>1. 0 \in Group
  BY GroupIs
<1> QED BY <1>1 DEF Zeros

LEMMA TwoZeros == <<0, 0>> \in Seq(Group) /\ Len(<<0, 0>>) = 2
<1> 0 \in Group
  BY GroupIs
<1> QED OBVIOUS

LEMMA GroupsRead ==
    ASSUME NEW text \in Text, ~IsV4(text)
    PROVE  Groups(text) = <<>> \/ Groups(text) \in Groups8
<1> DEFINE l == text.left
           r == text.right
           tail == IF text.tail = <<>> THEN <<>> ELSE <<0, 0>>
           after == r \o tail
           missing == 8 - Len(l) - Len(after)
           z == Zeros(missing)
           front == l \o z
           whole == front \o after
<1>1. l \in Seq(Group) /\ r \in Seq(Group)
  BY DEF Text, IsV4
<1>2. tail \in Seq(Group)
  BY EmptySeq, TwoZeros
<1>3. Groups(text) = IF IF text.gap THEN missing >= 1 ELSE missing = 0 THEN whole ELSE <<>>
  BY DEF Groups
<1>4. missing = 8 - Len(l) - Len(after) /\ z = Zeros(missing)
  OBVIOUS
<1> HIDE DEF l, r, tail
<1>5. after \in Seq(Group)
  BY <1>1, <1>2, JoinedGroups
<1> HIDE DEF after, missing
<1>6. Len(l) \in Nat /\ Len(after) \in Nat
  BY <1>1, <1>5, LenProperties
<1>7. missing \in Int
  BY <1>4, <1>6
<1>8. CASE missing >= 0
  <2>1. missing \in Nat
    BY <1>7, <1>8
  <2>2. z \in Seq(Group) /\ Len(z) = missing
    BY <2>1, ZerosAreGroups
  <2> HIDE DEF z
  <2>3. front \in Seq(Group) /\ Len(front) = Len(l) + Len(z)
    BY <1>1, <2>2, JoinedGroups
  <2> HIDE DEF front
  <2>4. whole \in Seq(Group) /\ Len(whole) = Len(front) + Len(after)
    BY <1>5, <2>3, JoinedGroups
  <2> HIDE DEF whole
  <2>5. Len(whole) = 8
    BY <1>4, <1>6, <2>1, <2>2, <2>3, <2>4
  <2>6. whole \in Groups8
    BY <2>4, <2>5 DEF Groups8
  <2> QED BY <1>3, <2>6
<1>9. CASE ~(missing >= 0)
  <2>1. ~(missing >= 1) /\ ~(missing = 0)
    BY <1>7, <1>9
  <2> QED BY <1>3, <2>1
<1> QED BY <1>8, <1>9

\* Two bytes make a group, and a group two bytes.
LEMMA HighByte == ASSUME NEW x \in Group PROVE x \div 256 \in Byte
<1>1. x \in Nat /\ x <= 65535
  BY GroupIs
<1>2. x \div 256 \in Nat /\ x \div 256 <= 255
  BY <1>1
<1> QED
  BY <1>2, ByteIs

LEMMA LowByte == ASSUME NEW x \in Group PROVE x % 256 \in Byte
<1>1. x \in Nat
  BY GroupIs
<1>2. x % 256 \in Nat /\ x % 256 <= 255
  BY <1>1
<1> QED
  BY <1>2, ByteIs

LEMMA TwoBytes ==
    ASSUME NEW a \in Byte, NEW b \in Byte
    PROVE  a * 256 + b \in Group /\ (a * 256 + b) \div 256 = a /\ (a * 256 + b) % 256 = b
<1>1. a \in Nat /\ a <= 255 /\ b \in Nat /\ b <= 255
  BY ByteIs
<1>2. a * 256 + b \in Nat /\ a * 256 + b <= 65535
  BY <1>1
<1>3. (a * 256 + b) \div 256 = a /\ (a * 256 + b) % 256 = b
  BY <1>1
<1> QED
  BY <1>2, <1>3, GroupIs

LEMMA BytesRead ==
    ASSUME NEW g \in Groups8
    PROVE  BytesOfGroups(g) \in [1..16 -> Byte]
<1>1. g \in [1..8 -> Group]
  BY LenProperties DEF Groups8
<1> SUFFICES ASSUME NEW i \in 1..16
             PROVE  (IF i % 2 = 1 THEN g[(i + 1) \div 2] \div 256 ELSE g[i \div 2] % 256) \in Byte
  BY DEF BytesOfGroups
<1>2. CASE i % 2 = 1
  <2>1. (i + 1) \div 2 \in 1..8
    BY <1>2
  <2>2. g[(i + 1) \div 2] \in Group
    BY <1>1, <2>1
  <2>3. g[(i + 1) \div 2] \div 256 \in Byte
    BY <2>2, HighByte
  <2> QED BY <1>2, <2>3
<1>3. CASE i % 2 # 1
  <2>1. i \div 2 \in 1..8
    BY <1>3
  <2>2. g[i \div 2] \in Group
    BY <1>1, <2>1
  <2>3. g[i \div 2] % 256 \in Byte
    BY <2>2, LowByte
  <2> QED BY <1>3, <2>3
<1> QED BY <1>2, <1>3

LEMMA ReadInFull ==
    ASSUME NEW g \in Groups8
    PROVE  /\ InFull(g).tail = <<>> /\ ~IsV4(InFull(g))
           /\ Groups(InFull(g)) = g
           /\ ParseV6(InFull(g)) = BytesOfGroups(g)
<1>0. g \in Seq(Group) /\ Len(g) = 8 /\ g # <<>>
  BY EmptySeq DEF Groups8
<1>1. /\ InFull(g).tail = <<>> /\ ~IsV4(InFull(g)) /\ InFull(g).left = g
      /\ InFull(g).right = <<>> /\ InFull(g).gap = FALSE
  BY DEF InFull, IsV4
<1>2. <<>> \o <<>> = <<>> /\ Len(<<>>) = 0 /\ <<>> \in Seq(Group)
  BY ConcatEmptySeq, EmptySeq
<1>3. Groups(InFull(g)) = g \o Zeros(0) \o <<>>
  <2> DEFINE after == InFull(g).right \o (IF InFull(g).tail = <<>> THEN <<>> ELSE <<0, 0>>)
             missing == 8 - Len(InFull(g).left) - Len(after)
  <2>1. Groups(InFull(g)) = IF IF InFull(g).gap THEN missing >= 1 ELSE missing = 0
                            THEN InFull(g).left \o Zeros(missing) \o after ELSE <<>>
    BY DEF Groups
  <2>2. after = <<>>
    BY <1>1, <1>2
  <2>3. missing = 0
    BY <1>0, <1>1, <1>2, <2>2
  <2> HIDE DEF after, missing
  <2> QED BY <1>1, <2>1, <2>2, <2>3
<1>4. Zeros(0) = <<>>
  BY DEF Zeros
<1>5. g \o Zeros(0) \o <<>> = g
  BY <1>0, <1>4, ConcatEmptySeq
<1>6. Groups(InFull(g)) = g
  BY <1>3, <1>5
<1>7. ParseV6(InFull(g)) = BytesOfGroups(g)
  BY <1>0, <1>1, <1>6 DEF ParseV6, BytesOfGroups
<1> QED BY <1>1, <1>6, <1>7

\* Six groups and a dotted tail: the tail is the last four bytes.
LEMMA ReadTailed ==
    ASSUME NEW g \in Groups8, NEW tail \in Octets
    PROVE  LET text == [InFull(SubSeq(g, 1, 6)) EXCEPT !.tail = tail] IN
           /\ ~IsV4(text)
           /\ ParseV6(text) = SubSeq(BytesOfGroups(g), 1, 12) \o tail
<1> DEFINE six == SubSeq(g, 1, 6)
           text == [InFull(six) EXCEPT !.tail = tail]
           h == six \o <<0, 0>>
<1>0. g \in Seq(Group) /\ Len(g) = 8
  BY DEF Groups8
<1>1. six \in Seq(Group) /\ Len(six) = 6 /\ \A i \in 1..6 : six[i] = g[i]
  <2>0. g \in [1..8 -> Group]
    BY <1>0, LenProperties
  <2>1. \A i \in 1..6 : g[i] \in Group
    BY <2>0
  <2> QED BY <2>1, SubSeqProperties
<1> HIDE DEF six
<1>2. /\ ~IsV4(text) /\ text.left = six /\ text.gap = FALSE /\ text.right = <<>>
      /\ text.tail = tail
  BY DEF InFull, IsV4
<1>3. tail # <<>>
  BY EmptySeq DEF Octets
<1> HIDE DEF text
<1>4. <<>> \o <<0, 0>> = <<0, 0>>
  BY TwoZeros, ConcatEmptySeq
<1>5. Groups(text) = h
  <2> DEFINE after == text.right \o (IF text.tail = <<>> THEN <<>> ELSE <<0, 0>>)
             missing == 8 - Len(text.left) - Len(after)
  <2>1. Groups(text) = IF IF text.gap THEN missing >= 1 ELSE missing = 0
                       THEN text.left \o Zeros(missing) \o after ELSE <<>>
    BY DEF Groups
  <2>2. after = <<0, 0>>
    BY <1>2, <1>3, <1>4
  <2> HIDE DEF after
  <2>a. Len(text.left) = 6 /\ Len(after) = 2
    BY <1>1, <1>2, <2>2, TwoZeros, Zenon
  <2>3. missing = 0
    BY <2>a
  <2>4. six \o Zeros(0) = six
    BY <1>1, ConcatEmptySeq DEF Zeros
  <2> HIDE DEF missing
  <2> QED BY <1>2, <2>1, <2>2, <2>3, <2>4
<1>6. h \in Groups8 /\ \A i \in 1..6 : h[i] = g[i]
  <2> DEFINE zeros == <<0, 0>>
  <2>1. zeros \in Seq(Group) /\ Len(zeros) = 2
    BY TwoZeros
  <2> HIDE DEF zeros
  <2>2. /\ six \o zeros \in Seq(Group)
        /\ Len(six \o zeros) = Len(six) + Len(zeros)
        /\ \A i \in 1 .. Len(six) + Len(zeros) :
               (six \o zeros)[i] = IF i <= Len(six) THEN six[i] ELSE zeros[i - Len(six)]
    BY <1>1, <2>1, ConcatProperties
  <2>3. h = six \o zeros
    BY DEF zeros
  <2> HIDE DEF h
  <2>4. h \in Seq(Group)
    BY <2>2, <2>3, Zenon
  <2>5. Len(h) = 8
    BY <1>1, <2>1, <2>2, <2>3
  <2>6. ASSUME NEW i \in 1..6 PROVE h[i] = g[i]
    <3>1. /\ i \in 1 .. Len(six) + Len(zeros) /\ i <= Len(six)
      BY <1>1, <2>1
    <3>2. h[i] = six[i]
      BY <2>2, <2>3, <3>1
    <3> QED BY <1>1, <3>2
  <2> QED BY <2>4, <2>5, <2>6 DEF Groups8
<1> HIDE DEF h
<1>7. h # <<>> /\ ParseV4(tail) = tail
  BY <1>6, EmptySeq DEF Groups8, ParseV4
<1>8. ParseV6(text) = SubSeq(BytesOfGroups(h), 1, 12) \o tail
  BY <1>2, <1>3, <1>5, <1>7 DEF ParseV6, BytesOfGroups
<1>9. \A i \in 1..12 : BytesOfGroups(h)[i] = BytesOfGroups(g)[i]
  BY <1>6 DEF BytesOfGroups
<1>10. SubSeq(BytesOfGroups(h), 1, 12) = SubSeq(BytesOfGroups(g), 1, 12)
  <2> DEFINE b == BytesOfGroups(h)
             c == BytesOfGroups(g)
  <2>1. b \in [1..16 -> Byte] /\ c \in [1..16 -> Byte]
    BY <1>6, BytesRead
  <2>2. \A i \in 1..12 : b[i] = c[i]
    BY <1>9
  <2> HIDE DEF b, c
  <2>3. /\ \A i \in 1..12 : b[i] \in Byte
        /\ \A i \in 1..12 : c[i] \in Byte
    BY <2>1
  <2> DEFINE first == SubSeq(b, 1, 12)
             second == SubSeq(c, 1, 12)
  <2>4. first \in Seq(Byte) /\ Len(first) = 12 /\ \A i \in 1..12 : first[i] = b[i]
    BY <2>3, SubSeqProperties
  <2>5. second \in Seq(Byte) /\ Len(second) = 12 /\ \A i \in 1..12 : second[i] = c[i]
    BY <2>3, SubSeqProperties
  <2> HIDE DEF first, second
  <2>6. first = second
    BY <2>2, <2>4, <2>5, SeqEqual
  <2> QED BY <2>6 DEF first, second, b, c
<1> QED BY <1>2, <1>8, <1>10 DEF text, six

LEMMA FunctionIsSeq ==
    ASSUME NEW S, NEW n \in Nat, NEW f \in [1..n -> S]
    PROVE  f \in Seq(S) /\ Len(f) = n
  OBVIOUS

LEMMA SixteenBytes ==
    ASSUME NEW b \in [1..16 -> Byte]
    PROVE  /\ b \in Seq(Byte) /\ Len(b) = 16
           /\ SubSeq(b, 13, 16) \in Octets
           /\ \A i \in 1..4 : SubSeq(b, 13, 16)[i] = b[i + 12]
           /\ SubSeq(b, 1, 12) \in Seq(Byte) /\ Len(SubSeq(b, 1, 12)) = 12
           /\ \A i \in 1..12 : SubSeq(b, 1, 12)[i] = b[i]
           /\ SubSeq(b, 1, 12) \o SubSeq(b, 13, 16) = b
<1>1. b \in Seq(Byte) /\ Len(b) = 16
  <2>1. b = [i \in 1..16 |-> b[i]] /\ \A i \in 1..16 : b[i] \in Byte
    OBVIOUS
  <2> QED BY <2>1
<1>2. \A i \in 1..16 : b[i] \in Byte
  OBVIOUS
<1>3. \A i \in 13..16 : b[i] \in Byte
  BY <1>2
<1>4. \A i \in 1..12 : b[i] \in Byte
  BY <1>2
<1> DEFINE low == SubSeq(b, 13, 16)
           high == SubSeq(b, 1, 12)
<1>5. low \in Seq(Byte) /\ Len(low) = 4 /\ \A i \in 1..4 : low[i] = b[i + 12]
  <2>1. /\ low \in Seq(Byte) /\ Len(low) = 4 /\ \A i \in 1 .. 16 - 13 + 1 : low[i] = b[13 + i - 1]
    BY <1>3, SubSeqProperties
  <2> HIDE DEF low
  <2> QED BY <2>1
<1>6. high \in Seq(Byte) /\ Len(high) = 12 /\ \A i \in 1..12 : high[i] = b[i]
  <2>1. /\ high \in Seq(Byte) /\ Len(high) = 12 /\ \A i \in 1 .. 12 - 1 + 1 : high[i] = b[1 + i - 1]
    BY <1>4, SubSeqProperties
  <2> HIDE DEF high
  <2> QED BY <2>1
<1>7. high \o low = b
  <2>1. SubSeq(b, 1, 12) \o SubSeq(b, 12 + 1, 16) = SubSeq(b, 1, 16)
    BY <1>1, ConcatAdjacentSubSeq
  <2>2. SubSeq(b, 1, 16) = b
    BY <1>1, SubSeqFull
  <2> QED BY <2>1, <2>2
<1> HIDE DEF low, high
<1>8. low \in Octets
  BY <1>5, LenProperties DEF Octets
<1> QED BY <1>1, <1>5, <1>6, <1>7, <1>8 DEF low, high

\* Bytes that say they hold an IPv4 address hold the one they end in.
Holds(b, o) ==
    /\ b \in [1..16 -> Byte]
    /\ \A i \in 1..10 : b[i] = 0
    /\ b[11] = 255 /\ b[12] = 255
    /\ \A i \in 1..4 : b[i + 12] = o[i]

LEMMA MappedBytes ==
    ASSUME NEW b, NEW o \in Octets, Holds(b, o)
    PROVE  b # <<>> /\ IsV4Mapped(b) /\ SubSeq(b, 13, 16) = o
<1>0. b \in [1..16 -> Byte]
  BY DEF Holds
<1>1. IsV4Mapped(b)
  BY DEF Holds, IsV4Mapped, AllZero
<1>2. b # <<>>
  BY <1>0, SixteenBytes, EmptySeq
<1>3. SubSeq(b, 13, 16) = o
  <2> DEFINE low == SubSeq(b, 13, 16)
  <2>0. low \in Octets /\ \A i \in 1..4 : low[i] = b[i + 12]
    BY <1>0, SixteenBytes
  <2> HIDE DEF low
  <2>1. low \in Octets /\ \A i \in 1..4 : low[i] = o[i]
    BY <2>0 DEF Holds
  <2>2. low = o
    BY <2>1 DEF Octets
  <2> QED BY <2>2 DEF low
<1> QED BY <1>1, <1>2, <1>3

\* A written IPv6 address without a dotted tail, in full and with one.
LEMMA RespelledV6 ==
    ASSUME NEW text \in Text, ~IsV4(text), NEW other \in Respelled(text)
    PROVE  BytesOf(other) = BytesOf(text)
<1>1. CASE text.tail # <<>> \/ Groups(text) = <<>>
  <2>1. Respelled(text) = {text}
    BY <1>1 DEF Respelled
  <2> QED BY <2>1
<1>2. CASE text.tail = <<>> /\ Groups(text) # <<>>
  <2> DEFINE g == Groups(text)
             b == BytesOfGroups(g)
             tailed == [InFull(SubSeq(g, 1, 6)) EXCEPT !.tail = SubSeq(b, 13, 16)]
  <2>1. g \in Groups8
    BY <1>2, GroupsRead
  <2>2. ParseV6(text) = b
    BY <1>2 DEF ParseV6, BytesOfGroups
  <2>3. Respelled(text) = {InFull(g), tailed}
    BY <1>2, <2>2 DEF Respelled
  <2>4. ParseV6(InFull(g)) = b /\ ~IsV4(InFull(g))
    BY <2>1, ReadInFull
  <2>5. b \in [1..16 -> Byte]
    BY <2>1, BytesRead
  <2>6. SubSeq(b, 13, 16) \in Octets /\ SubSeq(b, 1, 12) \o SubSeq(b, 13, 16) = b
    BY <2>5, SixteenBytes
  <2>7. ParseV6(tailed) = b /\ ~IsV4(tailed)
    <3> DEFINE tail == SubSeq(b, 13, 16)
    <3>1. tail \in Octets /\ SubSeq(b, 1, 12) \o tail = b
      BY <2>6
    <3> HIDE DEF tail
    <3>2. LET written == [InFull(SubSeq(g, 1, 6)) EXCEPT !.tail = tail] IN
          ~IsV4(written) /\ ParseV6(written) = SubSeq(BytesOfGroups(g), 1, 12) \o tail
      BY <2>1, <3>1, ReadTailed
    <3> QED BY <3>1, <3>2 DEF tail
  <2> HIDE DEF g, b, tailed
  <2> QED BY <2>2, <2>3, <2>4, <2>7 DEF BytesOf
<1> QED BY <1>1, <1>2

LEMMA OctetsRead ==
    ASSUME NEW o \in Octets
    PROVE  o \in Seq(Byte) /\ Len(o) = 4 /\ o # <<>> /\ ParseV4(o) = o
<1>1. o \in Seq(Byte) /\ Len(o) = 4
  <2>1. o = [i \in 1..4 |-> o[i]] /\ \A i \in 1..4 : o[i] \in Byte
    BY DEF Octets
  <2> QED BY <2>1
<1>2. Len(<<>>) = 0
  OBVIOUS
<1>3. o # <<>>
  BY <1>1, <1>2
<1> QED BY <1>1, <1>3 DEF ParseV4

\* Sixteen bytes from six groups and a dotted tail.
Tailed(g, o) == SubSeq(BytesOfGroups(g), 1, 12) \o o

LEMMA TailedBytes ==
    ASSUME NEW g \in Groups8, NEW o \in Octets, NEW b, b = Tailed(g, o)
    PROVE  /\ b \in [1..16 -> Byte]
           /\ \A i \in 1..12 : b[i] = BytesOfGroups(g)[i]
           /\ \A i \in 1..4 : b[i + 12] = o[i]
<1> DEFINE high == SubSeq(BytesOfGroups(g), 1, 12)
<1>1. high \in Seq(Byte) /\ Len(high) = 12 /\ \A i \in 1..12 : high[i] = BytesOfGroups(g)[i]
  BY BytesRead, SixteenBytes
<1>2. o \in Seq(Byte) /\ Len(o) = 4
  BY OctetsRead
<1> HIDE DEF high
<1>a. b = high \o o
  BY DEF Tailed, high
<1>3. /\ b \in Seq(Byte) /\ Len(b) = Len(high) + Len(o)
      /\ \A i \in 1 .. Len(high) + Len(o) : b[i] = IF i <= Len(high) THEN high[i] ELSE o[i - Len(high)]
  <2> DEFINE whole == high \o o
  <2>1. /\ whole \in Seq(Byte) /\ Len(whole) = Len(high) + Len(o)
        /\ \A i \in 1 .. Len(high) + Len(o) :
               whole[i] = IF i <= Len(high) THEN high[i] ELSE o[i - Len(high)]
    BY <1>1, <1>2, ConcatProperties
  <2> HIDE DEF whole
  <2>2. b = whole
    BY <1>a DEF whole
  <2> QED BY <2>1, <2>2
<1>4. Len(b) = 16
  BY <1>1, <1>2, <1>3
<1>5. \A i \in 1..16 : b[i] = IF i <= 12 THEN high[i] ELSE o[i - 12]
  BY <1>1, <1>2, <1>3
<1>6. b \in [1..16 -> Byte]
  <2>1. b \in [1..Len(b) -> Byte]
    BY <1>3, LenProperties, Zenon
  <2> QED BY <1>4, <2>1
<1>7. \A i \in 1..4 : b[i + 12] = o[i]
  BY <1>5
<1>8. ASSUME NEW i \in 1..12 PROVE b[i] = BytesOfGroups(g)[i]
  <2>1. i \in 1..16 /\ i <= 12
    OBVIOUS
  <2>2. b[i] = high[i]
    BY <1>5, <2>1
  <2> QED BY <1>1, <2>2
<1> QED BY <1>6, <1>7, <1>8

\* Five groups of zeros, ffff and two more.
InGroups(x, y) == Zeros(5) \o <<65535>> \o <<x, y>>

LEMMA MappedGroups ==
    ASSUME NEW x \in Group, NEW y \in Group, NEW g, g = InGroups(x, y)
    PROVE  /\ g \in Groups8
           /\ \A i \in 1..5 : g[i] = 0
           /\ g[6] = 65535 /\ g[7] = x /\ g[8] = y
<1> DEFINE z == Zeros(5)
           m == <<65535>>
           t == <<x, y>>
           h == z \o m
<1>0. g = h \o t
  BY DEF InGroups
<1>1. z \in Seq(Group) /\ Len(z) = 5 /\ \A i \in 1..5 : z[i] = 0
  BY ZerosAreGroups
<1>2. m \in Seq(Group) /\ Len(m) = 1 /\ m[1] = 65535
  <2> 65535 \in Group
    BY GroupIs
  <2> QED OBVIOUS
<1>3. t \in Seq(Group) /\ Len(t) = 2 /\ t[1] = x /\ t[2] = y
  OBVIOUS
<1> HIDE DEF z, m, t, h
<1>4. /\ h \in Seq(Group) /\ Len(h) = Len(z) + Len(m)
      /\ \A i \in 1 .. Len(z) + Len(m) : h[i] = IF i <= Len(z) THEN z[i] ELSE m[i - Len(z)]
  <2>1. h = z \o m
    BY DEF h
  <2>2. z \in Seq(Group) /\ m \in Seq(Group)
    BY <1>1, <1>2
  <2> QED BY <2>1, <2>2, JoinedGroups, Zenon
<1>5. Len(h) = 6 /\ (\A i \in 1..5 : h[i] = 0) /\ h[6] = 65535
  BY <1>1, <1>2, <1>4
<1>6. /\ g \in Seq(Group) /\ Len(g) = Len(h) + Len(t)
      /\ \A i \in 1 .. Len(h) + Len(t) : g[i] = IF i <= Len(h) THEN h[i] ELSE t[i - Len(h)]
  <2>1. h \in Seq(Group) /\ t \in Seq(Group)
    BY <1>3, <1>4
  <2>2. /\ h \o t \in Seq(Group) /\ Len(h \o t) = Len(h) + Len(t)
        /\ \A i \in 1 .. Len(h) + Len(t) : (h \o t)[i] = IF i <= Len(h) THEN h[i] ELSE t[i - Len(h)]
    BY <2>1, JoinedGroups, Zenon
  <2>3. g = h \o t
    BY <1>0
  <2> QED BY <2>2, <2>3, Zenon
<1>7. Len(g) = 8
  BY <1>3, <1>5, <1>6
<1>8. (\A i \in 1..5 : g[i] = 0) /\ g[6] = 65535 /\ g[7] = x /\ g[8] = y
  BY <1>3, <1>5, <1>6
<1>9. g \in Groups8
  BY <1>6, <1>7 DEF Groups8
<1> QED BY <1>8, <1>9

\* An IPv4 address, and two ways to write it as one of IPv6.
LEMMA RespelledV4 ==
    ASSUME NEW text \in Text, IsV4(text), NEW other \in Respelled(text)
    PROVE  BytesOf(other) = BytesOf(text)
<1> DEFINE o == text.v4
           x == o[1] * 256 + o[2]
           y == o[3] * 256 + o[4]
<1>1. o \in Octets
  BY DEF Text, IsV4
<1>2. BytesOf(text) = o
  BY <1>1 DEF BytesOf, ParseV4
<1>3. Respelled(text) = {Mapped(o), InFull(InGroups(x, y))}
  BY DEF Respelled, InGroups
<1> HIDE DEF o
<1>4. o[1] \in Byte /\ o[2] \in Byte /\ o[3] \in Byte /\ o[4] \in Byte
  BY <1>1 DEF Octets
<1>5. /\ x \in Group /\ x \div 256 = o[1] /\ x % 256 = o[2]
      /\ y \in Group /\ y \div 256 = o[3] /\ y % 256 = o[4]
  <2> DEFINE a == o[1]
             b == o[2]
             c == o[3]
             d == o[4]
  <2>1. a \in Byte /\ b \in Byte /\ c \in Byte /\ d \in Byte
    BY <1>4
  <2>2. x = a * 256 + b /\ y = c * 256 + d
    OBVIOUS
  <2> HIDE DEF a, b, c, d, x, y
  <2>3. x \in Group /\ x \div 256 = a /\ x % 256 = b
    BY <2>1, <2>2, TwoBytes
  <2>4. y \in Group /\ y \div 256 = c /\ y % 256 = d
    BY <2>1, <2>2, TwoBytes
  <2> QED BY <2>3, <2>4 DEF a, b, c, d
<1> HIDE DEF x, y
<1>6. BytesOf(InFull(InGroups(x, y))) = o
  <2> DEFINE g == InGroups(x, y)
             b == BytesOfGroups(g)
  <2>1. g \in Groups8 /\ (\A i \in 1..5 : g[i] = 0) /\ g[6] = 65535 /\ g[7] = x /\ g[8] = y
    BY <1>5, MappedGroups
  <2> HIDE DEF g
  <2>2. ~IsV4(InFull(g)) /\ ParseV6(InFull(g)) = b
    BY <2>1, ReadInFull
  <2>3. b \in [1..16 -> Byte]
    BY <2>1, BytesRead
  <2>4. \A i \in 1..10 : b[i] = 0
    BY <2>1 DEF BytesOfGroups
  <2>5. b[11] = 255 /\ b[12] = 255
    BY <2>1 DEF BytesOfGroups
  <2>6. b[13] = o[1] /\ b[14] = o[2] /\ b[15] = o[3] /\ b[16] = o[4]
    BY <1>5, <2>1 DEF BytesOfGroups
  <2> HIDE DEF b
  <2>7. \A i \in 1..4 : b[i + 12] = o[i]
    BY <2>6
  <2>a. Holds(b, o)
    BY <2>3, <2>4, <2>5, <2>7 DEF Holds
  <2>8. b # <<>> /\ IsV4Mapped(b) /\ SubSeq(b, 13, 16) = o
    BY <1>1, <2>a, MappedBytes
  <2>9. BytesOf(InFull(g)) = o
    BY <2>2, <2>8 DEF BytesOf
  <2> QED BY <2>9 DEF g
<1>7. BytesOf(Mapped(o)) = o
  <2> DEFINE g == InGroups(0, 0)
             c == BytesOfGroups(g)
             b == Tailed(g, o)
             written == Mapped(o)
  <2>0. 0 \in Group /\ 65535 \in Group
    BY GroupIs
  <2>1. g \in Groups8 /\ (\A i \in 1..5 : g[i] = 0) /\ g[6] = 65535
    BY <2>0, MappedGroups
  <2>2. /\ ~IsV4(written) /\ written.left = <<>> /\ written.gap = TRUE
        /\ written.right = <<65535>> /\ written.tail = o
    BY DEF Mapped, IsV4
  <2>3. o # <<>> /\ ParseV4(o) = o
    BY <1>1, OctetsRead
  <2> HIDE DEF written
  <2>4. Groups(written) = g
    <3> DEFINE z == Zeros(5)
               m == <<65535>>
               t == <<0, 0>>
               after == written.right \o (IF written.tail = <<>> THEN <<>> ELSE <<0, 0>>)
               missing == 8 - Len(written.left) - Len(after)
    <3>1. Groups(written) = IF IF written.gap THEN missing >= 1 ELSE missing = 0
                            THEN written.left \o Zeros(missing) \o after ELSE <<>>
      BY DEF Groups
    <3>2. after = m \o t
      BY <2>2, <2>3
    <3>3. m \in Seq(Group) /\ Len(m) = 1 /\ t \in Seq(Group) /\ Len(t) = 2
      BY <2>0, TwoZeros
    <3>4. z \in Seq(Group)
      BY ZerosAreGroups
    <3>5. g = (z \o m) \o t
      BY DEF InGroups
    <3>6. Len(written.left) = 0
      BY <2>2, EmptySeq
    <3> HIDE DEF z, m, t, after, g
    <3>7. m \in Seq(Group) /\ t \in Seq(Group)
      BY <3>3
    <3>8. Len(after) = Len(m) + Len(t)
      BY <3>2, <3>7, JoinedGroups, Zenon
    <3>9. missing = 5
      BY <3>3, <3>6, <3>8
    <3> HIDE DEF missing
    <3>10. Groups(written) = <<>> \o z \o after
      BY <2>2, <3>1, <3>9 DEF z
    <3>11. <<>> \o z = z
      BY <3>4, ConcatEmptySeq
    <3>12. z \o (m \o t) = g
      <4>1. (z \o m) \o t = z \o (m \o t)
        BY <3>4, <3>7, GroupsAssociate, Zenon
      <4> QED BY <3>5, <4>1
    <3> QED BY <3>2, <3>10, <3>11, <3>12
  <2> HIDE DEF g
  <2>5. g # <<>>
    BY <2>1, EightNotNone
  <2>6. ParseV6(written) = b
    BY <2>2, <2>3, <2>4, <2>5 DEF ParseV6, BytesOfGroups, Tailed
  <2>7. /\ b \in [1..16 -> Byte]
        /\ \A i \in 1..12 : b[i] = c[i]
        /\ \A i \in 1..4 : b[i + 12] = o[i]
    BY <1>1, <2>1, TailedBytes
  <2>8. \A i \in 1..10 : c[i] = 0
    BY <2>1 DEF BytesOfGroups
  <2>9. c[11] = 255 /\ c[12] = 255
    BY <2>1 DEF BytesOfGroups
  <2> HIDE DEF b, c
  <2>10. b # <<>> /\ IsV4Mapped(b) /\ SubSeq(b, 13, 16) = o
    <3>1. (\A i \in 1..10 : b[i] = 0) /\ b[11] = 255 /\ b[12] = 255
      BY <2>7, <2>8, <2>9
    <3>2. Holds(b, o)
      BY <2>7, <3>1 DEF Holds
    <3> QED BY <1>1, <3>2, MappedBytes
  <2>11. BytesOf(written) = o
    BY <2>2, <2>6, <2>10 DEF BytesOf
  <2> QED BY <2>11 DEF written
<1> QED BY <1>2, <1>3, <1>6, <1>7

\* The order of the answers does not matter to the guard.
LEMMA ReversedAllowed ==
    ASSUME NEW list \in Seq(Text)
    PROVE  Allowed(list) = Allowed(Reverse(list))
<1> DEFINE back == Reverse(list)
<1>1. Len(list) \in Nat /\ DOMAIN list = 1 .. Len(list)
  BY LenProperties
<1>2. DOMAIN back = 1 .. Len(list) /\ \A i \in 1 .. Len(list) : back[i] = list[Len(list) - i + 1]
  BY <1>1 DEF Reverse
<1>3. back \in Seq(Text)
  <2>1. \A i \in 1 .. Len(list) : back[i] \in Text
    <3> SUFFICES ASSUME NEW i \in 1 .. Len(list) PROVE list[Len(list) - i + 1] \in Text
      BY <1>2
    <3>1. Len(list) - i + 1 \in 1 .. Len(list)
      BY <1>1
    <3> QED BY <3>1, ElementOfSeq
  <2>2. back \in [1 .. Len(list) -> Text]
    BY <1>2, <2>1 DEF Reverse
  <2> QED BY <1>1, <2>2, FunctionIsSeq
<1>4. Len(back) = Len(list)
  BY <1>1, <1>2, <1>3, LenProperties
<1> HIDE DEF back
<1>5. list = <<>> <=> back = <<>>
  BY <1>3, <1>4, EmptySeq
<1>6. (\A i \in 1 .. Len(list) : ~Denied(list[i])) <=> \A i \in 1 .. Len(list) : ~Denied(back[i])
  <2>1. \A i \in 1 .. Len(list) : Len(list) - i + 1 \in 1 .. Len(list)
                                  /\ Len(list) - (Len(list) - i + 1) + 1 = i
    BY <1>1
  <2>2. \A i \in 1 .. Len(list) : list[i] = back[Len(list) - i + 1]
    BY <1>2, <2>1
  <2> QED BY <1>2, <2>1, <2>2
<1>7. Allowed(list) <=> Allowed(back)
  BY <1>1, <1>2, <1>5, <1>6 DEF Allowed
<1>8. Allowed(list) \in BOOLEAN /\ Allowed(back) \in BOOLEAN
  BY DEF Allowed
<1> QED BY <1>7, <1>8 DEF back

\* The guard judges an address, not the way it is written, and all the answers
\* of a resolver, in whatever order they come: parseIpv4, parseIpv6,
\* classifyIpAddress and createSsrfGuard.
THEOREM SpellingAndOrder == Spec => []NeitherSpellingNorOrderMatters
<1>1. ASSUME NEW list \in Seq(Text), NEW i \in DOMAIN list, NEW other \in Respelled(list[i])
      PROVE  Category(other) = Category(list[i])
  <2>1. list[i] \in Text
    BY ElementOfSeq, LenProperties
  <2>2. BytesOf(other) = BytesOf(list[i])
    BY <2>1, RespelledV4, RespelledV6
  <2> QED BY <2>2 DEF Category
<1>2. answers \in AnswerLists \cup {<<>>} => answers \in Seq(Text)
  BY AnswersAssumption, EmptySeq
<1>3. answers \in Seq(Text) => NeitherSpellingNorOrderMatters
  BY <1>1, ReversedAllowed DEF NeitherSpellingNorOrderMatters
<1> QED
  BY AnswersInvariant, <1>2, <1>3, PTL
=============================================================================

------------------------------- MODULE FetchProofs -------------------------------
(***************************************************************************)
(* What holds of the calls of a collection stage for any sources, policies, *)
(* bursts, intervals, caps and URLs.                                        *)
(***************************************************************************)
EXTENDS Fetch, FiniteSetTheorems, TLAPS

(***************************************************************************)
(* The operators of the model.                                              *)
(***************************************************************************)
\* A power of two is a number: it counts the subsets of an interval.
LEMMA PowersAreNatural == \A n \in Nat : 2 ^ n \in Nat
<1>1. ASSUME NEW n \in Nat PROVE 2 ^ n \in Nat
  <2>1. IsFiniteSet(1..n) /\ Cardinality(1..n) = n
    BY FS_Interval
  <2>2. IsFiniteSet(SUBSET (1..n)) /\ Cardinality(SUBSET (1..n)) = 2 ^ n
    BY <2>1, FS_SUBSET
  <2> QED BY <2>2, FS_CardinalityType
<1> QED BY <1>1

\* A delay is a number of ticks.
LEMMA BackoffIsNatural == ASSUME NEW n \in Nat \ {0} PROVE Backoff(n) \in Nat
<1>1. 2 ^ (n - 1) \in Nat
  BY PowersAreNatural
<1>2. BaseBackoff * 2 ^ (n - 1) \in Nat
  BY <1>1, BackoffAssumption
<1> QED BY <1>2, BackoffAssumption DEF Backoff

LEMMA AttemptsArePositive == Attempts \in Nat \ {0}
BY RetriesAssumption DEF Attempts

\* The failure that makes a count terminal is the last attempt.
LEMMA TerminalIsLast ==
  ASSUME NEW n \in Nat, n < Attempts
  PROVE  /\ Terminal(n + 1) => n + 1 = Attempts
         /\ ~Terminal(n + 1) => n + 1 < Attempts
BY RetriesAssumption DEF Terminal, Attempts

\* A redirect is followed below the limit only.
LEMMA RedirectsAreLimited ==
  ASSUME NEW target, NEW hops, TRUE \in RedirectVerdicts(target, hops)
  PROVE  hops < MaxRedirects
<1>1. PICK verdict \in UrlVerdicts(target) : TRUE = (hops < MaxRedirects /\ verdict)
  BY DEF RedirectVerdicts
<1> QED BY <1>1, Zenon

LEMMA AddToProduct ==
  ASSUME NEW a \in Int, NEW b \in Int PROVE (a + 1) * b = a * b + b
OBVIOUS

LEMMA ProductIsMonotonic ==
  ASSUME NEW a \in Nat, NEW b \in Nat, NEW n \in Nat, a <= b
  PROVE  a * n <= b * n
<1>1. PICK d \in Nat : b = a + d
  <2>1. b - a \in Nat /\ b = a + (b - a)
    OBVIOUS
  <2> QED BY <2>1
<1>2. b * n = a * n + d * n
  BY <1>1
<1>3. a * n \in Nat /\ d * n \in Nat
  BY <1>1
<1> QED BY <1>2, <1>3

\* A source's policy in numbers: a full bucket holds a token.
LEMMA FullBucket ==
  ASSUME NEW s \in Sources
  PROVE  /\ Interval[s] \in Nat \ {0} /\ Burst[s] \in Nat \ {0}
         /\ Burst[s] * Interval[s] \in Nat /\ Interval[s] <= Burst[s] * Interval[s]
<1>1. Interval[s] \in Nat \ {0} /\ Burst[s] \in Nat \ {0}
  BY IntervalAssumption, BurstAssumption
<1>2. 1 * Interval[s] <= Burst[s] * Interval[s]
  BY <1>1, ProductIsMonotonic
<1>3. Burst[s] * Interval[s] \in Nat
  BY <1>1
<1>4. 1 * Interval[s] = Interval[s]
  BY <1>1
<1> QED BY <1>1, <1>2, <1>3, <1>4

\* The refill of a bucket: never above the burst, never more than the time
\* since the last look, and a token when there is time for one.
LEMMA RefilledIsBounded ==
  ASSUME TypeOK, BucketOK, NEW s \in Sources
  PROVE  /\ Refilled(s) \in Nat
         /\ Refilled(s) <= Burst[s] * Interval[s]
         /\ bucket[s] # NoBucket =>
              /\ bucket[s] \in [tokens: Nat, last: Nat]
              /\ Refilled(s) <= bucket[s].tokens + (clock - bucket[s].last)
              /\ bucket[s].tokens + (clock - bucket[s].last) >= Interval[s]
                    => Refilled(s) >= Interval[s]
<1>1. Burst[s] * Interval[s] \in Nat /\ Interval[s] \in Nat /\ Interval[s] <= Burst[s] * Interval[s]
  BY FullBucket
<1>2. CASE bucket[s] = NoBucket
  BY <1>1, <1>2 DEF Refilled
<1>3. CASE bucket[s] # NoBucket
  <2>1. bucket[s] \in [tokens: Nat, last: Nat] /\ bucket[s].last <= clock /\ clock \in Nat
    BY <1>3 DEF TypeOK, BucketOK
  <2> DEFINE now == bucket[s].tokens + (clock - bucket[s].last)
             full == Burst[s] * Interval[s]
  <2>2. now \in Nat
    BY <2>1
  <2>3. Refilled(s) = IF full < now THEN full ELSE now
    BY <1>3 DEF Refilled
  <2>4. full \in Nat /\ Interval[s] \in Nat /\ Interval[s] <= full
    BY <1>1
  <2> HIDE DEF now, full
  <2>5. Refilled(s) \in Nat /\ Refilled(s) <= full /\ Refilled(s) <= now
          /\ (now >= Interval[s] => Refilled(s) >= Interval[s])
    BY <2>2, <2>3, <2>4
  <2> QED BY <2>1, <2>5 DEF now, full
<1> QED BY <1>2, <1>3

(***************************************************************************)
(* The steps, in groups: calls that end, requests that fail.                *)
(***************************************************************************)
SeenType == [requests: Nat, alerts: 0..1, unchanged: BOOLEAN]

Ending(result, history) ==
    /\ pc # "idle"
    /\ End(result, retry.count, history)
    /\ \/ history.requests = seen.requests
       \/ pc = "request" /\ history.requests = seen.requests + 1
    /\ call.kind = "retried" =>
          IF result = "raised"
          THEN pc \in {"logged", "unlogged"} /\ history.alerts = 1
          ELSE pc = "request" /\ history.alerts = 0

Failing == pc = "request" /\ \E unchanged \in BOOLEAN : RequestFails(unchanged)

Results == {"value", "none", "raised"}

\* A request that was sent is one more.
LEMMA RequestedIsOneMore ==
  ASSUME TypeOK, NEW unchanged \in BOOLEAN
  PROVE  /\ Requested(unchanged) \in SeenType
         /\ Requested(unchanged).requests = seen.requests + 1
         /\ Requested(unchanged).alerts = seen.alerts
<1> DEFINE sum == seen.requests + 1
           flag == seen.unchanged \/ unchanged
<1>1. seen \in SeenType
  BY DEF TypeOK, SeenType
<1>2. sum \in Nat /\ sum = seen.requests + 1
  BY <1>1 DEF SeenType
<1>3. flag \in BOOLEAN
  BY <1>1 DEF SeenType
<1>4. Requested(unchanged) = [seen EXCEPT !.requests = sum, !.unchanged = flag]
  BY DEF Requested
<1> HIDE DEF sum, flag
<1>5. Requested(unchanged) \in SeenType /\ Requested(unchanged).requests = sum
        /\ Requested(unchanged).alerts = seen.alerts
  BY <1>1, <1>2, <1>3, <1>4 DEF SeenType
<1> QED BY <1>2, <1>5

LEMMA CallsThatEnd ==
  ASSUME TypeOK, CallOK,
         ItemGranted \/ GiveUp \/ (\E unchanged \in BOOLEAN : Answer(unchanged))
           \/ FeedRaises \/ RobotsUnknown \/ EmitAlert
  PROVE  \E result \in Results, history \in SeenType : Ending(result, history)
<1>0. seen \in SeenType
  BY DEF TypeOK, SeenType
<1>1. CASE ItemGranted
  <2>1. Ending("value", seen)
    BY <1>1 DEF ItemGranted, Ending, CallOK
  <2> QED BY <2>1, <1>0 DEF Results
<1>2. CASE GiveUp
  <2>1. Ending("raised", seen)
    BY <1>2 DEF GiveUp, Ending, CallOK
  <2> QED BY <2>1, <1>0 DEF Results
<1>3. CASE \E unchanged \in BOOLEAN : Answer(unchanged)
  <2>1. PICK unchanged \in BOOLEAN : Answer(unchanged)
    BY <1>3
  <2>2. /\ Requested(unchanged) \in SeenType
        /\ Requested(unchanged).requests = seen.requests + 1
        /\ Requested(unchanged).alerts = seen.alerts
    BY RequestedIsOneMore
  <2>3. pc = "request" /\ End("value", retry.count, Requested(unchanged))
    BY <2>1 DEF Answer, Sent
  <2>4. seen.alerts = 0
    BY <2>3 DEF CallOK
  <2>5. Ending("value", Requested(unchanged))
    BY <2>2, <2>3, <2>4 DEF Ending
  <2> QED BY <2>5, <2>2 DEF Results
<1>4. CASE FeedRaises
  <2>1. Ending("raised", seen)
    BY <1>4 DEF FeedRaises, Ending
  <2> QED BY <2>1, <1>0 DEF Results
<1>5. CASE RobotsUnknown
  <2>1. Ending("none", seen)
    BY <1>5 DEF RobotsUnknown, Ending
  <2> QED BY <2>1, <1>0 DEF Results
<1>6. CASE EmitAlert
  <2> DEFINE history == [seen EXCEPT !.alerts = @ + 1]
  <2>1. seen.alerts = 0
    BY <1>6 DEF EmitAlert, CallOK
  <2>2. history \in SeenType /\ history.requests = seen.requests /\ history.alerts = 1
    BY <1>0, <2>1 DEF SeenType
  <2>3. Ending("raised", history)
    BY <1>6, <2>2 DEF EmitAlert, Ending
  <2> QED BY <2>2, <2>3 DEF Results
<1> QED BY <1>1, <1>2, <1>3, <1>4, <1>5, <1>6

LEMMA CallStepCases ==
  ASSUME TypeOK, CallOK, Step
  PROVE  \/ Acquire \/ AcquireDenied \/ Wake
         \/ \E result \in Results, history \in SeenType : Ending(result, history)
         \/ \E u \in Urls : AskMore(u) \/ Redirect(u)
         \/ Failing \/ Refuse
         \/ RecordFailure \/ Sleep \/ Again \/ RecordTerminal
<1>1. CASE Limiter
  BY <1>1, CallsThatEnd DEF Limiter
<1>2. CASE Transport
  <2>1. CASE \E unchanged \in {FALSE, call.kind # "robots"} : Answer(unchanged)
    BY <2>1, CallsThatEnd
  <2>2. CASE \E unchanged \in {FALSE, call.kind # "robots"} : AnswerRefused(unchanged)
    BY <2>2 DEF AnswerRefused, Sent, Failing
  <2>3. CASE TimesOut
    BY <2>3 DEF TimesOut, Sent, Failing
  <2>4. CASE \E u \in Urls : RedirectRefused(u)
    BY <2>4 DEF RedirectRefused, Sent, Failing
  <2> QED BY <1>2, <2>1, <2>2, <2>3, <2>4 DEF Transport
<1>3. CASE Caller
  BY <1>3, CallsThatEnd DEF Caller
<1>4. CASE Policy
  BY <1>4, CallsThatEnd DEF Policy
<1> QED BY <1>1, <1>2, <1>3, <1>4 DEF Step

LEMMA StepCases ==
  ASSUME TypeOK, CallOK, [Next]_vars
  PROVE  \/ Tick
         \/ \E kind \in Kinds, s \in Sources, u \in Urls : Start(kind, s, u)
         \/ Acquire \/ AcquireDenied \/ Wake
         \/ \E result \in Results, history \in SeenType : Ending(result, history)
         \/ \E u \in Urls : AskMore(u) \/ Redirect(u)
         \/ Failing \/ Refuse
         \/ RecordFailure \/ Sleep \/ Again \/ RecordTerminal
         \/ UNCHANGED vars
<1>1. CASE Rest
  BY <1>1 DEF Rest
<1> QED BY <1>1, CallStepCases DEF Next

(***************************************************************************)
(* The initial states.                                                      *)
(***************************************************************************)
LEMMA InitEstablishes == Init => IInv
<1> SUFFICES ASSUME Init PROVE IInv
  OBVIOUS
<1> USE DEF Init
<1>1. TypeOK
  <2>1. bucket \in [Sources -> {NoBucket} \cup [tokens: Nat, last: Nat]]
    OBVIOUS
  <2>2. grants \in [Sources -> Seq(Nat)]
    OBVIOUS
  <2>3. wait \in [sleeps: 0..MaxWaits, early: BOOLEAN, until: Nat]
    BY WaitsAssumption DEF NoWait
  <2>4. calls \in 0..MaxCalls
    BY FetchBoundsAssumption
  <2>5. retry \in [count: Nat, at: Nat] /\ seen \in [requests: Nat, alerts: 0..1, unchanged: BOOLEAN]
    BY DEF NoRetry, NothingSeen
  <2> QED BY <2>1, <2>2, <2>3, <2>4, <2>5 DEF TypeOK
<1>2. CallOK /\ RetryOK /\ CountOK
  BY DEF CallOK, RetryOK, CountOK
<1>3. BucketOK
  BY DEF BucketOK
<1>4. WaitOK /\ OneSleepSuffices
  BY DEF WaitOK, OneSleepSuffices, NoWait
<1>5. RateKept
  BY DEF RateKept
<1>6. ExhaustedAreAlerted /\ DoneOK
  BY DEF ExhaustedAreAlerted, DoneOK, NoCall
<1> QED BY <1>1, <1>2, <1>3, <1>4, <1>5, <1>6 DEF IInv

(***************************************************************************)
(* Types.                                                                   *)
(***************************************************************************)
CallType == [kind: Kinds, source: Sources, url: Urls]
HttpType == [url: Urls, hops: 0..MaxRedirects, more: BOOLEAN]

\* What a call is while it runs.
LEMMA RunningCall ==
  ASSUME CallOK, pc # "idle"
  PROVE  call \in CallType /\ http \in HttpType
BY DEF CallOK, CallType, HttpType

LEMMA FirstRequestType ==
  ASSUME NEW kind \in Kinds, NEW s \in Sources, NEW u \in Urls
  PROVE  FirstRequest(kind, s, u) \in HttpType
<1> DEFINE more == kind \in {"feed", "retried"} /\ s \in Paired
<1>1. more \in BOOLEAN
  OBVIOUS
<1>2. FirstRequest(kind, s, u) = [url |-> u, hops |-> 0, more |-> more]
  BY DEF FirstRequest
<1>3. 0 \in 0..MaxRedirects
  BY MaxRedirectsAssumption
<1> HIDE DEF more
<1> QED BY <1>1, <1>2, <1>3 DEF HttpType

LEMMA TypeStep == IInv /\ [Next]_vars => TypeOK'
<1> SUFFICES ASSUME IInv, [Next]_vars PROVE TypeOK'
  OBVIOUS
<1>0. TypeOK /\ CallOK /\ BucketOK /\ WaitOK
  BY DEF IInv
<1>1. CASE Tick
  BY <1>0, <1>1 DEF Tick, TypeOK
<1>2. CASE \E kind \in Kinds, s \in Sources, u \in Urls : Start(kind, s, u)
  <2>1. PICK kind \in Kinds, s \in Sources, u \in Urls : Start(kind, s, u)
    BY <1>2
  <2>2. http' \in HttpType
    BY <2>1, FirstRequestType DEF Start
  <2>3. call' \in CallType
    BY <2>1 DEF Start, CallType
  <2>4. wait' \in [sleeps: 0..MaxWaits, early: BOOLEAN, until: Nat]
    BY <2>1, WaitsAssumption DEF Start, NoWait
  <2>5. calls' \in 0..MaxCalls
    BY <1>0, <2>1, FetchBoundsAssumption DEF Start, TypeOK
  <2>6. retry' \in [count: Nat, at: Nat] /\ seen' \in [requests: Nat, alerts: 0..1, unchanged: BOOLEAN]
    BY <2>1 DEF Start, NoRetry, NothingSeen
  <2>7. pc' \in {"acquire", "request"} /\ done' = NoCall /\ UNCHANGED <<clock, bucket, grants>>
    BY <2>1 DEF Start
  <2> QED BY <1>0, <2>2, <2>3, <2>4, <2>5, <2>6, <2>7 DEF TypeOK, HttpType, CallType
<1>3. CASE Acquire
  <2>1. call.source \in Sources
    BY <1>0, <1>3, RunningCall DEF Acquire, CallType
  <2> DEFINE s == call.source
             left == Refilled(s) - Interval[s]
  <2>2. left \in Nat
    BY <1>0, <1>3, <2>1, RefilledIsBounded, FullBucket DEF Acquire
  <2>3. bucket' = [bucket EXCEPT ![s] = [tokens |-> left, last |-> clock]]
    BY <1>3 DEF Acquire
  <2> HIDE DEF left
  <2>4. bucket' \in [Sources -> {NoBucket} \cup [tokens: Nat, last: Nat]]
    BY <1>0, <2>1, <2>2, <2>3 DEF TypeOK
  <2>5. grants' \in [Sources -> Seq(Nat)]
    BY <1>0, <1>3, <2>1 DEF TypeOK, Acquire
  <2>6. pc' \in {"granted", "request"} /\ UNCHANGED <<clock, call, wait, http, retry, seen, done, calls>>
    BY <1>3 DEF Acquire
  <2> QED BY <1>0, <2>4, <2>5, <2>6 DEF TypeOK
<1>4. CASE AcquireDenied
  <2>1. call.source \in Sources
    BY <1>0, <1>4, RunningCall DEF AcquireDenied, CallType
  <2> DEFINE s == call.source
             ends == clock + Interval[s] - Refilled(s)
  <2>2. Refilled(s) \in Nat /\ ends \in Nat /\ clock \in Nat
    <3> DEFINE r == Refilled(s)
               token == Interval[s]
    <3>1. r \in Nat
      BY <1>0, <2>1, RefilledIsBounded
    <3>2. token \in Nat
      BY <2>1, FullBucket
    <3>3. r < token /\ clock \in Nat
      BY <1>0, <1>4 DEF AcquireDenied, TypeOK
    <3> HIDE DEF r, token
    <3>4. clock + token - r \in Nat
      BY <3>1, <3>2, <3>3
    <3> QED BY <3>1, <3>3, <3>4 DEF r, token
  <2>3. /\ bucket' = [bucket EXCEPT ![s] = [tokens |-> Refilled(s), last |-> clock]]
        /\ wait' = [wait EXCEPT !.sleeps = @ + 1, !.until = ends]
    BY <1>4 DEF AcquireDenied
  <2> HIDE DEF ends
  <2>4. bucket' \in [Sources -> {NoBucket} \cup [tokens: Nat, last: Nat]]
    BY <1>0, <2>1, <2>2, <2>3 DEF TypeOK
  <2>5. wait.sleeps + 1 \in 0..MaxWaits
    BY <1>0, <1>4, WaitsAssumption DEF TypeOK, WaitOK, AcquireDenied
  <2>6. wait' \in [sleeps: 0..MaxWaits, early: BOOLEAN, until: Nat]
    BY <1>0, <2>2, <2>3, <2>5 DEF TypeOK
  <2>7. pc' = "asleep" /\ UNCHANGED <<clock, grants, call, http, retry, seen, done, calls>>
    BY <1>4 DEF AcquireDenied
  <2> QED BY <1>0, <2>4, <2>6, <2>7 DEF TypeOK
<1>5. CASE Wake
  <2> DEFINE flag == wait.early \/ clock < wait.until
  <2>1. flag \in BOOLEAN
    BY <1>0 DEF TypeOK
  <2>2. wait' = [wait EXCEPT !.early = flag] /\ pc' = "acquire"
          /\ UNCHANGED <<clock, bucket, grants, call, http, retry, seen, done, calls>>
    BY <1>5 DEF Wake
  <2> HIDE DEF flag
  <2> QED BY <1>0, <2>1, <2>2 DEF TypeOK
<1>6. CASE \E result \in Results, history \in SeenType : Ending(result, history)
  <2>1. PICK result \in Results, history \in SeenType : Ending(result, history)
    BY <1>6
  <2>2. call \in CallType
    BY <1>0, <2>1, RunningCall DEF Ending
  <2>3. done' = [kind |-> call.kind, source |-> call.source, result |-> result,
                 failures |-> retry.count, requests |-> history.requests,
                 alerts |-> history.alerts, unchanged |-> history.unchanged]
    BY <2>1 DEF Ending, End
  <2>4. retry.count \in Nat
    BY <1>0 DEF TypeOK
  <2>5. done' \in [kind: Kinds, source: Sources, result: {"value", "none", "raised"},
                   failures: Nat, requests: Nat, alerts: 0..1, unchanged: BOOLEAN]
    BY <2>2, <2>3, <2>4 DEF CallType, SeenType, Results
  <2>6. /\ pc' = "idle" /\ call' = NoCall /\ wait' = NoWait /\ http' = NoRequest
        /\ retry' = NoRetry /\ seen' = NothingSeen /\ UNCHANGED <<clock, grants, bucket, calls>>
    BY <2>1 DEF Ending, End
  <2>7. /\ wait' \in [sleeps: 0..MaxWaits, early: BOOLEAN, until: Nat]
        /\ retry' \in [count: Nat, at: Nat]
        /\ seen' \in [requests: Nat, alerts: 0..1, unchanged: BOOLEAN]
    BY <2>6, WaitsAssumption DEF NoWait, NoRetry, NothingSeen
  <2> QED BY <1>0, <2>5, <2>6, <2>7 DEF TypeOK
<1>7. CASE \E u \in Urls : AskMore(u) \/ Redirect(u)
  <2>1. PICK u \in Urls : AskMore(u) \/ Redirect(u)
    BY <1>7
  <2>2. pc = "request" /\ http \in HttpType
    BY <1>0, <2>1, RunningCall DEF AskMore, Redirect, Sent
  <2>3. http' \in HttpType
    <3>1. CASE AskMore(u)
      BY <3>1, MaxRedirectsAssumption DEF AskMore, HttpType
    <3>2. CASE Redirect(u)
      <4>1. http.hops < MaxRedirects
        BY <3>2, RedirectsAreLimited DEF Redirect
      <4>2. http.hops + 1 \in 0..MaxRedirects
        BY <2>2, <4>1, MaxRedirectsAssumption DEF HttpType
      <4> QED BY <2>2, <3>2, <4>2 DEF Redirect, HttpType
    <3> QED BY <2>1, <3>1, <3>2
  <2>4. seen' \in SeenType
    BY <1>0, <2>1, RequestedIsOneMore DEF AskMore, Redirect
  <2>5. UNCHANGED <<clock, bucket, grants, pc, call, wait, retry, done, calls>>
    BY <2>1 DEF AskMore, Redirect
  <2> QED BY <1>0, <2>3, <2>4, <2>5 DEF TypeOK, HttpType, SeenType
<1>8. CASE Failing
  <2>1. seen' \in SeenType
    BY <1>0, <1>8, RequestedIsOneMore DEF Failing, RequestFails
  <2>2. pc' = "failed" /\ UNCHANGED <<clock, bucket, grants, call, wait, http, retry, done, calls>>
    BY <1>8 DEF Failing, RequestFails
  <2> QED BY <1>0, <2>1, <2>2 DEF TypeOK, SeenType
<1>9. CASE Refuse
  BY <1>0, <1>9 DEF Refuse, TypeOK
<1>10. CASE RecordFailure
  <2>1. retry.count + 1 \in Nat \ {0} /\ clock \in Nat
    BY <1>0 DEF TypeOK
  <2>2. clock + Backoff(retry.count + 1) \in Nat
    BY <2>1, BackoffIsNatural
  <2>3. retry' \in [count: Nat, at: Nat] /\ pc' = "retrying"
          /\ UNCHANGED <<clock, bucket, grants, call, wait, http, seen, done, calls>>
    BY <1>10, <2>1, <2>2 DEF RecordFailure
  <2> QED BY <1>0, <2>3 DEF TypeOK
<1>11. CASE Sleep
  <2>1. retry.count \in Nat \ {0} /\ clock \in Nat
    BY <1>0, <1>11 DEF TypeOK, IInv, RetryOK, Sleep
  <2>2. clock + Backoff(retry.count) \in Nat
    BY <2>1, BackoffIsNatural
  <2>3. wait' \in [sleeps: 0..MaxWaits, early: BOOLEAN, until: Nat] /\ pc' = "backoff"
          /\ UNCHANGED <<clock, bucket, grants, call, http, retry, seen, done, calls>>
    BY <1>0, <1>11, <2>2 DEF Sleep, TypeOK
  <2> QED BY <1>0, <2>3 DEF TypeOK
<1>12. CASE Again
  <2>1. call \in CallType
    BY <1>0, <1>12, RunningCall DEF Again
  <2>2. http' \in HttpType
    BY <1>12, <2>1, FirstRequestType DEF Again, CallType
  <2>3. pc' = "request" /\ UNCHANGED <<clock, bucket, grants, call, wait, retry, seen, done, calls>>
    BY <1>12 DEF Again
  <2> QED BY <1>0, <2>2, <2>3 DEF TypeOK, HttpType
<1>13. CASE RecordTerminal
  <2>1. retry' \in [count: Nat, at: Nat] /\ pc' \in {"logged", "unlogged"}
          /\ UNCHANGED <<clock, bucket, grants, call, wait, http, seen, done, calls>>
    BY <1>0, <1>13 DEF TypeOK, RecordTerminal
  <2> QED BY <1>0, <2>1 DEF TypeOK
<1>14. CASE UNCHANGED vars
  BY <1>0, <1>14 DEF vars, TypeOK
<1> QED BY <1>0, <1>1, <1>2, <1>3, <1>4, <1>5, <1>6, <1>7, <1>8, <1>9, <1>10, <1>11, <1>12,
           <1>13, <1>14, StepCases

(***************************************************************************)
(* Calls and attempts.                                                      *)
(***************************************************************************)
LEMMA CallStep == IInv /\ [Next]_vars => CallOK'
<1> SUFFICES ASSUME IInv, [Next]_vars PROVE CallOK'
  OBVIOUS
<1>0. TypeOK /\ CallOK
  BY DEF IInv
<1>1. CASE Tick
  BY <1>0, <1>1 DEF Tick, CallOK
<1>2. CASE \E kind \in Kinds, s \in Sources, u \in Urls : Start(kind, s, u)
  <2>1. PICK kind \in Kinds, s \in Sources, u \in Urls : Start(kind, s, u)
    BY <1>2
  <2>2. http' \in HttpType /\ call' \in CallType
    BY <2>1, FirstRequestType DEF Start, CallType
  <2>3. http'.more => kind \in {"feed", "retried"} /\ s \in Paired
    BY <2>1 DEF Start, FirstRequest
  <2>4. call'.kind = kind /\ call'.source = s /\ seen'.alerts = 0 /\ retry'.count = 0
    BY <2>1 DEF Start, NothingSeen, NoRetry
  <2>5. /\ pc' \in {"acquire", "request"}
        /\ pc' = "acquire" => kind \in {"robots", "item"}
        /\ pc' = "request" => kind # "item"
    BY <2>1 DEF Start
  <2> QED BY <2>2, <2>3, <2>4, <2>5 DEF CallOK, CallType, HttpType
<1>3. CASE Acquire
  <2>1. pc = "acquire" /\ UNCHANGED <<call, http, seen, retry>>
    BY <1>3 DEF Acquire
  <2>2. pc' = IF call.kind = "item" THEN "granted" ELSE "request"
    BY <1>3 DEF Acquire
  <2> QED BY <1>0, <2>1, <2>2 DEF CallOK
<1>4. CASE AcquireDenied
  BY <1>0, <1>4 DEF AcquireDenied, CallOK
<1>5. CASE Wake
  BY <1>0, <1>5 DEF Wake, CallOK
<1>6. CASE \E result \in Results, history \in SeenType : Ending(result, history)
  BY <1>6 DEF Ending, End, CallOK
<1>7. CASE \E u \in Urls : AskMore(u) \/ Redirect(u)
  <2>1. PICK u \in Urls : AskMore(u) \/ Redirect(u)
    BY <1>7
  <2>2. pc = "request" /\ UNCHANGED <<pc, call, retry>>
    BY <2>1 DEF AskMore, Redirect, Sent
  <2>3. http \in HttpType
    BY <1>0, <2>2, RunningCall
  <2>4. http' \in HttpType /\ (http'.more => http.more)
    <3>1. CASE AskMore(u)
      BY <3>1, MaxRedirectsAssumption DEF AskMore, HttpType
    <3>2. CASE Redirect(u)
      <4>1. http.hops < MaxRedirects
        BY <3>2, RedirectsAreLimited DEF Redirect
      <4>2. http.hops + 1 \in 0..MaxRedirects
        BY <2>3, <4>1, MaxRedirectsAssumption DEF HttpType
      <4>3. http' = [http EXCEPT !.url = u, !.hops = @ + 1]
        BY <3>2 DEF Redirect
      <4> QED BY <2>3, <4>2, <4>3 DEF HttpType
    <3> QED BY <2>1, <3>1, <3>2
  <2>5. seen'.alerts = seen.alerts
    BY <1>0, <2>1, RequestedIsOneMore DEF AskMore, Redirect
  <2> QED BY <1>0, <2>2, <2>4, <2>5 DEF CallOK, HttpType
<1>8. CASE Failing
  <2>1. pc = "request" /\ pc' = "failed" /\ UNCHANGED <<call, http, retry>>
    BY <1>8 DEF Failing, RequestFails
  <2>2. seen'.alerts = seen.alerts
    BY <1>0, <1>8, RequestedIsOneMore DEF Failing, RequestFails
  <2> QED BY <1>0, <2>1, <2>2 DEF CallOK
<1>9. CASE Refuse
  BY <1>0, <1>9 DEF Refuse, CallOK
<1>10. CASE RecordFailure
  BY <1>0, <1>10 DEF RecordFailure, CallOK
<1>11. CASE Sleep
  BY <1>0, <1>11 DEF Sleep, CallOK
<1>12. CASE Again
  <2>1. pc = "backoff" /\ pc' = "request" /\ UNCHANGED <<call, seen, retry>>
    BY <1>12 DEF Again
  <2>2. call \in CallType /\ call.kind = "retried"
    BY <1>0, <2>1, RunningCall DEF CallOK
  <2>3. http' = FirstRequest(call.kind, call.source, call.url)
    BY <1>12 DEF Again
  <2>4. http' \in HttpType /\ (http'.more => call.source \in Paired)
    BY <2>2, <2>3, FirstRequestType DEF CallType, FirstRequest
  <2> QED BY <1>0, <2>1, <2>2, <2>4 DEF CallOK, HttpType
<1>13. CASE RecordTerminal
  BY <1>0, <1>13 DEF RecordTerminal, CallOK
<1>14. CASE UNCHANGED vars
  BY <1>0, <1>14 DEF vars, CallOK
<1> QED BY <1>0, <1>1, <1>2, <1>3, <1>4, <1>5, <1>6, <1>7, <1>8, <1>9, <1>10, <1>11, <1>12,
           <1>13, <1>14, StepCases

LEMMA RetryStep == IInv /\ [Next]_vars => RetryOK'
<1> SUFFICES ASSUME IInv, [Next]_vars PROVE RetryOK'
  OBVIOUS
<1>0. TypeOK /\ CallOK /\ RetryOK /\ clock \in Nat /\ retry.count \in Nat
  BY DEF IInv, TypeOK
<1>1. CASE Tick
  <2>1. clock' = clock + 1 /\ UNCHANGED <<pc, retry, wait>>
    BY <1>1 DEF Tick
  <2>2. pc = "retrying" => Backoff(retry.count) \in Nat /\ retry.at \in Nat
    BY <1>0, BackoffIsNatural DEF RetryOK, TypeOK
  <2>3. pc = "retrying" => retry.at <= (clock + 1) + Backoff(retry.count)
    BY <1>0, <2>2 DEF RetryOK
  <2>4. Backoff(retry.count)' = Backoff(retry.count)
    BY <2>1 DEF Backoff
  <2> QED BY <1>0, <2>1, <2>3, <2>4 DEF RetryOK
<1>2. CASE \E kind \in Kinds, s \in Sources, u \in Urls : Start(kind, s, u)
  BY <1>2, AttemptsArePositive DEF Start, RetryOK, NoRetry
<1>3. CASE Acquire
  <2>1. retry.count = 0 /\ UNCHANGED retry /\ pc' \in {"granted", "request"}
    BY <1>0, <1>3 DEF Acquire, CallOK
  <2> QED BY <2>1, AttemptsArePositive DEF RetryOK
<1>4. CASE AcquireDenied
  BY <1>4 DEF AcquireDenied, RetryOK
<1>5. CASE Wake
  BY <1>5 DEF Wake, RetryOK
<1>6. CASE \E result \in Results, history \in SeenType : Ending(result, history)
  BY <1>6 DEF Ending, End, RetryOK
<1>7. CASE \E u \in Urls : AskMore(u) \/ Redirect(u)
  BY <1>0, <1>7 DEF AskMore, Redirect, Sent, RetryOK
<1>8. CASE Failing
  BY <1>0, <1>8 DEF Failing, RequestFails, RetryOK
<1>9. CASE Refuse
  BY <1>0, <1>9 DEF Refuse, RetryOK
<1>10. CASE RecordFailure
  <2>1. retry.count + 1 < Attempts
    BY <1>0, <1>10, TerminalIsLast DEF RecordFailure, RetryOK
  <2>2. /\ pc' = "retrying" /\ UNCHANGED clock
        /\ retry' = [count |-> retry.count + 1, at |-> clock + Backoff(retry.count + 1)]
    BY <1>10 DEF RecordFailure
  <2>3. Backoff(retry.count + 1) \in Nat
    BY <1>0, BackoffIsNatural
  <2> QED BY <1>0, <2>1, <2>2, <2>3 DEF RetryOK, Backoff
<1>11. CASE Sleep
  <2>1. pc = "retrying" /\ pc' = "backoff" /\ UNCHANGED <<clock, retry>>
          /\ wait' = [wait EXCEPT !.until = clock + Backoff(retry.count)]
    BY <1>11 DEF Sleep
  <2>2. wait'.until = clock + Backoff(retry.count)
    BY <1>0, <2>1 DEF TypeOK
  <2> QED BY <1>0, <2>1, <2>2 DEF RetryOK
<1>12. CASE Again
  BY <1>0, <1>12 DEF Again, RetryOK
<1>13. CASE RecordTerminal
  <2>1. retry.count + 1 = Attempts
    BY <1>0, <1>13, TerminalIsLast DEF RecordTerminal, RetryOK
  <2>2. pc' \in {"logged", "unlogged"} /\ retry'.count = retry.count + 1
    BY <1>13 DEF RecordTerminal
  <2> QED BY <2>1, <2>2 DEF RetryOK
<1>14. CASE UNCHANGED vars
  BY <1>0, <1>14 DEF vars, RetryOK, Backoff
<1> QED BY <1>0, <1>1, <1>2, <1>3, <1>4, <1>5, <1>6, <1>7, <1>8, <1>9, <1>10, <1>11, <1>12,
           <1>13, <1>14, StepCases

LEMMA ExhaustedStep == IInv /\ [Next]_vars => ExhaustedAreAlerted'
<1> SUFFICES ASSUME IInv, [Next]_vars PROVE ExhaustedAreAlerted'
  OBVIOUS
<1>0. TypeOK /\ CallOK /\ RetryOK /\ ExhaustedAreAlerted
  BY DEF IInv
<1>1. CASE \E result \in Results, history \in SeenType : Ending(result, history)
  <2>1. PICK result \in Results, history \in SeenType : Ending(result, history)
    BY <1>1
  <2>2. /\ done'.kind = call.kind /\ done'.result = result /\ done'.failures = retry.count
        /\ done'.alerts = history.alerts
    BY <2>1 DEF Ending, End
  <2>3. call.kind = "retried" =>
          IF result = "raised" THEN history.alerts = 1 /\ retry.count = Attempts
          ELSE history.alerts = 0 /\ retry.count < Attempts
    BY <1>0, <2>1 DEF Ending, RetryOK
  <2> QED BY <2>2, <2>3 DEF ExhaustedAreAlerted
<1>2. CASE \E kind \in Kinds, s \in Sources, u \in Urls : Start(kind, s, u)
  BY <1>2 DEF Start, NoCall, ExhaustedAreAlerted
<1>3. CASE UNCHANGED done
  BY <1>0, <1>3 DEF ExhaustedAreAlerted
<1> QED BY <1>0, <1>1, <1>2, <1>3, StepCases
        DEF Tick, Acquire, AcquireDenied, Wake, AskMore, Redirect, Failing, RequestFails, Refuse,
            RecordFailure, Sleep, Again, RecordTerminal, vars

\* The action property: a retry begins at its recorded time at the earliest.
LEMMA RetriesWaitStep ==
  ASSUME IInv, [Next]_vars, pc = "backoff", pc' = "request"
  PROVE  clock >= retry.at
<1>0. TypeOK /\ CallOK /\ retry.at <= wait.until /\ retry.at \in Nat /\ wait.until \in Nat
        /\ clock \in Nat
  BY DEF IInv, RetryOK, TypeOK
<1>1. CASE Again
  BY <1>0, <1>1 DEF Again
<1>2. CASE \E result \in Results, history \in SeenType : Ending(result, history)
  BY <1>2 DEF Ending, End
<1>3. CASE \E kind \in Kinds, s \in Sources, u \in Urls : Start(kind, s, u)
  BY <1>3 DEF Start
<1> QED BY <1>0, <1>1, <1>2, <1>3, StepCases
        DEF Tick, Acquire, AcquireDenied, Wake, AskMore, Redirect, Sent, Failing, RequestFails,
            Refuse, RecordFailure, Sleep, RecordTerminal, vars

(***************************************************************************)
(* Tokens.                                                                  *)
(***************************************************************************)
\* The steps that look into a bucket are those that ask for a token.
LEMMA BucketsRest ==
  ASSUME TypeOK, CallOK, [Next]_vars
  PROVE  Acquire \/ AcquireDenied \/ UNCHANGED <<bucket, grants>>
<1>1. CASE \E result \in Results, history \in SeenType : Ending(result, history)
  BY <1>1 DEF Ending, End
<1>2. CASE \E kind \in Kinds, s \in Sources, u \in Urls : Start(kind, s, u)
  BY <1>2 DEF Start
<1>3. CASE \E u \in Urls : AskMore(u) \/ Redirect(u)
  BY <1>3 DEF AskMore, Redirect
<1> QED BY <1>1, <1>2, <1>3, StepCases
        DEF Tick, Wake, Failing, RequestFails, Refuse, RecordFailure, Sleep, Again,
            RecordTerminal, vars

LEMMA ClockNeverRunsBack ==
  ASSUME TypeOK, CallOK, [Next]_vars PROVE clock <= clock'
<1> SUFFICES clock' \in {clock, clock + 1}
  BY DEF TypeOK
<1>1. CASE \E result \in Results, history \in SeenType : Ending(result, history)
  BY <1>1 DEF Ending, End
<1>2. CASE \E kind \in Kinds, s \in Sources, u \in Urls : Start(kind, s, u)
  BY <1>2 DEF Start
<1>3. CASE \E u \in Urls : AskMore(u) \/ Redirect(u)
  BY <1>3 DEF AskMore, Redirect
<1>4. CASE Tick
  BY <1>4 DEF Tick
<1> QED BY <1>1, <1>2, <1>3, <1>4, StepCases
        DEF Wake, Failing, RequestFails, Refuse, RecordFailure, Sleep, Again,
            RecordTerminal, vars, Acquire, AcquireDenied

LEMMA Distribute ==
  ASSUME NEW a \in Int, NEW b \in Int, NEW c \in Int
  PROVE  (a + 1 - b) * c = a * c + c - b * c
OBVIOUS

LEMMA AtMost ==
  ASSUME NEW p \in Int, NEW r \in Int, NEW f \in Int, NEW c \in Int, NEW g \in Int,
         NEW i \in Int, p + r <= f + (c - g), i <= r
  PROVE  p + i - f <= c - g
OBVIOUS

LEMMA ProductIsNatural == ASSUME NEW a \in Nat, NEW b \in Nat PROVE a * b \in Nat
OBVIOUS

\* The account of a bucket at its grants.
Account(s, g, tokens, last) ==
    \A i \in 1..Len(g) :
        (Len(g) - i + 1) * Interval[s] + tokens <= Burst[s] * Interval[s] + (last - g[i])

\* A refill keeps the account, and so does a grant paid from a refill.
LEMMA RefillKeepsAccount ==
  ASSUME NEW s \in Sources, NEW g \in Seq(Nat), NEW tokens \in Nat, NEW last \in Nat,
         NEW more \in Nat, NEW now \in Nat, last <= now, more <= tokens + (now - last),
         Account(s, g, tokens, last)
  PROVE  Account(s, g, more, now)
<1> SUFFICES ASSUME NEW i \in 1..Len(g)
             PROVE  (Len(g) - i + 1) * Interval[s] + more
                      <= Burst[s] * Interval[s] + (now - g[i])
  BY DEF Account
<1> DEFINE paid == (Len(g) - i + 1) * Interval[s]
           full == Burst[s] * Interval[s]
<1>1. Interval[s] \in Nat /\ full \in Nat
  BY FullBucket
<1>2. Len(g) - i + 1 \in Nat
  OBVIOUS
<1>3. paid \in Nat /\ g[i] \in Nat
  BY <1>1, <1>2
<1>4. paid + tokens <= full + (last - g[i])
  BY DEF Account
<1> HIDE DEF paid, full
<1>5. paid + more <= full + (now - g[i])
  BY <1>1, <1>3, <1>4
<1> QED BY <1>5 DEF paid, full

LEMMA GrantKeepsAccount ==
  ASSUME NEW s \in Sources, NEW g \in Seq(Nat), NEW now \in Nat, NEW refill \in Nat,
         Interval[s] <= refill, refill <= Burst[s] * Interval[s],
         Account(s, g, refill, now)
  PROVE  Account(s, Append(g, now), refill - Interval[s], now)
<1> DEFINE h == Append(g, now)
<1>1. h \in Seq(Nat) /\ Len(h) = Len(g) + 1 /\ h[Len(g) + 1] = now
        /\ \A i \in 1..Len(g) : h[i] = g[i]
  OBVIOUS
<1>2. Interval[s] \in Nat /\ Burst[s] * Interval[s] \in Nat
  BY FullBucket
<1> SUFFICES ASSUME NEW i \in 1..Len(h)
             PROVE  (Len(h) - i + 1) * Interval[s] + (refill - Interval[s])
                      <= Burst[s] * Interval[s] + (now - h[i])
  BY DEF Account
<1> HIDE DEF h
<1>3. CASE i = Len(g) + 1
  <2>1. (Len(h) - i + 1) * Interval[s] = Interval[s]
    BY <1>1, <1>2, <1>3
  <2> QED BY <1>1, <1>2, <1>3, <2>1
<1>4. CASE i \in 1..Len(g)
  <2> DEFINE n == Len(g) - i + 1
             paid == n * Interval[s]
             full == Burst[s] * Interval[s]
  <2>1. n \in Nat /\ Len(h) - i + 1 = n + 1
    BY <1>1, <1>4
  <2>2. paid + refill <= full + (now - g[i])
    BY <1>4 DEF Account
  <2>3. (n + 1) * Interval[s] = paid + Interval[s]
    BY <1>2, <2>1, AddToProduct
  <2>4. paid \in Nat /\ full \in Nat
    BY <1>2, <2>1, ProductIsNatural
  <2>5. g[i] \in Nat /\ h[i] = g[i]
    BY <1>1, <1>4
  <2> HIDE DEF n, paid, full
  <2>6. (n + 1) * Interval[s] + (refill - Interval[s]) <= full + (now - h[i])
    BY <1>2, <2>2, <2>3, <2>4, <2>5
  <2> QED BY <2>1, <2>6 DEF full
<1> QED BY <1>1, <1>3, <1>4

\* BucketOK, said with Account.
LEMMA Accounts ==
  ASSUME BucketOK, NEW s \in Sources, bucket[s] # NoBucket
  PROVE  Account(s, grants[s], bucket[s].tokens, bucket[s].last)
BY DEF BucketOK, Account

\* At any moment the refill fits the account.
LEMMA RefilledFits ==
  ASSUME TypeOK, BucketOK, NEW s \in Sources
  PROVE  Account(s, grants[s], Refilled(s), clock)
<1>1. CASE bucket[s] = NoBucket
  <2>1. grants[s] = <<>>
    BY <1>1 DEF BucketOK
  <2> QED BY <2>1 DEF Account
<1>2. CASE bucket[s] # NoBucket
  <2>1. /\ Refilled(s) \in Nat /\ bucket[s] \in [tokens: Nat, last: Nat]
        /\ Refilled(s) <= bucket[s].tokens + (clock - bucket[s].last)
    BY <1>2, RefilledIsBounded
  <2>2. grants[s] \in Seq(Nat) /\ clock \in Nat /\ bucket[s].last <= clock
    BY <1>2 DEF TypeOK, BucketOK
  <2>3. Account(s, grants[s], bucket[s].tokens, bucket[s].last)
    BY <1>2, Accounts
  <2> QED BY <2>1, <2>2, <2>3, RefillKeepsAccount
<1> QED BY <1>1, <1>2

\* What both steps of the limiter store of a bucket.
LEMMA StoredBucket ==
  ASSUME NEW s \in Sources, NEW tokens \in Nat, TypeOK,
         bucket' = [bucket EXCEPT ![s] = [tokens |-> tokens, last |-> clock]],
         tokens <= Burst[s] * Interval[s], UNCHANGED clock,
         Account(s, grants'[s], tokens, clock), BucketOK,
         \A r \in Sources \ {s} : grants'[r] = grants[r]
  PROVE  BucketOK'
<1>1. bucket'[s] = [tokens |-> tokens, last |-> clock]
  BY DEF TypeOK
<1>2. bucket'[s] # NoBucket /\ bucket'[s].tokens = tokens /\ bucket'[s].last = clock /\ clock \in Nat
  BY <1>1 DEF NoBucket, TypeOK
<1>3. ASSUME NEW r \in Sources \ {s} PROVE bucket'[r] = bucket[r] /\ grants'[r] = grants[r]
  BY DEF TypeOK
<1>4. clock' = clock
  OBVIOUS
<1> SUFFICES ASSUME NEW r \in Sources
             PROVE  IF bucket'[r] = NoBucket THEN grants'[r] = <<>>
                    ELSE /\ bucket'[r].last <= clock
                         /\ bucket'[r].tokens <= Burst[r] * Interval[r]
                         /\ Account(r, grants'[r], bucket'[r].tokens, bucket'[r].last)
  BY <1>4 DEF BucketOK, Account
<1>5. CASE r = s
  BY <1>2, <1>5
<1>6. CASE r # s
  BY <1>3, <1>6 DEF BucketOK, Account
<1> QED BY <1>5, <1>6

LEMMA BucketStep == IInv /\ [Next]_vars => BucketOK'
<1> SUFFICES ASSUME IInv, [Next]_vars PROVE BucketOK'
  OBVIOUS
<1>0. TypeOK /\ CallOK /\ BucketOK
  BY DEF IInv
<1>1. CASE Acquire
  <2> DEFINE s == call.source
             left == Refilled(s) - Interval[s]
  <2>1. s \in Sources
    BY <1>0, <1>1, RunningCall DEF Acquire, CallType
  <2>2. Refilled(s) \in Nat /\ Interval[s] <= Refilled(s) /\ Refilled(s) <= Burst[s] * Interval[s]
    BY <1>0, <1>1, <2>1, RefilledIsBounded, FullBucket DEF Acquire
  <2>3. left \in Nat /\ left <= Burst[s] * Interval[s]
    BY <2>1, <2>2, FullBucket
  <2>4. grants[s] \in Seq(Nat) /\ clock \in Nat
    BY <1>0, <2>1 DEF TypeOK
  <2>5. Account(s, Append(grants[s], clock), left, clock)
    BY <1>0, <2>1, <2>2, <2>4, RefilledFits, GrantKeepsAccount
  <2>6. /\ grants'[s] = Append(grants[s], clock)
        /\ \A r \in Sources \ {s} : grants'[r] = grants[r]
    BY <1>0, <1>1, <2>1 DEF Acquire, TypeOK
  <2>7. bucket' = [bucket EXCEPT ![s] = [tokens |-> left, last |-> clock]] /\ UNCHANGED clock
    BY <1>1 DEF Acquire
  <2> HIDE DEF s, left
  <2>8. Account(s, grants'[s], left, clock)
    BY <2>5, <2>6
  <2> QED BY <1>0, <2>1, <2>3, <2>6, <2>7, <2>8, StoredBucket
<1>2. CASE AcquireDenied
  <2> DEFINE s == call.source
  <2>1. s \in Sources
    BY <1>0, <1>2, RunningCall DEF AcquireDenied, CallType
  <2>2. Refilled(s) \in Nat /\ Refilled(s) <= Burst[s] * Interval[s]
    BY <1>0, <2>1, RefilledIsBounded
  <2>3. bucket' = [bucket EXCEPT ![s] = [tokens |-> Refilled(s), last |-> clock]]
          /\ UNCHANGED <<clock, grants>>
    BY <1>2 DEF AcquireDenied
  <2> HIDE DEF s
  <2>4. Account(s, grants'[s], Refilled(s), clock)
    BY <1>0, <2>1, <2>3, RefilledFits
  <2> QED BY <1>0, <2>1, <2>2, <2>3, <2>4, StoredBucket
<1>3. CASE UNCHANGED <<bucket, grants>>
  <2>1. clock \in Nat /\ clock' \in Nat /\ clock <= clock'
    BY <1>0, TypeStep, ClockNeverRunsBack DEF TypeOK
  <2>2. \A s \in Sources : bucket[s] # NoBucket => bucket[s].last \in Nat
    BY <1>0 DEF TypeOK
  <2> QED BY <1>0, <1>3, <2>1, <2>2 DEF BucketOK
<1> QED BY <1>0, <1>1, <1>2, <1>3, BucketsRest

LEMMA RateStep == IInv /\ [Next]_vars => RateKept'
<1> SUFFICES ASSUME IInv, [Next]_vars PROVE RateKept'
  OBVIOUS
<1>0. TypeOK /\ CallOK /\ BucketOK /\ RateKept
  BY DEF IInv
<1>1. CASE Acquire
  <2> DEFINE s == call.source
             h == Append(grants[s], clock)
  <2>1. s \in Sources
    BY <1>0, <1>1, RunningCall DEF Acquire, CallType
  <2>2. Refilled(s) \in Nat /\ Interval[s] <= Refilled(s) /\ Account(s, grants[s], Refilled(s), clock)
    BY <1>0, <1>1, <2>1, RefilledIsBounded, RefilledFits, FullBucket DEF Acquire
  <2>3. grants[s] \in Seq(Nat) /\ clock \in Nat
    BY <1>0, <2>1 DEF TypeOK
  <2>4. grants'[s] = h /\ \A r \in Sources \ {s} : grants'[r] = grants[r]
    BY <1>0, <1>1, <2>1 DEF Acquire, TypeOK
  <2>5. Len(h) = Len(grants[s]) + 1 /\ h[Len(grants[s]) + 1] = clock
          /\ \A i \in 1..Len(grants[s]) : h[i] = grants[s][i]
    BY <2>3
  <2>6. Interval[s] \in Nat \ {0} /\ Burst[s] \in Nat \ {0} /\ Burst[s] * Interval[s] \in Nat
    BY <2>1, FullBucket
  <2> HIDE DEF h, s
  <2>7. ASSUME NEW i \in 1..Len(h), NEW j \in 1..Len(h), i <= j
        PROVE  (j - i + 1 - Burst[s]) * Interval[s] <= h[j] - h[i]
    <3>0. \A k \in 1..Len(grants[s]) : grants[s][k] \in Nat
      BY <2>3
    <3>1. CASE j # Len(grants[s]) + 1
      <4>1. i \in 1..Len(grants[s]) /\ j \in 1..Len(grants[s])
        BY <2>3, <2>5, <2>7, <3>1
      <4>2. (j - i + 1 - Burst[s]) * Interval[s] <= grants[s][j] - grants[s][i]
        BY <1>0, <2>1, <2>7, <4>1 DEF RateKept
      <4> QED BY <2>5, <4>1, <4>2
    <3>2. CASE j = Len(grants[s]) + 1 /\ i # j
      <4> DEFINE n == Len(grants[s]) - i + 1
                 paid == n * Interval[s]
                 full == Burst[s] * Interval[s]
      <4>1. i \in 1..Len(grants[s]) /\ n \in Nat /\ j - i + 1 = n + 1
        BY <2>3, <2>5, <2>7, <3>2
      <4>2. paid + Refilled(s) <= full + (clock - grants[s][i])
        BY <2>2, <4>1 DEF Account
      <4>3. paid \in Nat /\ full \in Nat /\ grants[s][i] \in Nat
        BY <2>6, <3>0, <4>1, ProductIsNatural
      <4> HIDE DEF n
      <4>4. (n + 1 - Burst[s]) * Interval[s] = paid + Interval[s] - full
        BY <2>6, <4>1, Distribute
      <4> HIDE DEF paid, full
      <4>5. (n + 1 - Burst[s]) * Interval[s] <= clock - grants[s][i]
        <5> DEFINE r == Refilled(s)
                   token == Interval[s]
                   then == grants[s][i]
        <5>1. r \in Int /\ token \in Int /\ then \in Int /\ token <= r
          BY <2>2, <2>6, <4>3
        <5>2. paid + r <= full + (clock - then)
          BY <4>2
        <5>3. paid \in Int /\ full \in Int /\ clock \in Int
          BY <2>3, <4>3
        <5> HIDE DEF r, token, then
        <5>4. paid + token - full <= clock - then
          BY <5>1, <5>2, <5>3, AtMost
        <5> QED BY <4>4, <5>4 DEF token, then
      <4>6. h[j] = clock /\ h[i] = grants[s][i]
        BY <2>5, <3>2, <4>1
      <4> QED BY <4>1, <4>5, <4>6
    <3>3. CASE i = j
      <4>1. h[j] - h[i] = 0
        <5>1. h[i] \in Nat
          BY <2>3, <2>5, <2>7, <3>0
        <5> QED BY <3>3, <5>1
      <4>2. j - i + 1 - Burst[s] \in Int /\ j - i + 1 - Burst[s] <= 0
        BY <2>6, <3>3
      <4>3. (Burst[s] - 1) * Interval[s] \in Nat
        BY <2>6
      <4>4. (j - i + 1 - Burst[s]) * Interval[s] = 0 - (Burst[s] - 1) * Interval[s]
        BY <2>6, <3>3
      <4> QED BY <4>1, <4>3, <4>4
    <3> QED BY <3>1, <3>2, <3>3
  <2>8. ASSUME NEW r \in Sources, NEW i \in 1..Len(grants'[r]), NEW j \in 1..Len(grants'[r]), i <= j
        PROVE  (j - i + 1 - Burst[r]) * Interval[r] <= grants'[r][j] - grants'[r][i]
    <3>1. CASE r = s
      BY <2>4, <2>7, <2>8, <3>1
    <3>2. CASE r # s
      <4>1. grants'[r] = grants[r]
        BY <2>4, <3>2
      <4> QED BY <1>0, <2>8, <4>1 DEF RateKept
    <3> QED BY <3>1, <3>2
  <2> QED BY <2>8 DEF RateKept
<1>2. CASE UNCHANGED grants
  BY <1>0, <1>2 DEF RateKept
<1> QED BY <1>0, <1>1, <1>2, BucketsRest DEF AcquireDenied

(***************************************************************************)
(* Sleeps.                                                                  *)
(***************************************************************************)
LEMMA WaitStep == IInv /\ [Next]_vars => WaitOK'
<1> SUFFICES ASSUME IInv, [Next]_vars PROVE WaitOK'
  OBVIOUS
<1>0. TypeOK /\ CallOK /\ BucketOK /\ WaitOK
  BY DEF IInv
<1>1. CASE Tick
  <2>1. /\ clock' = clock + 1 /\ clock \in Nat
        /\ UNCHANGED <<bucket, pc, call, wait>>
    BY <1>0, <1>1 DEF Tick, TypeOK
  <2>2. CASE pc \in {"acquire", "asleep"} /\ wait.sleeps > 0
    <3>1. call.source \in Sources
      BY <1>0, <2>2, RunningCall DEF CallType
    <3>2. bucket[call.source] \in [tokens: Nat, last: Nat]
      BY <1>0, <2>2, <3>1 DEF TypeOK, WaitOK
    <3>3. Interval[call.source] \in Nat
      BY <3>1, FullBucket
    <3>5. /\ pc = "acquire" => wait.sleeps < MaxWaits
          /\ bucket[call.source] # NoBucket
          /\ pc = "asleep" =>
                bucket[call.source].tokens + (wait.until - bucket[call.source].last)
                  >= Interval[call.source]
          /\ pc = "acquire" /\ ~wait.early =>
                bucket[call.source].tokens + (clock - bucket[call.source].last)
                  >= Interval[call.source]
      BY <1>0, <2>2 DEF WaitOK
    <3>6. bucket' = bucket /\ call' = call /\ pc' = pc /\ wait' = wait /\ clock' = clock + 1
      BY <2>1
    <3>7. ASSUME pc = "acquire", ~wait.early
          PROVE  bucket'[call'.source].tokens + (clock' - bucket'[call'.source].last)
                   >= Interval[call'.source]
      <4>1. bucket[call.source].tokens + (clock - bucket[call.source].last)
              >= Interval[call.source]
        BY <3>5, <3>7, Zenon
      <4>2. bucket'[call'.source] = bucket[call.source] /\ call'.source = call.source
        BY <3>6
      <4>3. clock \in Nat /\ clock' = clock + 1
        BY <2>1
      <4>4. bucket[call.source].tokens + (clock' - bucket[call.source].last)
              >= Interval[call.source]
        BY <3>2, <3>3, <4>1, <4>3
      <4> QED BY <4>2, <4>4
    <3>8. bucket' = bucket /\ call' = call /\ pc' = pc /\ wait' = wait
      BY <3>6
    <3> QED BY <2>2, <3>5, <3>7, <3>8, Zenon DEF WaitOK
  <2>3. CASE ~(pc \in {"acquire", "asleep"} /\ wait.sleeps > 0)
    BY <1>0, <2>1, <2>3 DEF WaitOK
  <2> QED BY <2>2, <2>3
<1>2. CASE \E kind \in Kinds, s \in Sources, u \in Urls : Start(kind, s, u)
  BY <1>2, WaitsAssumption DEF Start, NoWait, WaitOK
<1>3. CASE AcquireDenied
  <2> DEFINE s == call.source
             r == Refilled(s)
             token == Interval[s]
             ends == clock + token - r
  <2>1. s \in Sources
    BY <1>0, <1>3, RunningCall DEF AcquireDenied, CallType
  <2>2. r \in Nat /\ token \in Nat /\ clock \in Nat /\ wait.sleeps \in Nat
    BY <1>0, <2>1, RefilledIsBounded, FullBucket DEF TypeOK
  <2>3. /\ bucket' = [bucket EXCEPT ![s] = [tokens |-> r, last |-> clock]]
        /\ wait' = [wait EXCEPT !.sleeps = @ + 1, !.until = ends]
        /\ pc' = "asleep" /\ call' = call
    BY <1>3 DEF AcquireDenied
  <2>4. wait'.sleeps > 0 /\ wait'.until = ends
    BY <1>0, <2>2, <2>3 DEF TypeOK
  <2>5. bucket'[s] = [tokens |-> r, last |-> clock]
    BY <1>0, <2>1, <2>3 DEF TypeOK
  <2>6. call'.source = s
    BY <2>3
  <2> HIDE DEF s, r
  <2>7. bucket'[s] # NoBucket /\ bucket'[s].tokens = r /\ bucket'[s].last = clock
    BY <2>2, <2>5 DEF NoBucket
  <2>8. r + (ends - clock) >= token
    BY <2>2
  <2> HIDE DEF token, ends
  <2> QED BY <2>3, <2>4, <2>6, <2>7, <2>8 DEF WaitOK, token
<1>4. CASE Wake
  <2> DEFINE flag == wait.early \/ clock < wait.until
  <2>1. flag \in BOOLEAN /\ wait \in [sleeps: 0..MaxWaits, early: BOOLEAN, until: Nat]
          /\ clock \in Nat
    BY <1>0 DEF TypeOK
  <2>2. wait' = [wait EXCEPT !.early = flag] /\ pc = "asleep" /\ pc' = "acquire"
          /\ wait.sleeps < MaxWaits /\ UNCHANGED <<clock, bucket, call>>
    BY <1>4 DEF Wake
  <2>3. call.source \in Sources
    BY <1>0, <2>2, RunningCall DEF CallType
  <2>4. bucket[call.source] \in [tokens: Nat, last: Nat]
    BY <1>0, <2>2, <2>3 DEF TypeOK, WaitOK
  <2>5. bucket[call.source].tokens + (wait.until - bucket[call.source].last)
          >= Interval[call.source] /\ bucket[call.source] # NoBucket
    BY <1>0, <2>2 DEF WaitOK
  <2>6. Interval[call.source] \in Nat
    BY <2>3, FullBucket
  <2>7. ~flag => bucket[call.source].tokens + (clock - bucket[call.source].last)
                   >= Interval[call.source]
    BY <2>1, <2>4, <2>5, <2>6
  <2> HIDE DEF flag
  <2>8. wait'.sleeps = wait.sleeps /\ wait'.early = flag
    BY <2>1, <2>2
  <2> QED BY <2>2, <2>5, <2>7, <2>8 DEF WaitOK
<1>5. CASE \E result \in Results, history \in SeenType : Ending(result, history)
  BY <1>5 DEF Ending, End, WaitOK
<1>6. CASE UNCHANGED vars
  BY <1>0, <1>6 DEF vars, WaitOK
<1>7. CASE pc' \notin {"acquire", "asleep"}
  BY <1>7 DEF WaitOK
<1> QED BY <1>0, <1>1, <1>2, <1>3, <1>4, <1>5, <1>6, <1>7, StepCases
        DEF Acquire, AskMore, Redirect, Sent, Failing, RequestFails, Refuse, RecordFailure,
            Sleep, Again, RecordTerminal

LEMMA OneSleepStep == IInv /\ [Next]_vars => OneSleepSuffices'
<1> SUFFICES ASSUME IInv, [Next]_vars PROVE OneSleepSuffices'
  OBVIOUS
<1>0. TypeOK /\ CallOK /\ BucketOK /\ WaitOK /\ OneSleepSuffices
  BY DEF IInv
<1>1. CASE AcquireDenied
  <2>1. call.source \in Sources
    BY <1>0, <1>1, RunningCall DEF AcquireDenied, CallType
  <2>2. wait \in [sleeps: 0..MaxWaits, early: BOOLEAN, until: Nat]
    BY <1>0 DEF TypeOK
  <2>3. wait'.sleeps = wait.sleeps + 1 /\ wait'.early = wait.early /\ pc = "acquire"
          /\ Refilled(call.source) < Interval[call.source]
    BY <1>1, <2>2 DEF AcquireDenied
  <2>4. SUFFICES ASSUME wait.sleeps > 0 PROVE wait.early
    BY <2>2, <2>3 DEF OneSleepSuffices
  <2>5. bucket[call.source] # NoBucket
    BY <1>0, <2>3, <2>4 DEF WaitOK
  <2>6. Refilled(call.source) \in Nat /\ Interval[call.source] \in Nat
    BY <1>0, <2>1, RefilledIsBounded, FullBucket
  <2>7. ~(bucket[call.source].tokens + (clock - bucket[call.source].last)
            >= Interval[call.source])
    <3>1. ~(Refilled(call.source) >= Interval[call.source])
      BY <2>3, <2>6
    <3> QED BY <1>0, <2>1, <2>5, <3>1, RefilledIsBounded
  <2> QED BY <1>0, <2>3, <2>4, <2>7 DEF WaitOK
<1>2. CASE Wake
  <2> DEFINE flag == wait.early \/ clock < wait.until
  <2>1. wait \in [sleeps: 0..MaxWaits, early: BOOLEAN, until: Nat] /\ flag \in BOOLEAN
    BY <1>0 DEF TypeOK
  <2>2. wait' = [wait EXCEPT !.early = flag] /\ (wait.early => flag)
    BY <1>2 DEF Wake
  <2> HIDE DEF flag
  <2>3. wait'.sleeps = wait.sleeps /\ wait'.early = flag
    BY <2>1, <2>2
  <2> QED BY <1>0, <2>2, <2>3 DEF OneSleepSuffices
<1>3. CASE \E result \in Results, history \in SeenType : Ending(result, history)
  BY <1>3 DEF Ending, End, NoWait, OneSleepSuffices
<1>4. CASE \E kind \in Kinds, s \in Sources, u \in Urls : Start(kind, s, u)
  BY <1>4 DEF Start, NoWait, OneSleepSuffices
<1>5. CASE Sleep
  <2>1. wait'.sleeps = wait.sleeps /\ wait'.early = wait.early
    BY <1>0, <1>5 DEF Sleep, TypeOK
  <2> QED BY <1>0, <2>1 DEF OneSleepSuffices
<1>6. CASE UNCHANGED wait
  BY <1>0, <1>6 DEF OneSleepSuffices
<1> QED BY <1>0, <1>1, <1>2, <1>3, <1>4, <1>5, <1>6, StepCases
        DEF Tick, Acquire, AskMore, Redirect, Failing, RequestFails, Refuse, RecordFailure,
            Again, RecordTerminal, vars

(***************************************************************************)
(* Requests.                                                                *)
(***************************************************************************)
\* An attempt may send something, and its second page as much as its first.
LEMMA AttemptsCount ==
  ASSUME NEW c \in CallType
  PROVE  /\ PerAttempt(c) \in Nat
         /\ MaxRedirects + 1 <= PerAttempt(c)
         /\ Pages(c) # 1 => PerAttempt(c) = (MaxRedirects + 1) + (MaxRedirects + 1)
<1>1. MaxRedirects \in Nat
  BY MaxRedirectsAssumption
<1>2. CASE Pages(c) = 1
  BY <1>1, <1>2 DEF PerAttempt
<1>3. CASE Pages(c) = 2
  BY <1>1, <1>3 DEF PerAttempt
<1> QED BY <1>2, <1>3 DEF Pages

\* What the requests of a call fit into, with one more while one is to be sent.
LEMMA RequestsFit ==
  ASSUME TypeOK, CallOK, RetryOK, CountOK, pc # "idle"
  PROVE  seen.requests + (IF pc = "request" THEN 1 ELSE 0) <= Most(call)
<1> DEFINE p == PerAttempt(call)
           n == retry.count
           sent == seen.requests
           most == Attempts * p
<1>1. call \in CallType /\ http \in HttpType
  BY RunningCall
<1>2. p \in Nat /\ MaxRedirects + 1 <= p /\ MaxRedirects \in Nat
        /\ (Pages(call) # 1 => p = (MaxRedirects + 1) + (MaxRedirects + 1))
  BY <1>1, AttemptsCount, MaxRedirectsAssumption
<1>3. n \in Nat /\ sent \in Nat
  BY DEF TypeOK
<1>4. n * p \in Nat /\ (n + 1) * p = n * p + p /\ most \in Nat
  BY <1>2, <1>3, ProductIsNatural, AddToProduct, AttemptsArePositive
<1>5. n + 1 <= Attempts => (n + 1) * p <= most
  BY <1>2, <1>3, ProductIsMonotonic, AttemptsArePositive
<1>6. n = Attempts => n * p = most
  OBVIOUS
<1>7. 1 * p = p /\ 0 * p = 0 /\ p <= most
  <2>1. 1 * p <= Attempts * p
    BY <1>2, ProductIsMonotonic, AttemptsArePositive
  <2> QED BY <1>2, <2>1
<1>8. Most(call) = IF call.kind = "retried" THEN most ELSE p
  <2>1. p * 1 = p /\ p * Attempts = Attempts * p
    BY <1>2, AttemptsArePositive
  <2> QED BY <2>1 DEF Most
<1>9. call.kind # "retried" => n = 0
  BY DEF CallOK
<1>10. n * p + p <= Most(call) \/ n = Attempts
  <2>1. CASE call.kind = "retried"
    <3>1. pc \in {"request", "failed", "retrying", "backoff"} => n + 1 <= Attempts
      BY <1>3, AttemptsArePositive DEF RetryOK
    <3>2. pc \notin {"request", "failed", "retrying", "backoff"} => n = Attempts
      BY <2>1 DEF RetryOK, CallOK, TypeOK
    <3> QED BY <1>4, <1>5, <1>8, <2>1, <3>1, <3>2
  <2>2. CASE call.kind # "retried"
    BY <1>2, <1>7, <1>8, <1>9, <2>2
  <2> QED BY <2>1, <2>2
<1>11. CASE pc = "request"
  <2>1. http.hops \in 0..MaxRedirects
    BY <1>1 DEF HttpType
  <2> DEFINE page == IF http.more \/ Pages(call) = 1 THEN 0 ELSE MaxRedirects + 1
  <2>2. sent <= n * p + page + http.hops
    BY <1>11 DEF CountOK
  <2>3. page \in Nat /\ page + MaxRedirects + 1 <= p
    BY <1>2
  <2>4. n # Attempts
    BY <1>11, <1>3, AttemptsArePositive DEF RetryOK
  <2>5. Most(call) \in Nat
    BY <1>2, <1>4, <1>8
  <2> HIDE DEF n, p, sent, page, most
  <2> DEFINE product == n * p
             allowed == Most(call)
             hops == http.hops
  <2>6. product \in Nat /\ product + p <= allowed /\ allowed \in Nat
          /\ sent <= product + page + hops /\ hops \in 0..MaxRedirects
    BY <1>4, <1>10, <2>1, <2>2, <2>4, <2>5
  <2> HIDE DEF product, allowed, hops
  <2>7. sent + 1 <= allowed
    BY <1>2, <1>3, <2>3, <2>6
  <2> QED BY <1>11, <2>7 DEF sent, allowed
<1>12. CASE pc \in {"acquire", "asleep", "granted"}
  <2>1. sent = 0 /\ Most(call) \in Nat
    BY <1>2, <1>4, <1>8, <1>12 DEF CountOK
  <2> QED BY <1>12, <2>1
<1>13. CASE pc = "failed"
  <2>1. sent <= (n + 1) * p
    BY <1>13 DEF CountOK
  <2>2. n # Attempts
    BY <1>13, <1>3, AttemptsArePositive DEF RetryOK
  <2> DEFINE product == n * p
             allowed == Most(call)
  <2>3. sent <= product + p /\ product + p <= allowed /\ product \in Nat
    BY <1>4, <1>10, <2>1, <2>2
  <2>4. allowed \in Nat
    BY <1>2, <1>4, <1>8
  <2> HIDE DEF n, p, sent, most, product, allowed
  <2>5. sent + 0 <= allowed
    BY <1>2, <1>3, <2>3, <2>4
  <2> QED BY <1>13, <2>5 DEF sent, allowed
<1>14. CASE pc \in {"retrying", "backoff", "logged", "unlogged"}
  <2>1. sent <= n * p
    BY <1>14 DEF CountOK
  <2>2. call.kind = "retried"
    BY <1>14 DEF CallOK
  <2> QED BY <1>2, <1>3, <1>4, <1>6, <1>8, <1>10, <1>14, <2>1, <2>2
<1> QED BY <1>11, <1>12, <1>13, <1>14 DEF TypeOK

LEMMA DoneStep == IInv /\ [Next]_vars => DoneOK'
<1> SUFFICES ASSUME IInv, [Next]_vars PROVE DoneOK'
  OBVIOUS
<1>0. TypeOK /\ CallOK /\ RetryOK /\ CountOK /\ DoneOK
  BY DEF IInv
<1>1. CASE \E result \in Results, history \in SeenType : Ending(result, history)
  <2>1. PICK result \in Results, history \in SeenType : Ending(result, history)
    BY <1>1
  <2>2. done'.requests = history.requests /\ done'.kind = call.kind /\ done'.source = call.source
    BY <2>1 DEF Ending, End
  <2>3. seen.requests + (IF pc = "request" THEN 1 ELSE 0) <= Most(call)
    BY <1>0, <2>1, RequestsFit DEF Ending
  <2>4. seen.requests \in Nat /\ Most(call) \in Nat
    <3>1. call \in CallType
      BY <1>0, <2>1, RunningCall DEF Ending
    <3>2. PerAttempt(call) \in Nat
      BY <3>1, AttemptsCount
    <3>3. PerAttempt(call) * Attempts \in Nat /\ PerAttempt(call) * 1 \in Nat
      BY <3>2, ProductIsNatural, AttemptsArePositive
    <3> QED BY <1>0, <3>3 DEF TypeOK, Most
  <2>5. history.requests <= Most(call)
    BY <2>1, <2>3, <2>4 DEF Ending
  <2>6. Most(done') = Most(call)
    BY <2>2 DEF Most, PerAttempt, Pages
  <2> QED BY <2>2, <2>5, <2>6 DEF DoneOK
<1>2. CASE \E kind \in Kinds, s \in Sources, u \in Urls : Start(kind, s, u)
  BY <1>2 DEF Start, NoCall, DoneOK
<1>3. CASE UNCHANGED done
  BY <1>0, <1>3 DEF DoneOK, Most, PerAttempt, Pages
<1> QED BY <1>0, <1>1, <1>2, <1>3, StepCases
        DEF Tick, Acquire, AcquireDenied, Wake, AskMore, Redirect, Failing, RequestFails, Refuse,
            RecordFailure, Sleep, Again, RecordTerminal, vars

\* The count after a step, from the count before: the attempts that failed, the
\* page before this one, and the redirects followed for this one.
LEMMA CountStep == IInv /\ [Next]_vars => CountOK'
<1> SUFFICES ASSUME IInv, [Next]_vars PROVE CountOK'
  OBVIOUS
<1>0. TypeOK /\ CallOK /\ CountOK
  BY DEF IInv
<1> DEFINE p == PerAttempt(call)
           n == retry.count
           sent == seen.requests
           hops == http.hops
           page == IF http.more \/ Pages(call) = 1 THEN 0 ELSE MaxRedirects + 1
           product == n * p
<1>1. /\ n \in Nat /\ sent \in Nat /\ MaxRedirects \in Nat
  BY <1>0, MaxRedirectsAssumption DEF TypeOK
<1>2. pc # "idle" =>
        /\ p \in Nat /\ MaxRedirects + 1 <= p
        /\ Pages(call) # 1 => p = (MaxRedirects + 1) + (MaxRedirects + 1)
        /\ hops \in 0..MaxRedirects
        /\ product \in Nat /\ (n + 1) * p = product + p
  <2> SUFFICES ASSUME pc # "idle"
               PROVE  /\ p \in Nat /\ MaxRedirects + 1 <= p
                      /\ Pages(call) # 1 => p = (MaxRedirects + 1) + (MaxRedirects + 1)
                      /\ hops \in 0..MaxRedirects
                      /\ product \in Nat /\ (n + 1) * p = product + p
    OBVIOUS
  <2>1. call \in CallType /\ http \in HttpType
    BY <1>0, RunningCall
  <2>2. p \in Nat /\ MaxRedirects + 1 <= p
          /\ (Pages(call) # 1 => p = (MaxRedirects + 1) + (MaxRedirects + 1))
    BY <2>1, AttemptsCount
  <2>3. product \in Nat /\ (n + 1) * p = product + p
    BY <1>1, <2>2, ProductIsNatural, AddToProduct
  <2> QED BY <2>1, <2>2, <2>3 DEF HttpType
<1>3. pc = "request" => sent <= product + page + hops
  BY <1>0 DEF CountOK
<1>4. pc # "idle" => page \in Nat /\ page + MaxRedirects + 1 <= p
  BY <1>1, <1>2
\* One request more, or none, is still within the attempt.
<1>5. pc = "request" => sent + 1 <= (n + 1) * p /\ sent <= (n + 1) * p
  <2> SUFFICES ASSUME pc = "request" PROVE sent + 1 <= (n + 1) * p /\ sent <= (n + 1) * p
    OBVIOUS
  <2> DEFINE whole == (n + 1) * p
  <2>1. whole = product + p /\ hops \in 0..MaxRedirects /\ product \in Nat /\ p \in Nat
          /\ page \in Nat /\ page + MaxRedirects + 1 <= p /\ sent <= product + page + hops
    BY <1>2, <1>3, <1>4
  <2> HIDE DEF whole, product, page, p, n, sent, hops
  <2>2. sent + 1 <= whole /\ sent <= whole
    BY <1>1, <2>1
  <2> QED BY <2>2 DEF whole
<1>6. CASE Tick
  BY <1>0, <1>6 DEF Tick, CountOK, PerAttempt, Pages
<1>7. CASE \E kind \in Kinds, s \in Sources, u \in Urls : Start(kind, s, u)
  <2>1. PICK kind \in Kinds, s \in Sources, u \in Urls : Start(kind, s, u)
    BY <1>7
  <2>2. pc' \in {"acquire", "request"} /\ seen'.requests = 0 /\ retry'.count = 0 /\ http'.hops = 0
    BY <2>1 DEF Start, NothingSeen, NoRetry, FirstRequest
  <2>3. call' \in CallType
    BY <2>1 DEF Start, CallType
  <2>4. PerAttempt(call') \in Nat
    BY <2>3, AttemptsCount
  <2>5. 0 * PerAttempt(call') = 0
    BY <2>4
  <2> DEFINE later == IF http'.more \/ Pages(call') = 1 THEN 0 ELSE MaxRedirects + 1
  <2>6. later \in Nat
    BY <1>1
  <2> HIDE DEF later
  <2>7. 0 <= 0 * PerAttempt(call') + later + 0
    BY <2>5, <2>6
  <2>8. pc' = "request" => seen'.requests <= retry'.count * PerAttempt(call') + later + http'.hops
    BY <2>2, <2>7
  <2> QED BY <2>2, <2>8 DEF CountOK, later
<1>8. CASE Acquire
  <2>1. pc = "acquire" /\ UNCHANGED <<seen, retry, http, call>> /\ pc' \in {"granted", "request"}
    BY <1>8 DEF Acquire
  <2>2. sent = 0
    BY <1>0, <2>1 DEF CountOK
  <2>3. product \in Nat /\ page \in Nat /\ hops \in Nat
    BY <1>2, <1>4, <2>1
  <2>4. sent <= product + page + hops
    <3> HIDE DEF product, page, hops, sent
    <3> QED BY <2>2, <2>3
  <2> QED BY <2>1, <2>2, <2>4 DEF CountOK, PerAttempt, Pages
<1>9. CASE AcquireDenied \/ Wake
  BY <1>0, <1>9 DEF AcquireDenied, Wake, CountOK
<1>10. CASE \E result \in Results, history \in SeenType : Ending(result, history)
  BY <1>10 DEF Ending, End, CountOK
<1>11. CASE \E u \in Urls : AskMore(u)
  <2>1. PICK u \in Urls : AskMore(u)
    BY <1>11
  <2>2. /\ pc = "request" /\ http.more /\ http' = [url |-> u, hops |-> 0, more |-> FALSE]
        /\ seen' = Requested(FALSE) /\ UNCHANGED <<pc, call, retry>>
    BY <2>1 DEF AskMore, Sent
  <2>3. seen'.requests = sent + 1
    BY <1>0, <2>2, RequestedIsOneMore
  <2>4. Pages(call) # 1
    BY <1>0, <2>2 DEF CallOK, Pages
  <2>5. page = 0
    BY <2>2
  <2>6. hops \in 0..MaxRedirects /\ product \in Nat /\ sent <= product + page + hops
    BY <1>2, <1>3, <2>2
  <2>7. sent + 1 <= product + (MaxRedirects + 1) + 0
    <3> HIDE DEF product, page, hops, sent
    <3> QED BY <1>1, <2>5, <2>6
  <2>8. PerAttempt(call') = PerAttempt(call) /\ Pages(call') = Pages(call)
    BY <2>2 DEF PerAttempt, Pages
  <2> QED BY <2>2, <2>3, <2>4, <2>7, <2>8 DEF CountOK
<1>12. CASE \E u \in Urls : Redirect(u)
  <2>1. PICK u \in Urls : Redirect(u)
    BY <1>12
  <2>2. /\ pc = "request" /\ http' = [http EXCEPT !.url = u, !.hops = @ + 1]
        /\ seen' = Requested(FALSE) /\ UNCHANGED <<pc, call, retry>>
    BY <2>1 DEF Redirect, Sent
  <2>3. seen'.requests = sent + 1
    BY <1>0, <2>2, RequestedIsOneMore
  <2>4. http \in HttpType
    BY <1>0, <2>2, RunningCall
  <2>5. http'.hops = hops + 1 /\ http'.more = http.more
    BY <2>2, <2>4 DEF HttpType
  <2>6. hops \in 0..MaxRedirects /\ product \in Nat /\ page \in Nat
          /\ sent <= product + page + hops
    BY <1>2, <1>3, <1>4, <2>2
  <2>7. sent + 1 <= product + page + (hops + 1)
    <3> HIDE DEF product, page, hops, sent
    <3> QED BY <1>1, <2>6
  <2>8. PerAttempt(call') = PerAttempt(call) /\ Pages(call') = Pages(call)
    BY <2>2 DEF PerAttempt, Pages
  <2> QED BY <2>2, <2>3, <2>5, <2>7, <2>8 DEF CountOK
<1>13. CASE Failing
  <2>1. PICK unchanged \in BOOLEAN : RequestFails(unchanged)
    BY <1>13 DEF Failing
  <2>2. pc = "request" /\ pc' = "failed" /\ seen'.requests = sent + 1 /\ UNCHANGED <<call, retry>>
    BY <1>0, <1>13, <2>1, RequestedIsOneMore DEF Failing, RequestFails
  <2> QED BY <1>5, <2>2 DEF CountOK, PerAttempt, Pages
<1>14. CASE Refuse
  BY <1>5, <1>14 DEF Refuse, CountOK, PerAttempt, Pages
<1>15. CASE RecordFailure \/ RecordTerminal
  <2>1. /\ pc = "failed" /\ pc' \in {"retrying", "logged", "unlogged"}
        /\ retry'.count = n + 1 /\ UNCHANGED <<call, seen>>
    BY <1>15 DEF RecordFailure, RecordTerminal
  <2>2. sent <= (n + 1) * p
    BY <1>0, <2>1 DEF CountOK
  <2> QED BY <2>1, <2>2 DEF CountOK, PerAttempt, Pages
<1>16. CASE Sleep
  BY <1>0, <1>16 DEF Sleep, CountOK, PerAttempt, Pages
<1>17. CASE Again
  <2>1. /\ pc = "backoff" /\ pc' = "request" /\ http' = FirstRequest(call.kind, call.source, call.url)
        /\ UNCHANGED <<call, seen, retry>>
    BY <1>17 DEF Again
  <2>2. http'.hops = 0
    BY <2>1 DEF FirstRequest
  <2>3. sent <= product
    BY <1>0, <2>1 DEF CountOK
  <2> DEFINE later == IF http'.more \/ Pages(call') = 1 THEN 0 ELSE MaxRedirects + 1
  <2>4. later \in Nat /\ product \in Nat
    BY <1>1, <1>2, <2>1
  <2>5. sent <= product + later + 0
    <3> HIDE DEF later, product, sent
    <3> QED BY <1>1, <2>3, <2>4
  <2> QED BY <2>1, <2>2, <2>5 DEF CountOK, PerAttempt, Pages
<1>18. CASE UNCHANGED vars
  BY <1>0, <1>18 DEF vars, CountOK, PerAttempt, Pages
<1> QED BY <1>0, <1>6, <1>7, <1>8, <1>9, <1>10, <1>11, <1>12, <1>13, <1>14, <1>15, <1>16, <1>17,
           <1>18, StepCases

(***************************************************************************)
(* The theorems.                                                            *)
(***************************************************************************)
\* The invariant holds of every state.
LEMMA InvariantHolds == Spec => []IInv
<1>1. IInv /\ [Next]_vars => IInv'
  BY TypeStep, CallStep, RetryStep, BucketStep, WaitStep, CountStep, RateStep, OneSleepStep,
     ExhaustedStep, DoneStep DEF IInv
<1> QED BY InitEstablishes, <1>1, PTL DEF Spec

\* Every variable has its type, for any policies and bounds.
THEOREM FetchTypeCorrect == Spec => []TypeOK
<1>1. IInv => TypeOK
  BY DEF IInv
<1> QED BY InvariantHolds, <1>1, PTL

\* However many sources share the limiter and however its callers interleave
\* and give up, no source is given more than its burst and the refill of the
\* time: net/rate_limit.py.
THEOREM SourcesAreNotRushed == Spec => []RateKept
<1>1. IInv => RateKept
  BY DEF IInv
<1> QED BY InvariantHolds, <1>1, PTL

\* The delay a denied acquire names is enough: net/rate_limit.py,
\* acquire_or_wait.
THEOREM SleepsAreExact == Spec => []OneSleepSuffices
<1>1. IInv => OneSleepSuffices
  BY DEF IInv
<1> QED BY InvariantHolds, <1>1, PTL

\* RetryPolicy.run raises after exactly its attempts and one alert, and returns
\* a value without any, for every cap: net/retry.py.
THEOREM ExhaustionIsReported == Spec => []ExhaustedAreAlerted
<1>1. IInv => ExhaustedAreAlerted
  BY DEF IInv
<1> QED BY InvariantHolds, <1>1, PTL

\* Whatever servers answer, the requests of a call are bounded by pages,
\* redirects and attempts: net/transport.py and net/retry.py.
THEOREM RequestsAreBounded == Spec => []RequestsBounded
<1>1. IInv => RequestsBounded
  <2> SUFFICES ASSUME IInv PROVE RequestsBounded
    OBVIOUS
  <2>1. TypeOK /\ CallOK /\ RetryOK /\ CountOK /\ DoneOK
    BY DEF IInv
  <2>2. ASSUME call.kind # "none" PROVE seen.requests <= Most(call)
    <3>1. pc # "idle"
      BY <2>1, <2>2 DEF CallOK, NoCall
    <3>2. seen.requests + (IF pc = "request" THEN 1 ELSE 0) <= Most(call)
      BY <2>1, <3>1, RequestsFit
    <3>3. call \in CallType
      BY <2>1, <3>1, RunningCall
    <3>4. PerAttempt(call) * Attempts \in Nat /\ PerAttempt(call) * 1 \in Nat
      BY <3>3, AttemptsCount, ProductIsNatural, AttemptsArePositive
    <3>5. Most(call) \in Nat /\ seen.requests \in Nat
      BY <2>1, <3>4 DEF Most, TypeOK
    <3> QED BY <3>2, <3>5
  <2> QED BY <2>1, <2>2 DEF RequestsBounded, DoneOK
<1> QED BY InvariantHolds, <1>1, PTL

\* A retry never begins before the moment that was recorded for it, though run
\* computes the delay a second time: net/retry.py.
THEOREM RetriesAreLate == Spec => RetriesWait
<1>1. IInv /\ [Next]_vars => [pc = "backoff" /\ pc' = "request" => clock >= retry.at]_vars
  BY RetriesWaitStep
<1> QED BY InvariantHolds, <1>1, PTL DEF Spec, RetriesWait

(***************************************************************************)
(* How long a call takes.                                                   *)
(***************************************************************************)
\* The steps of one attempt: two pages with their redirects, then the failure,
\* its record and the sleep.
AttemptSteps == 2 * (MaxRedirects + 1) + 4

LaterAttempts == (Attempts - retry.count - 1) * AttemptSteps

PageSteps == (IF http.more THEN MaxRedirects + 1 ELSE 0) + MaxRedirects - http.hops

\* The steps the thread may still take in this call, ticks of sleeps apart.
StepsLeft ==
    CASE pc = "idle" -> 0
      [] pc \in {"granted", "logged", "unlogged"} -> 1
      [] pc = "failed" -> LaterAttempts + 2
      [] pc = "request" -> LaterAttempts + 3 + PageSteps
      [] pc = "backoff" -> LaterAttempts + AttemptSteps - 1
      [] pc = "retrying" -> LaterAttempts + AttemptSteps
      [] pc = "acquire" -> LaterAttempts + AttemptSteps + 2 * (MaxWaits - wait.sleeps)
      [] pc = "asleep" -> LaterAttempts + AttemptSteps + 2 * (MaxWaits - wait.sleeps) + 1

\* Every step of a call brings its end nearer, whatever servers answer: sleeps,
\* redirects, pages and attempts are each begun anew by the next outer loop.
CallsShrink == [][Step => 0 <= StepsLeft' /\ StepsLeft' < StepsLeft]_vars

LEMMA StepsLeftAre ==
  ASSUME TypeOK, CallOK, RetryOK, WaitOK
  PROVE  /\ AttemptSteps = 2 * MaxRedirects + 6 /\ MaxRedirects \in Nat /\ MaxWaits \in Nat
         /\ wait.sleeps \in 0..MaxWaits
         /\ retry.count \in Nat
         /\ pc \in {"request", "failed", "retrying", "backoff", "acquire", "asleep"} =>
              LaterAttempts \in Nat
         /\ pc = "request" => PageSteps \in 0..(2 * MaxRedirects + 1)
         /\ StepsLeft \in Nat
<1>1. /\ MaxRedirects \in Nat /\ MaxWaits \in Nat /\ wait.sleeps \in 0..MaxWaits
      /\ retry.count \in Nat /\ Attempts \in Nat \ {0}
  BY MaxRedirectsAssumption, WaitsAssumption, AttemptsArePositive DEF TypeOK
<1>2. AttemptSteps = 2 * MaxRedirects + 6 /\ AttemptSteps \in Nat
  BY <1>1 DEF AttemptSteps
<1>3. ASSUME pc \in {"request", "failed", "retrying", "backoff", "acquire", "asleep"}
      PROVE  LaterAttempts \in Nat
  <2>1. retry.count < Attempts
    BY <1>1, <1>3 DEF RetryOK, CallOK
  <2>2. Attempts - retry.count - 1 \in Nat
    BY <1>1, <2>1
  <2> QED BY <1>2, <2>2, ProductIsNatural DEF LaterAttempts
<1>4. ASSUME pc = "request" PROVE PageSteps \in 0..(2 * MaxRedirects + 1)
  <2>1. http.hops \in 0..MaxRedirects /\ http.more \in BOOLEAN
    BY <1>4, RunningCall DEF HttpType
  <2> QED BY <1>1, <2>1 DEF PageSteps
<1>5. StepsLeft \in Nat
  <2>1. pc \in {"idle", "acquire", "asleep", "granted", "request", "failed", "retrying",
                "backoff", "logged", "unlogged"}
    BY DEF TypeOK
  <2> HIDE DEF LaterAttempts, PageSteps, AttemptSteps
  <2> QED BY <1>1, <1>2, <1>3, <1>4, <2>1 DEF StepsLeft
<1> QED BY <1>1, <1>2, <1>3, <1>4, <1>5

\* What the variant is made of, before and after a step.
StepsCounted ==
  /\ wait.sleeps \in 0..MaxWaits
  /\ pc = "request" => PageSteps \in 0..(2 * MaxRedirects + 1)
  /\ StepsLeft \in Nat

LEMMA StepsAreCounted == IInv => StepsCounted
BY StepsLeftAre DEF IInv, StepsCounted

LEMMA StepsAreCountedThen == IInv' => StepsCounted'
BY StepsAreCounted, PTL

LEMMA CallShrinks ==
  ASSUME IInv, IInv', Step
  PROVE  0 <= StepsLeft' /\ StepsLeft' < StepsLeft
<1>1. TypeOK /\ CallOK /\ RetryOK /\ WaitOK
  BY DEF IInv
<1> DEFINE L == LaterAttempts
           K == LaterAttempts'
           P == PageSteps
           Q == PageSteps'
           M == 2 * MaxRedirects + 6
           w == wait.sleeps
<1>2. /\ AttemptSteps = M /\ AttemptSteps' = M /\ MaxRedirects \in Nat /\ MaxWaits \in Nat
      /\ w \in 0..MaxWaits /\ retry.count \in Nat
      /\ pc \in {"request", "failed", "retrying", "backoff", "acquire", "asleep"} => L \in Nat
      /\ pc = "request" => P \in 0..(2 * MaxRedirects + 1)
      /\ StepsLeft \in Nat
  BY <1>1, StepsLeftAre DEF AttemptSteps
<1>3. /\ wait'.sleeps \in 0..MaxWaits
      /\ pc' = "request" => Q \in 0..(2 * MaxRedirects + 1)
      /\ StepsLeft' \in Nat
  BY StepsAreCountedThen DEF StepsCounted
<1>4. /\ pc \in {"granted", "logged", "unlogged"} => StepsLeft = 1
      /\ pc = "failed" => StepsLeft = L + 2
      /\ pc = "request" => StepsLeft = L + 3 + P
      /\ pc = "backoff" => StepsLeft = L + M - 1
      /\ pc = "retrying" => StepsLeft = L + M
      /\ pc = "acquire" => StepsLeft = L + M + 2 * (MaxWaits - w)
      /\ pc = "asleep" => StepsLeft = L + M + 2 * (MaxWaits - w) + 1
  BY <1>2 DEF StepsLeft
<1>5. /\ pc' = "idle" => StepsLeft' = 0
      /\ pc' \in {"granted", "logged", "unlogged"} => StepsLeft' = 1
      /\ pc' = "failed" => StepsLeft' = K + 2
      /\ pc' = "request" => StepsLeft' = K + 3 + Q
      /\ pc' = "backoff" => StepsLeft' = K + M - 1
      /\ pc' = "retrying" => StepsLeft' = K + M
      /\ pc' = "acquire" => StepsLeft' = K + M + 2 * (MaxWaits - wait'.sleeps)
      /\ pc' = "asleep" => StepsLeft' = K + M + 2 * (MaxWaits - wait'.sleeps) + 1
  BY <1>2 DEF StepsLeft
<1>6. retry' = retry => K = L
  BY DEF LaterAttempts, AttemptSteps
<1>7. http' = http => Q = P
  BY DEF PageSteps
<1>8. SUFFICES StepsLeft' < StepsLeft
  BY <1>3
<1> HIDE DEF L, K, P, Q, w
<1>9. CASE Acquire
  <2>1. pc = "acquire" /\ pc' \in {"granted", "request"} /\ retry' = retry
    BY <1>9 DEF Acquire
  <2> QED BY <1>2, <1>3, <1>4, <1>5, <1>6, <2>1
<1>10. CASE AcquireDenied
  <2>1. /\ pc = "acquire" /\ pc' = "asleep" /\ retry' = retry
        /\ wait'.sleeps = w + 1
    BY <1>1, <1>10 DEF AcquireDenied, TypeOK, w
  <2> QED BY <1>2, <1>3, <1>4, <1>5, <1>6, <2>1
<1>11. CASE Wake
  <2>1. /\ pc = "asleep" /\ pc' = "acquire" /\ retry' = retry
        /\ wait'.sleeps = w
    BY <1>1, <1>11 DEF Wake, TypeOK, w
  <2> QED BY <1>2, <1>3, <1>4, <1>5, <1>6, <2>1
<1>12. CASE \E result \in Results, history \in SeenType : Ending(result, history)
  <2>1. pc # "idle" /\ pc' = "idle"
    BY <1>12 DEF Ending, End
  <2>2. pc \in {"acquire", "asleep", "granted", "request", "failed", "retrying",
                "backoff", "logged", "unlogged"}
    BY <1>1, <2>1 DEF TypeOK
  <2> QED BY <1>2, <1>4, <1>5, <2>1, <2>2
<1>13. ASSUME NEW u \in Urls, AskMore(u) \/ Redirect(u) PROVE StepsLeft' < StepsLeft
  <2>1. pc = "request" /\ pc' = "request" /\ retry' = retry
    BY <1>13 DEF AskMore, Redirect, Sent
  <2>2. http.hops \in 0..MaxRedirects /\ http.more \in BOOLEAN
    BY <1>1, <2>1, RunningCall DEF HttpType
  <2>3. Q < P
    <3>1. CASE AskMore(u)
      <4>1. http.more /\ ~http'.more /\ http'.hops = 0
        BY <1>13, <3>1 DEF AskMore
      <4> QED BY <1>2, <2>2, <4>1 DEF P, Q, PageSteps
    <3>2. CASE Redirect(u)
      <4>1. http'.more = http.more /\ http'.hops = http.hops + 1
        BY <1>1, <2>1, <3>2, RunningCall DEF Redirect, HttpType
      <4> QED BY <1>2, <2>2, <4>1 DEF P, Q, PageSteps
    <3> QED BY <1>13, <3>1, <3>2
  <2> QED BY <1>2, <1>3, <1>4, <1>5, <1>6, <2>1, <2>3
<1>14. CASE Failing \/ Refuse
  <2>1. pc = "request" /\ pc' = "failed" /\ retry' = retry
    BY <1>14 DEF Failing, RequestFails, Refuse
  <2> QED BY <1>2, <1>4, <1>5, <1>6, <2>1
<1>15. CASE RecordFailure
  <2>1. /\ pc = "failed" /\ pc' = "retrying" /\ retry'.count = retry.count + 1
        /\ retry.count + 1 < Attempts
    BY <1>1, <1>2, <1>15, TerminalIsLast DEF RecordFailure, RetryOK
  <2>2. K + M = L
    <3> DEFINE a == Attempts - retry.count - 2
    <3>1. a \in Nat /\ Attempts - retry.count - 1 = a + 1
          /\ Attempts - retry'.count - 1 = a
      BY <1>2, <2>1, AttemptsArePositive
    <3>2. L = (a + 1) * M /\ K = a * M
      BY <1>2, <3>1 DEF L, K, LaterAttempts
    <3>3. M \in Nat /\ a * M \in Nat
      BY <1>2, <3>1, ProductIsNatural
    <3>4. (a + 1) * M = a * M + M
      BY <3>1, <3>3, AddToProduct
    <3> QED BY <3>2, <3>3, <3>4
  <2>3. K + M \in Nat /\ StepsLeft' = K + M /\ StepsLeft = L + 2
    BY <1>2, <1>4, <1>5, <2>1, <2>2
  <2> QED BY <2>2, <2>3
<1>16. CASE Sleep
  <2>1. pc = "retrying" /\ pc' = "backoff" /\ retry' = retry
    BY <1>16 DEF Sleep
  <2> QED BY <1>2, <1>4, <1>5, <1>6, <2>1
<1>17. CASE Again
  <2>1. pc = "backoff" /\ pc' = "request" /\ retry' = retry
    BY <1>17 DEF Again
  <2> QED BY <1>2, <1>3, <1>4, <1>5, <1>6, <2>1
<1>18. CASE RecordTerminal
  <2>1. pc = "failed" /\ pc' \in {"logged", "unlogged"}
    BY <1>18 DEF RecordTerminal
  <2> QED BY <1>2, <1>4, <1>5, <2>1
<1> QED BY <1>1, <1>9, <1>10, <1>11, <1>12, <1>13, <1>14, <1>15, <1>16, <1>17, <1>18,
           CallStepCases

\* For any limits a call takes a bounded number of steps, whatever servers
\* answer and however short its sleeps are: net/transport.py, net/retry.py,
\* net/rate_limit.py.
THEOREM CallsAreBounded == Spec => CallsShrink
<1> DEFINE Shrink == Step => 0 <= StepsLeft' /\ StepsLeft' < StepsLeft
<1>1. IInv /\ IInv' /\ [Next]_vars => [Shrink]_vars
  BY CallShrinks
<1> HIDE DEF Shrink
<1>2. Spec => [][Shrink]_vars
  BY <1>1, InvariantHolds, PTL DEF Spec
<1> QED BY <1>2 DEF Shrink, CallsShrink
===============================================================================

--------------------------------- MODULE Fetch ---------------------------------
(***************************************************************************)
(* The calls one collection stage makes to the net package, one after the   *)
(* other in one thread: requests through the guarded live transport, tokens *)
(* of the per-source rate limiter, and runs of the retry policy.            *)
(*                                                                          *)
(* The calls are                                                            *)
(*   "feed"     registry.collect: a request, whose exception is the caller's *)
(*   "robots"   _load_robots_text: a token, then a request                  *)
(*   "item"     the token _persist_source takes for every item              *)
(*   "retried"  RetryPolicy.run with the request of a feed as its operation *)
(* Time is counted in ticks, and a token is Interval ticks of refill.       *)
(***************************************************************************)
EXTENDS RequestGuards, Integers, Sequences

CONSTANTS
    Sources,
    Paired,       \* the sources whose feed is two requests, releases and readme
    Urls,         \* the URLs sources, items and redirects name
    Interval,     \* per source, the ticks that refill one token
    Burst,        \* per source, the tokens a bucket holds
    MaxWaits,     \* max_waits of acquire_or_wait
    Early,        \* ticks by which rounding may end a sleep for a token early
    MaxRetries,   \* max_collect_retries
    BaseBackoff,  \* base_backoff_seconds
    MaxBackoff,   \* max_backoff_seconds
    MaxCalls,     \* bound: calls of the stage
    Horizon       \* bound: no time passes after it but in a sleep

ASSUME PairedAssumption == Paired \subseteq Sources
ASSUME IntervalAssumption == Interval \in [Sources -> Nat \ {0}]
ASSUME BurstAssumption == Burst \in [Sources -> Nat \ {0}]
ASSUME WaitsAssumption == MaxWaits \in Nat \ {0} /\ Early \in Nat
ASSUME RetriesAssumption == MaxRetries \in Nat
ASSUME BackoffAssumption == BaseBackoff \in Nat /\ MaxBackoff \in Nat
ASSUME FetchBoundsAssumption == MaxCalls \in Nat /\ Horizon \in Nat

VARIABLES
    clock,
    bucket,   \* the token bucket of every source, NoBucket before its first token
    grants,   \* history: when each token of a source was taken
    pc,       \* where the call is, "idle" between calls
    call,     \* what is called, for which source and which URL first
    wait,     \* of acquire_or_wait: sleeps so far, was one too short, when the
              \* sleep ends
    http,     \* of the request: its URL, redirects followed, is there a second
    retry,    \* RetryState: failures counted, next_retry_at
    seen,     \* history of the call: requests sent, alerts written, was a
              \* request answered 304
    done,     \* the call that ended last and how, until the next begins
    calls     \* calls so far

vars == <<clock, bucket, grants, pc, call, wait, http, retry, seen, done, calls>>

Kinds == {"feed", "robots", "item", "retried"}

NoBucket == [tokens |-> 0, last |-> -1]
NoWait == [sleeps |-> 0, early |-> FALSE, until |-> 0]
NoCall == [kind |-> "none"]
NoRequest == [hops |-> 0]
NoRetry == [count |-> 0, at |-> 0]
NothingSeen == [requests |-> 0, alerts |-> 0, unchanged |-> FALSE]

\* The first request of a call or of an attempt.
FirstRequest(kind, s, u) ==
    [url |-> u, hops |-> 0, more |-> kind \in {"feed", "retried"} /\ s \in Paired]

Init ==
    /\ clock = 0
    /\ bucket = [s \in Sources |-> NoBucket]
    /\ grants = [s \in Sources |-> <<>>]
    /\ pc = "idle"
    /\ call = NoCall
    /\ wait = NoWait
    /\ http = NoRequest
    /\ retry = NoRetry
    /\ seen = NothingSeen
    /\ done = NoCall
    /\ calls = 0

Sleeping == pc \in {"asleep", "backoff"}

\* A sleep may last a tick longer than asked for.
Tick ==
    /\ IF Sleeping THEN clock <= wait.until ELSE clock < Horizon
    /\ clock' = clock + 1
    /\ UNCHANGED <<bucket, grants, pc, call, wait, http, retry, seen, done, calls>>

(***************************************************************************)
(* A call begins and ends.                                                  *)
(***************************************************************************)
\* _persist_source validates the URL of what it is about to fetch or to store
\* first and raises if it may not; run validates nothing itself.
Start(kind, s, u) ==
    /\ pc = "idle"
    /\ calls < MaxCalls
    /\ kind # "retried" => TRUE \in UrlVerdicts(u)
    /\ call' = [kind |-> kind, source |-> s, url |-> u]
    /\ pc' = IF kind \in {"robots", "item"} THEN "acquire" ELSE "request"
    /\ wait' = NoWait
    /\ http' = FirstRequest(kind, s, u)
    /\ retry' = NoRetry
    /\ seen' = NothingSeen
    /\ done' = NoCall
    /\ calls' = calls + 1
    /\ UNCHANGED <<clock, bucket, grants>>

\* The call returns a value, returns None or raises, after the failures and
\* with the history given.
End(result, failures, history) ==
    /\ pc' = "idle"
    /\ done' = [kind |-> call.kind, source |-> call.source,
                result |-> result, failures |-> failures, requests |-> history.requests, alerts |-> history.alerts,
                unchanged |-> history.unchanged]
    /\ call' = NoCall
    /\ wait' = NoWait
    /\ http' = NoRequest
    /\ retry' = NoRetry
    /\ seen' = NothingSeen
    /\ UNCHANGED <<clock, grants, bucket, calls>>

(***************************************************************************)
(* SourceRateLimiter.                                                       *)
(***************************************************************************)
\* Faulty: the bucket is not capped at its burst.
RefilledWithoutCap(s) ==
    IF bucket[s] = NoBucket THEN Burst[s] * Interval[s]
    ELSE bucket[s].tokens + (clock - bucket[s].last)

\* The tokens of the bucket of s by now, in ticks.  It starts full.
Refilled(s) ==
    LET full == Burst[s] * Interval[s]
        tokens == bucket[s].tokens + (clock - bucket[s].last)
    IN IF bucket[s] = NoBucket THEN full
       ELSE IF full < tokens THEN full ELSE tokens

\* acquire with a token to take.
Acquire ==
    /\ pc = "acquire"
    /\ Refilled(call.source) >= Interval[call.source]
    /\ bucket' = [bucket EXCEPT ![call.source] =
                    [tokens |-> Refilled(call.source) - Interval[call.source],
                     last |-> clock]]
    /\ grants' = [grants EXCEPT ![call.source] = Append(@, clock)]
    /\ pc' = IF call.kind = "item" THEN "granted" ELSE "request"
    /\ UNCHANGED <<clock, call, wait, http, retry, seen, done, calls>>

\* Nothing is requested with the token of an item: its body came with the feed.
ItemGranted ==
    /\ pc = "granted"
    /\ End("value", retry.count, seen)

\* Faulty: the time is noted, the refill of that time is not.
AcquireDeniedForgets ==
    /\ pc = "acquire"
    /\ Refilled(call.source) < Interval[call.source]
    /\ bucket' = [bucket EXCEPT ![call.source].last = clock]
    /\ wait' = [wait EXCEPT !.sleeps = @ + 1,
                  !.until = clock + Interval[call.source] - Refilled(call.source)]
    /\ pc' = "asleep"
    /\ UNCHANGED <<clock, grants, call, http, retry, seen, done, calls>>

\* acquire without one: the refill so far is stored, and acquire_or_wait sleeps
\* until there should be a whole token.
AcquireDenied ==
    /\ pc = "acquire"
    /\ Refilled(call.source) < Interval[call.source]
    /\ bucket' = [bucket EXCEPT ![call.source] =
                    [tokens |-> Refilled(call.source), last |-> clock]]
    /\ wait' = [wait EXCEPT !.sleeps = @ + 1,
                  !.until = clock + Interval[call.source] - Refilled(call.source)]
    /\ pc' = "asleep"
    /\ UNCHANGED <<clock, grants, call, http, retry, seen, done, calls>>

\* Faulty: every sleep begins the count of sleeps anew.
WakeUncounted ==
    /\ pc = "asleep"
    /\ wait.until <= clock + Early
    /\ wait' = [wait EXCEPT !.sleeps = 0]
    /\ pc' = "acquire"
    /\ UNCHANGED <<clock, bucket, grants, call, http, retry, seen, done, calls>>

\* The sleep ends and the loop asks again, unless it did so max_waits times.
Wake ==
    /\ pc = "asleep"
    /\ wait.until <= clock + Early
    /\ wait.sleeps < MaxWaits
    /\ wait' = [wait EXCEPT !.early = @ \/ clock < wait.until]
    /\ pc' = "acquire"
    /\ UNCHANGED <<clock, bucket, grants, call, http, retry, seen, done, calls>>

\* TimeoutError: no caller catches it.
GiveUp ==
    /\ pc = "asleep"
    /\ wait.until <= clock + Early
    /\ wait.sleeps = MaxWaits
    /\ End("raised", retry.count, seen)

(***************************************************************************)
(* HTTPTransport.request.                                                   *)
(***************************************************************************)
Requested(unchanged) ==
    [seen EXCEPT !.requests = @ + 1, !.unchanged = @ \/ unchanged]

\* A request leaves only for a URL that was validated just before.
Sent ==
    /\ pc = "request"
    /\ TRUE \in UrlVerdicts(http.url)

\* The response is handed to the connector.  One that has not changed is the
\* answer, even if there is more to ask for.
Answer(unchanged) ==
    /\ Sent
    /\ http.more => unchanged
    /\ TRUE \in ResponseVerdicts(unchanged)
    /\ End("value", retry.count, Requested(unchanged))

\* GitHub's releases are there, its readme is asked for.
AskMore(u) ==
    /\ Sent
    /\ http.more
    /\ TRUE \in ResponseVerdicts(FALSE)
    /\ http' = [url |-> u, hops |-> 0, more |-> FALSE]
    /\ seen' = Requested(FALSE)
    /\ UNCHANGED <<clock, bucket, grants, pc, call, wait, retry, done, calls>>

RequestFails(unchanged) ==
    /\ seen' = Requested(unchanged)
    /\ pc' = "failed"
    /\ UNCHANGED <<clock, bucket, grants, call, wait, http, retry, done, calls>>

\* The guards refuse the response, or the connector does for its status; a 304
\* is held to the same rules.
AnswerRefused(unchanged) ==
    /\ Sent
    /\ FALSE \in ResponseVerdicts(unchanged)
    /\ RequestFails(unchanged)

\* A timeout, or another error of the client.
TimesOut == Sent /\ RequestFails(FALSE)

\* Faulty: a redirect to the same host is not counted.
RedirectSameHostFree(target) ==
    /\ Sent
    /\ TRUE \in RedirectVerdicts(target, http.hops)
    /\ http' = [http EXCEPT !.url = target,
                  !.hops = IF target.host = http.url.host THEN @ ELSE @ + 1]
    /\ seen' = Requested(FALSE)
    /\ UNCHANGED <<clock, bucket, grants, pc, call, wait, retry, done, calls>>

\* A 3xx with a Location: the loop goes on with the URL it names.
Redirect(target) ==
    /\ Sent
    /\ TRUE \in RedirectVerdicts(target, http.hops)
    /\ http' = [http EXCEPT !.url = target, !.hops = @ + 1]
    /\ seen' = Requested(FALSE)
    /\ UNCHANGED <<clock, bucket, grants, pc, call, wait, retry, done, calls>>

\* A redirect too many, or to where no request may go.
RedirectRefused(target) ==
    /\ Sent
    /\ FALSE \in RedirectVerdicts(target, http.hops)
    /\ RequestFails(FALSE)

\* The URL does not pass the guards: nothing leaves.
Refuse ==
    /\ pc = "request"
    /\ FALSE \in UrlVerdicts(http.url)
    /\ pc' = "failed"
    /\ UNCHANGED <<clock, bucket, grants, call, wait, http, retry, seen, done, calls>>

\* Connectors let the exception through.
FeedRaises ==
    /\ pc = "failed"
    /\ call.kind = "feed"
    /\ End("raised", retry.count, seen)

\* _load_robots_text catches everything and answers None.
RobotsUnknown ==
    /\ pc = "failed"
    /\ call.kind = "robots"
    /\ End("none", retry.count, seen)

(***************************************************************************)
(* RetryPolicy.run.                                                         *)
(***************************************************************************)
\* backoff_seconds: doubled with every failure, and capped.
Backoff(n) ==
    LET delay == BaseBackoff * 2 ^ (n - 1) IN IF MaxBackoff < delay THEN MaxBackoff ELSE delay

\* The failure that reaches the cap is terminal; with caps 0 and 1 the first is.
Terminal(n) == n >= MaxRetries

\* record_failure before the cap: another attempt is scheduled.
RecordFailure ==
    /\ pc = "failed"
    /\ call.kind = "retried"
    /\ ~Terminal(retry.count + 1)
    /\ retry' = [count |-> retry.count + 1, at |-> clock + Backoff(retry.count + 1)]
    /\ pc' = "retrying"
    /\ UNCHANGED <<clock, bucket, grants, call, wait, http, seen, done, calls>>

\* Faulty: the delay is the one of a count that starts at zero.
SleepZeroBased ==
    /\ pc = "retrying"
    /\ wait' = [wait EXCEPT !.until =
                  clock + IF retry.count = 1 THEN 0 ELSE Backoff(retry.count - 1)]
    /\ pc' = "backoff"
    /\ UNCHANGED <<clock, bucket, grants, call, http, retry, seen, done, calls>>

\* run computes the delay once more from the count and sleeps.
Sleep ==
    /\ pc = "retrying"
    /\ wait' = [wait EXCEPT !.until = clock + Backoff(retry.count)]
    /\ pc' = "backoff"
    /\ UNCHANGED <<clock, bucket, grants, call, http, retry, seen, done, calls>>

\* The operation is called again from its beginning.
Again ==
    /\ pc = "backoff"
    /\ wait.until <= clock
    /\ http' = FirstRequest(call.kind, call.source, call.url)
    /\ pc' = "request"
    /\ UNCHANGED <<clock, bucket, grants, call, wait, retry, seen, done, calls>>

\* record_failure at the cap, up to the structured log, which may raise.
RecordTerminal ==
    /\ pc = "failed"
    /\ call.kind = "retried"
    /\ Terminal(retry.count + 1)
    /\ retry' = [count |-> retry.count + 1, at |-> 0]
    /\ \E logged \in BOOLEAN : pc' = IF logged THEN "logged" ELSE "unlogged"
    /\ UNCHANGED <<clock, bucket, grants, call, wait, http, seen, done, calls>>

\* Faulty: a log that raises takes the alert with it.
EmitAlertIfLogged ==
    /\ pc \in {"logged", "unlogged"}
    /\ End("raised", retry.count,
           [seen EXCEPT !.alerts = IF pc = "logged" THEN @ + 1 ELSE @])

\* The alert is written in either case; then run raises CollectionFailedError,
\* or the RuntimeError of the lost log.
EmitAlert ==
    /\ pc \in {"logged", "unlogged"}
    /\ End("raised", retry.count, [seen EXCEPT !.alerts = @ + 1])

(***************************************************************************)
(* The specification.                                                       *)
(***************************************************************************)
Limiter == Acquire \/ ItemGranted \/ AcquireDenied \/ Wake \/ GiveUp

Transport ==
    \/ \E unchanged \in {FALSE, call.kind # "robots"} :
          Answer(unchanged) \/ AnswerRefused(unchanged)
    \/ TimesOut
    \/ \E u \in Urls : AskMore(u) \/ Redirect(u) \/ RedirectRefused(u)
    \/ Refuse

Caller == FeedRaises \/ RobotsUnknown

Policy == RecordFailure \/ Sleep \/ Again \/ RecordTerminal \/ EmitAlert

\* The thread between the beginning of a call and its end.
Step == Limiter \/ Transport \/ Caller \/ Policy

\* Nothing but the bound on calls ends the stage.
Rest == pc = "idle" /\ calls = MaxCalls /\ UNCHANGED vars

Next ==
    \/ Tick
    \/ \E kind \in Kinds, s \in Sources, u \in Urls : Start(kind, s, u)
    \/ Step
    \/ Rest

Spec == Init /\ [][Next]_vars

\* A request has a timeout, so the thread that began a call goes on with it,
\* and a sleep passes.
FairSpec == Spec /\ WF_vars(Step) /\ WF_vars(Tick /\ Sleeping)

(***************************************************************************)
(* Correctness.                                                             *)
(***************************************************************************)
\* Every variable has its type.
TypeOK ==
    /\ clock \in Nat
    /\ bucket \in [Sources -> {NoBucket} \cup [tokens: Nat, last: Nat]]
    /\ grants \in [Sources -> Seq(Nat)]
    /\ pc \in {"idle", "acquire", "asleep", "granted", "request", "failed", "retrying",
               "backoff", "logged", "unlogged"}
    /\ call \in {NoCall} \cup [kind: Kinds, source: Sources, url: Urls]
    /\ wait \in [sleeps: 0..MaxWaits, early: BOOLEAN, until: Nat]
    /\ http \in {NoRequest} \cup [url: Urls, hops: 0..MaxRedirects, more: BOOLEAN]
    /\ retry \in [count: Nat, at: Nat]
    /\ seen \in [requests: Nat, alerts: 0..1, unchanged: BOOLEAN]
    /\ done \in {NoCall} \cup
          [kind: Kinds, source: Sources, result: {"value", "none", "raised"},
           failures: Nat, requests: Nat, alerts: 0..1, unchanged: BOOLEAN]
    /\ calls \in 0..MaxCalls

\* A source is never called faster than its policy, in any stretch of time:
\* from one token to another, however many sleeps, refusals and calls for
\* other sources lie between, no more tokens are taken than the burst and what
\* the time refills.  This is the promise of the bucket in net/rate_limit.py.
RateKept ==
    \A s \in Sources : \A i, j \in 1..Len(grants[s]) :
        i <= j => (j - i + 1 - Burst[s]) * Interval[s] <= grants[s][j] - grants[s][i]

\* The wait a denied decision names is exact (rate_limit.py: "a denied decision
\* contains the exact delay required before the next request"): who sleeps
\* that long gets the token, and asks a third time only when a sleep was short.
OneSleepSuffices == wait.sleeps > 1 => wait.early

Attempts == IF MaxRetries = 0 THEN 1 ELSE MaxRetries

\* What the retry policy reports is what happened: a run that raises used up
\* its attempts and wrote one alert, even when its log could not be written;
\* one that returns a value wrote none and had an attempt left.
ExhaustedAreAlerted ==
    done.kind = "retried" =>
        IF done.result = "raised"
        THEN done.alerts = 1 /\ done.failures = Attempts
        ELSE done.alerts = 0 /\ done.failures < Attempts

\* What a call may send at most: every page with all its redirects, in every
\* attempt.
Pages(c) == IF c.kind # "robots" /\ c.source \in Paired THEN 2 ELSE 1
PerAttempt(c) == (MaxRedirects + 1) * Pages(c)
Most(c) == PerAttempt(c) * (IF c.kind = "retried" THEN Attempts ELSE 1)

\* A call sends a bounded number of requests whatever the servers answer, even
\* when redirects lead in circles and every attempt starts anew.
RequestsBounded ==
    /\ call.kind # "none" => seen.requests <= Most(call)
    /\ done.kind # "none" => done.requests <= Most(done)

\* No attempt begins before the next_retry_at that was recorded for it: the
\* delay slept is computed apart from the one recorded.
RetriesWait == [][pc = "backoff" /\ pc' = "request" => clock >= retry.at]_vars

\* Every call ends: the loops over sleeps, redirects and attempts are finite.
CallsEnd == pc # "idle" ~> pc = "idle"

(***************************************************************************)
(* Why they hold: the inductive invariant.                                  *)
(***************************************************************************)
\* The calls that may be at each place, and what they have by then.
CallOK ==
    /\ pc = "idle" => call = NoCall
    /\ pc # "idle" =>
          /\ call \in [kind: Kinds, source: Sources, url: Urls]
          /\ http \in [url: Urls, hops: 0..MaxRedirects, more: BOOLEAN]
          /\ http.more => call.kind \in {"feed", "retried"} /\ call.source \in Paired
          /\ seen.alerts = 0
          /\ call.kind # "retried" => retry.count = 0
    /\ pc \in {"acquire", "asleep", "granted"} => call.kind \in {"robots", "item"}
    /\ pc \in {"request", "failed"} => call.kind # "item"
    /\ pc \in {"retrying", "backoff", "logged", "unlogged"} => call.kind = "retried"

\* Between two attempts the count is below the cap; at the cap there is none.
RetryOK ==
    /\ pc \in {"request", "failed", "retrying", "backoff"} => retry.count < Attempts
    /\ pc \in {"retrying", "backoff"} => retry.count >= 1
    /\ pc \in {"logged", "unlogged"} => retry.count = Attempts
    /\ pc = "retrying" => retry.at <= clock + Backoff(retry.count)
    /\ pc = "backoff" => retry.at <= wait.until

\* What was taken from a bucket since a grant, and what is left in it, came out
\* of one burst and the refill of that time.
BucketOK ==
    \A s \in Sources :
        IF bucket[s] = NoBucket THEN grants[s] = <<>>
        ELSE /\ bucket[s].last <= clock
             /\ bucket[s].tokens <= Burst[s] * Interval[s]
             /\ \A i \in 1..Len(grants[s]) :
                   (Len(grants[s]) - i + 1) * Interval[s] + bucket[s].tokens
                      <= Burst[s] * Interval[s] + (bucket[s].last - grants[s][i])

\* At the end of a sleep there is a token.
WaitOK ==
    /\ pc = "acquire" => wait.sleeps < MaxWaits
    /\ pc \in {"acquire", "asleep"} /\ wait.sleeps > 0 =>
          bucket[call.source] # NoBucket
    /\ pc = "asleep" =>
          /\ wait.sleeps > 0
          /\ bucket[call.source].tokens + (wait.until - bucket[call.source].last)
                >= Interval[call.source]
    /\ pc = "acquire" /\ wait.sleeps > 0 /\ ~wait.early =>
          bucket[call.source].tokens + (clock - bucket[call.source].last)
                >= Interval[call.source]

\* The requests of the attempts that failed, and of the one that runs.
CountOK ==
    /\ pc \in {"acquire", "asleep", "granted"} => seen.requests = 0
    /\ pc = "request" =>
          seen.requests <= retry.count * PerAttempt(call)
              + (IF http.more \/ Pages(call) = 1 THEN 0 ELSE MaxRedirects + 1) + http.hops
    /\ pc = "failed" => seen.requests <= (retry.count + 1) * PerAttempt(call)
    /\ pc \in {"retrying", "backoff", "logged", "unlogged"} =>
          seen.requests <= retry.count * PerAttempt(call)

\* The call that ended last sent no more than it may.
DoneOK == done.kind # "none" => done.requests <= Most(done)

IInv ==
    /\ TypeOK
    /\ CallOK
    /\ RetryOK
    /\ BucketOK
    /\ WaitOK
    /\ CountOK
    /\ RateKept
    /\ OneSleepSuffices
    /\ ExhaustedAreAlerted
    /\ DoneOK

\* docs/operations.md:24: "`304` means no new Version": a source that answers a
\* conditional request with 304 has been collected.  Not true of the live
\* transport, which asks a 304 for an approved media type.
NotModifiedIsAnAnswer ==
    done.kind = "feed" => (done.unchanged => done.result = "value")
===============================================================================

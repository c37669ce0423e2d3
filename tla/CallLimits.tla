----------------------------- MODULE CallLimits -----------------------------
(***************************************************************************)
(* One rate-limit, rate-limit-by-key, quota or quota-by-key policy and the *)
(* concurrent requests that share its counter key.                         *)
(*                                                                         *)
(* The rate-limit family counts in one sliding window.  The quota family   *)
(* counts in fixed windows of limit.period, one counter per window, chosen *)
(* by the time the request arrived; inside a window its stamps still age   *)
(* by the wall clock.  An increment given by an expression is postponed: a *)
(* request is checked with increment 0 on the way in and counted when its  *)
(* response is settled, whatever became of it.                             *)
(*                                                                         *)
(* Each limiter call is atomic (rateMu).  Reading the clock just before    *)
(* taking rateMu is part of the same step: the clock does not advance a    *)
(* whole tick in between.                                                  *)
(***************************************************************************)
EXTENDS Integers, Functions, Windows

CONSTANTS
    Requests,
    Limits,     \* the policies to consider, compiled
    Sizes,      \* request body sizes
    MaxDelay,   \* bound: ticks between arrival and the limit policy
    MaxTime     \* bound: ticks in a behaviour

\* A compiled limit.  calls and bandwidth are 0 when the attribute is missing,
\* period 0 is the quota family's infinite period, fixed is the quota family,
\* deferred says that the increment is an expression and increments is what it
\* may evaluate to.
Limit ==
    [calls : Nat, bandwidth : Nat, period : Nat,
     fixed : BOOLEAN, deferred : BOOLEAN, increments : SUBSET Nat]

\* compileLimit refuses a policy with neither budget, and a sliding limit
\* without a period.  An increment that is not an expression is one constant.
compileLimit(limit) ==
    /\ limit.calls > 0 \/ limit.bandwidth > 0
    /\ limit.period = 0 => limit.fixed
    /\ ~ limit.deferred => \E n \in limit.increments : limit.increments = {n}

ASSUME LimitAssumption ==
    /\ \A limit \in Limits : limit \in Limit /\ compileLimit(limit) /\ limit.increments # {}
    /\ Sizes \subseteq Nat
    /\ MaxDelay \in Nat /\ MaxTime \in Nat

VARIABLES
    limit,     \* the policy of this behaviour
    now,       \* the wall clock
    step,      \* where each request is in the pipeline
    arrived,   \* State.Timestamp: when its pipeline started
    size,      \* its Content-Length, where the policy looks at it
    stamps,    \* Runtime.rateWindows: the stamps of each counter, oldest first
    volumes,   \* Runtime.bandwidthWindows
    counted,   \* history: calls that were to be counted, and when
    carried,   \* history: bytes that were to be counted, and when
    advice     \* history: the retry times promised, and to a request of when

vars == <<limit, now, step, arrived, size, stamps, volumes, counted, carried, advice>>

Time == 0..MaxTime
Steps == {"new", "calls", "bandwidth", "forward", "refused", "settleCalls", "settleBytes", "done"}
Volume == [at : Time, bytes : Nat]
CallEntry == [request : Requests, at : Time, counter : Time, calls : Nat]
ByteEntry == [request : Requests, at : Time, counter : Time, bytes : Nat]

TypeOK ==
    /\ limit \in Limits
    /\ now \in Time
    /\ step \in [Requests -> Steps]
    /\ arrived \in [Requests -> Time]
    /\ size \in [Requests -> {0} \cup Sizes]
    /\ stamps \in [Time -> Seq(Time)]
    /\ volumes \in [Time -> Seq(Volume)]
    /\ counted \subseteq CallEntry
    /\ carried \subseteq ByteEntry
    /\ advice \subseteq [since : Time, until : Nat]

Init ==
    /\ limit \in Limits
    /\ now = 0
    /\ step = [r \in Requests |-> "new"]
    /\ arrived = [r \in Requests |-> 0]
    /\ size \in [Requests -> IF limit.bandwidth = 0 THEN {0} ELSE Sizes]
    /\ stamps = [c \in Time |-> <<>>]
    /\ volumes = [c \in Time |-> <<>>]
    /\ counted = {}
    /\ carried = {}
    /\ advice = {}

\* The counter the request's window counts in; windows start at the epoch.
limitWindow(r) ==
    IF limit.fixed /\ limit.period > 0 THEN arrived[r] \div limit.period ELSE 0

\* A stamp counts while it is younger than the period; an infinite period
\* never ages one out.
FreshAt(t) == {at \in Nat : limit.period = 0 \/ at > t - limit.period}
Fresh == FreshAt(now)

\* Mutant: a stamp still counts when it is exactly a period old.
KeptCallsTooLong(c) ==
    Select(stamps[c], {at \in Nat : limit.period = 0 \/ at >= now - limit.period})

KeptCalls(c) == Select(stamps[c], Fresh)
KeptVolumes(c) == Select(volumes[c], [at : Fresh, bytes : Nat])
Total(vs) == SumFunction([i \in DOMAIN vs |-> vs[i].bytes])

\* Runtime.rateLimit answers Exceeded.
CallsExceeded(c) == Len(KeptCalls(c)) >= limit.calls

\* Mutant: every call weighs one.
rateLimitByOne(c, increment) ==
    stamps' = [stamps EXCEPT ![c] =
        IF CallsExceeded(c) THEN KeptCalls(c) ELSE Append(KeptCalls(c), now)]

\* Mutant: a stamp is when the call expires, not when it was made.
rateLimitExpiry(c, increment) ==
    stamps' = [stamps EXCEPT ![c] =
        IF CallsExceeded(c) THEN KeptCalls(c)
        ELSE KeptCalls(c) \o [i \in 1..increment |-> now + limit.period]]

\* Mutant: a call is counted when it is checked and again when it is added.
rateLimitTwice(c, increment) ==
    stamps' = [stamps EXCEPT ![c] =
        IF CallsExceeded(c) THEN KeptCalls(c)
        ELSE KeptCalls(c) \o [i \in 1..(2 * increment) |-> now]]

\* What Runtime.rateLimit leaves in the counter: a refused call leaves only
\* the stamps that are still fresh.
rateLimit(c, increment) ==
    stamps' = [stamps EXCEPT ![c] =
        IF CallsExceeded(c) THEN KeptCalls(c)
        ELSE KeptCalls(c) \o [i \in 1..increment |-> now]]

\* Mutant: the budget is compared without the bytes of this request.
BytesExceededBefore(c, add) == Total(KeptVolumes(c)) > limit.bandwidth

BytesExceeded(c, add) == Total(KeptVolumes(c)) + add > limit.bandwidth

bandwidthLimit(c, add) ==
    volumes' = [volumes EXCEPT ![c] =
        IF BytesExceeded(c, add) THEN KeptVolumes(c)
        ELSE Append(KeptVolumes(c), [at |-> now, bytes |-> add])]

\* windowRetryAfter and retryAfterSeconds: a fixed window renews at its
\* boundary, a sliding one when its oldest stamp ages out; never less than 1.
RetryAfter(r) ==
    LET c == limitWindow(r)
        wait == IF limit.period = 0 THEN 0
                ELSE IF limit.fixed THEN (c + 1) * limit.period - arrived[r]
                ELSE Head(KeptCalls(c)) + limit.period - now
    IN  IF wait < 1 THEN 1 ELSE wait

-----------------------------------------------------------------------------
\* A request that has arrived reaches the limit policy within MaxDelay.
Tick ==
    /\ now < MaxTime
    /\ \A r \in Requests : step[r] \in {"calls", "bandwidth"} => now < arrived[r] + MaxDelay
    /\ now' = now + 1
    /\ UNCHANGED <<limit, step, arrived, size, stamps, volumes, counted, carried, advice>>

Arrive(r) ==
    /\ step[r] = "new"
    /\ step' = [step EXCEPT ![r] = "calls"]
    /\ arrived' = [arrived EXCEPT ![r] = now]
    /\ UNCHANGED <<limit, now, size, stamps, volumes, counted, carried, advice>>

\* The increment applied on the way in.
EntryIncrement == IF limit.deferred THEN 0 ELSE CHOOSE n \in limit.increments : TRUE

LogCalls(r, n) ==
    counted' = IF n = 0 THEN counted ELSE counted \cup
        {[request |-> r, at |-> now, counter |-> limitWindow(r), calls |-> n]}

LogBytes(r, n) ==
    carried' = IF n = 0 THEN carried ELSE carried \cup
        {[request |-> r, at |-> now, counter |-> limitWindow(r), bytes |-> n]}

\* executeLimit, the calls budget.
CallsPass(r) ==
    /\ step[r] = "calls"
    /\ limit.calls > 0 => ~ CallsExceeded(limitWindow(r))
    /\ IF limit.calls > 0
       THEN rateLimit(limitWindow(r), EntryIncrement) /\ LogCalls(r, EntryIncrement)
       ELSE UNCHANGED <<stamps, counted>>
    /\ step' = [step EXCEPT ![r] = "bandwidth"]
    /\ UNCHANGED <<limit, now, arrived, size, volumes, carried, advice>>

CallsRefuse(r) ==
    /\ step[r] = "calls"
    /\ limit.calls > 0
    /\ CallsExceeded(limitWindow(r))
    /\ rateLimit(limitWindow(r), EntryIncrement)
    /\ advice' = advice \cup {[since |-> arrived[r], until |-> now + RetryAfter(r)]}
    /\ step' = [step EXCEPT ![r] = "refused"]
    /\ UNCHANGED <<limit, now, arrived, size, volumes, counted, carried>>

\* executeLimit, the bandwidth budget: a request that is not counted adds no
\* bytes.
EntryBytes(r) == IF EntryIncrement > 0 THEN size[r] ELSE 0

BandwidthPass(r) ==
    /\ step[r] = "bandwidth"
    /\ limit.bandwidth > 0 => ~ BytesExceeded(limitWindow(r), EntryBytes(r))
    /\ IF limit.bandwidth > 0
       THEN bandwidthLimit(limitWindow(r), EntryBytes(r)) /\ LogBytes(r, EntryBytes(r))
       ELSE UNCHANGED <<volumes, carried>>
    /\ step' = [step EXCEPT ![r] = "forward"]
    /\ UNCHANGED <<limit, now, arrived, size, stamps, counted, advice>>

BandwidthRefuse(r) ==
    /\ step[r] = "bandwidth"
    /\ limit.bandwidth > 0
    /\ BytesExceeded(limitWindow(r), EntryBytes(r))
    /\ bandwidthLimit(limitWindow(r), EntryBytes(r))
    /\ step' = [step EXCEPT ![r] = "refused"]
    /\ UNCHANGED <<limit, now, arrived, size, stamps, counted, carried, advice>>

\* The response is settled: RunPendingIncrements runs what was postponed, for
\* a refused request too.
Settle(r) ==
    /\ step[r] \in {"forward", "refused"}
    /\ step' = [step EXCEPT ![r] = IF limit.deferred THEN "settleCalls" ELSE "done"]
    /\ UNCHANGED <<limit, now, arrived, size, stamps, volumes, counted, carried, advice>>

\* deferredIncrement: an increment of 0, or one that does not evaluate, does
\* nothing.
SettleNothing(r) ==
    /\ step[r] = "settleCalls"
    /\ 0 \in limit.increments
    /\ step' = [step EXCEPT ![r] = "done"]
    /\ UNCHANGED <<limit, now, arrived, size, stamps, volumes, counted, carried, advice>>

SettleCalls(r) ==
    /\ step[r] = "settleCalls"
    /\ \E n \in limit.increments \ {0} :
          IF limit.calls > 0
          THEN rateLimit(limitWindow(r), n) /\ LogCalls(r, n)
          ELSE UNCHANGED <<stamps, counted>>
    /\ step' = [step EXCEPT ![r] = "settleBytes"]
    /\ UNCHANGED <<limit, now, arrived, size, volumes, carried, advice>>

SettleBytes(r) ==
    /\ step[r] = "settleBytes"
    /\ IF limit.bandwidth > 0
       THEN bandwidthLimit(limitWindow(r), size[r]) /\ LogBytes(r, size[r])
       ELSE UNCHANGED <<volumes, carried>>
    /\ step' = [step EXCEPT ![r] = "done"]
    /\ UNCHANGED <<limit, now, arrived, size, stamps, counted, advice>>

Serve(r) ==
    \/ Arrive(r) \/ CallsPass(r) \/ CallsRefuse(r) \/ BandwidthPass(r) \/ BandwidthRefuse(r)
    \/ Settle(r) \/ SettleNothing(r) \/ SettleCalls(r) \/ SettleBytes(r)

Next == Tick \/ \E r \in Requests : Serve(r)

Spec == Init /\ [][Next]_vars

-----------------------------------------------------------------------------
\* An entry of a log that lies in the period that ends at time t.
InPeriod(e, t) == limit.period = 0 \/ (t - limit.period < e.at /\ e.at <= t)

CallsIn(entries) == SumFunction([e \in entries |-> e.calls])
BytesIn(entries) == SumFunction([e \in entries |-> e.bytes])

\* A limit whose increment is known on the way in lets at most its calls
\* through in any period, wherever the period starts and however requests
\* interleave or are delayed; the counters of a fixed window do not share.
\* The last call may overshoot by its own increment less one.
CallsPerPeriod ==
    ~ limit.deferred =>
        \A t, c \in Time :
            LET entries == {e \in counted : e.counter = c /\ InPeriod(e, t)}
            IN  entries # {} => CallsIn(entries) < limit.calls + EntryIncrement

\* Nor do the bytes of a counter exceed the bandwidth budget in any period.
BytesPerPeriod ==
    (limit.bandwidth > 0 /\ ~ limit.deferred) =>
        \A t, c \in Time :
            BytesIn({e \in carried : e.counter = c /\ InPeriod(e, t)}) <= limit.bandwidth

\* Nobody is refused for less than a spent budget: a 429 means that limit.calls
\* calls were to be counted in the period that ends now, under the counter the
\* request is held to.  Refused calls, calls that have aged out and the calls
\* of other windows take nothing from it, settled late or not.
RefusedOnlyWhenSpent ==
    [][\A r \in Requests :
         step[r] = "calls" /\ step'[r] = "refused" =>
             CallsIn({e \in counted : e.counter = limitWindow(r) /\ InPeriod(e, now)})
                 >= limit.calls]_vars

\* "The window frees up when its oldest call ages out": a caller that waits
\* for the Retry-After it was given is let through, unless other calls were
\* counted since it was refused.  Increments that vary are the exception: one
\* that ages out may not make up for the overshoot of a larger one.  So is an
\* infinite period, which promises a second and never renews.
RetryAfterSuffices ==
    [][\A r \in Requests :
         (/\ step[r] = "calls" /\ step'[r] = "refused" /\ limit.period > 0
          /\ limit.fixed \/ \E n \in limit.increments : limit.increments \subseteq {0, n}) =>
             \A a \in advice :
                 arrived[r] < a.until \/ \E e \in counted : e.at > a.since]_vars
=============================================================================

---------------------------- MODULE BackendCalls ----------------------------
(***************************************************************************)
(* The last part of the gateway's pipeline: concurrent requests that call  *)
(* backends through the circuit breaker, fault injection and the retry     *)
(* policy.                                                                 *)
(*                                                                         *)
(* Time is relative, so that behaviours need no end: a failure is its age, *)
(* an open breaker the time it has left.  Ages stop at Interval, where a   *)
(* failure no longer counts.                                               *)
(***************************************************************************)
EXTENDS Naturals, FiniteSets, Windows

CONSTANTS
    Requests,
    Backends,
    Count, Interval, TripDuration,   \* the rule of every backend
    Outcomes,     \* what a call of a backend may end in
    FailureOn,    \* the outcomes in the rule's status range, and errors
    RetryOn,      \* the outcomes that satisfy the retry policy's condition
    RetryCount,   \* attempts after the first; 0 without a retry policy
    Remaining,    \* countdowns a fault may be installed with; 0 has none
    AnyBackend,   \* the wildcard backend of a fault
    NoFault

\* backendCircuitRule ignores a rule with no count.  A call that ends in no
\* response at all is a failure under every rule.
ASSUME BreakerAssumption ==
    /\ Count \in Nat \ {0}
    /\ Interval \in Nat /\ TripDuration \in Nat
    /\ FailureOn \subseteq Outcomes /\ RetryOn \subseteq Outcomes
    /\ "error" \in FailureOn
    /\ RetryCount \in Nat
    /\ Remaining \subseteq Nat
    /\ AnyBackend \notin Backends
    /\ NoFault \notin Nat

Faultable == Backends \cup {AnyBackend}

VARIABLES
    failures,   \* circuitState.failures: ages, oldest first
    opened,     \* circuitState.openedUntil is not the zero time
    left,       \* time until openedUntil
    faults,     \* Runtime.faults: the countdown of each installed fault
    step,       \* where each request is
    target,     \* its backend
    attempt,    \* attempts made so far
    streak,     \* history: ages of the failures recorded since a success
    sparing     \* history: requests past the breaker when it last tripped

vars == <<failures, opened, left, faults, step, target, attempt, streak, sparing>>
breaker == <<failures, opened, left, streak, sparing>>

Ages == 0..Interval

TypeOK ==
    /\ failures \in [Backends -> Seq(Ages)]
    /\ opened \in [Backends -> BOOLEAN]
    /\ left \in [Backends -> 0..TripDuration]
    /\ faults \in [Faultable -> Nat \cup {NoFault}]
    /\ step \in [Requests -> {"idle", "breaker", "fault", "sending", "ended"}]
    /\ target \in [Requests -> Backends]
    /\ attempt \in [Requests -> 0..RetryCount]
    /\ streak \in [Backends -> Seq(Ages)]
    /\ sparing \in [Backends -> SUBSET Requests]

Init ==
    /\ failures = [b \in Backends |-> <<>>]
    /\ opened = [b \in Backends |-> FALSE]
    /\ left = [b \in Backends |-> 0]
    /\ faults = [k \in Faultable |-> NoFault]
    /\ step = [r \in Requests |-> "idle"]
    /\ target \in [Requests -> Backends]
    /\ attempt = [r \in Requests |-> 0]
    /\ streak = [b \in Backends |-> <<>>]
    /\ sparing = [b \in Backends |-> {}]

Open(b) == left[b] > 0

\* Requests that the breaker of b has let through and whose outcome is not
\* recorded.
PastBreaker(b) == {r \in Requests : target[r] = b /\ step[r] \in {"fault", "sending", "ended"}}

Older(ages) == [i \in DOMAIN ages |-> IF ages[i] < Interval THEN ages[i] + 1 ELSE Interval]

Tick ==
    /\ failures' = [b \in Backends |-> Older(failures[b])]
    /\ streak' = [b \in Backends |-> Older(streak[b])]
    /\ left' = [b \in Backends |-> IF left[b] > 0 THEN left[b] - 1 ELSE 0]
    /\ UNCHANGED <<opened, faults, step, target, attempt, sparing>>

\* updateFault: the operator installs or clears a fault.
SetFault(k, n) ==
    /\ faults' = [faults EXCEPT ![k] = n]
    /\ UNCHANGED <<breaker, step, target, attempt>>

\* The policies of the inbound and backend sections have run and chosen a
\* backend.  Of what ServeHTTP does next this is the plain HTTP call;
\* WebSocket, SOAP, gRPC, MCP and GraphQL requests go ways of their own.
Arrive(r, b) ==
    /\ step[r] = "idle"
    /\ step' = [step EXCEPT ![r] = "breaker"]
    /\ target' = [target EXCEPT ![r] = b]
    /\ attempt' = [attempt EXCEPT ![r] = 0]
    /\ UNCHANGED <<breaker, faults>>

\* Mutant: a refused request keeps the breaker open for longer.
circuitRefusesLonger(r) ==
    /\ step[r] = "breaker"
    /\ Open(target[r])
    /\ left' = [left EXCEPT ![target[r]] = TripDuration]
    /\ step' = [step EXCEPT ![r] = "idle"]
    /\ UNCHANGED <<failures, opened, streak, sparing, faults, target, attempt>>

\* circuitOpen answers true: policyFailure, the request is over.
circuitRefuses(r) ==
    /\ step[r] = "breaker"
    /\ Open(target[r])
    /\ step' = [step EXCEPT ![r] = "idle"]
    /\ UNCHANGED <<breaker, faults, target, attempt>>

\* Mutant: the breaker closes a tick early.
circuitPassesEarly(r) ==
    LET b == target[r]
    IN  /\ step[r] = "breaker"
        /\ left[b] <= 1
        /\ opened' = [opened EXCEPT ![b] = FALSE]
        /\ failures' = IF opened[b] THEN [failures EXCEPT ![b] = <<>>] ELSE failures
        /\ step' = [step EXCEPT ![r] = "fault"]
        /\ UNCHANGED <<left, faults, target, attempt, streak, sparing>>

\* circuitOpen answers false; a breaker whose time has run out is closed and
\* forgets its failures.
circuitPasses(r) ==
    LET b == target[r]
    IN  /\ step[r] = "breaker"
        /\ ~ Open(b)
        /\ opened' = [opened EXCEPT ![b] = FALSE]
        /\ failures' = IF opened[b] THEN [failures EXCEPT ![b] = <<>>] ELSE failures
        /\ step' = [step EXCEPT ![r] = "fault"]
        /\ UNCHANGED <<left, faults, target, attempt, streak, sparing>>

\* The fault a request meets: its backend's own, or else the wildcard's.
FaultKey(r) == IF faults[target[r]] # NoFault THEN target[r] ELSE AnyBackend

\* Mutant: the last injection leaves a negative countdown.
takeFaultPastZero(r) ==
    LET k == FaultKey(r)
    IN  /\ step[r] = "fault"
        /\ faults[k] # NoFault
        /\ faults' = [faults EXCEPT ![k] = @ - 1]
        /\ step' = [step EXCEPT ![r] = "idle"]
        /\ UNCHANGED <<breaker, target, attempt>>

\* takeFault finds one: it is served as the answer, and its countdown ends by
\* removing it.
takeFault(r) ==
    LET k == FaultKey(r)
    IN  /\ step[r] = "fault"
        /\ faults[k] # NoFault
        /\ faults' = [faults EXCEPT ![k] = IF @ = 0 THEN 0 ELSE IF @ = 1 THEN NoFault ELSE @ - 1]
        /\ step' = [step EXCEPT ![r] = "idle"]
        /\ UNCHANGED <<breaker, target, attempt>>

noFault(r) ==
    /\ step[r] = "fault"
    /\ faults[FaultKey(r)] = NoFault
    /\ step' = [step EXCEPT ![r] = "sending"]
    /\ UNCHANGED <<breaker, faults, target, attempt>>

\* forwardWithClient, client.Do: the backend answers, the connection breaks or
\* the caller leaves.  The client has no timeout.
CallEnds(r) ==
    /\ step[r] = "sending"
    /\ step' = [step EXCEPT ![r] = "ended"]
    /\ UNCHANGED <<breaker, faults, target, attempt>>

\* Mutant: attempts are not counted.
RetryForever(r) ==
    /\ step[r] = "ended"
    /\ RetryOn # {}
    /\ attempt[r] < RetryCount
    /\ step' = [step EXCEPT ![r] = "sending"]
    /\ UNCHANGED <<breaker, faults, attempt, target>>

\* forwardWithRetry: the outcome satisfies the retry condition and attempts
\* are left.  The breaker is not asked again.
Retry(r) ==
    /\ step[r] = "ended"
    /\ RetryOn # {}
    /\ attempt[r] < RetryCount
    /\ step' = [step EXCEPT ![r] = "sending"]
    /\ attempt' = [attempt EXCEPT ![r] = @ + 1]
    /\ UNCHANGED <<breaker, faults, target>>

\* forwardWithRetry returns outcome o: it is not retried, no attempt is left,
\* or the caller hung up while waiting for the next one.
Returns(r, o) ==
    /\ step[r] = "ended"
    /\ o \notin RetryOn \/ attempt[r] = RetryCount \/ o = "error"
    /\ step' = [step EXCEPT ![r] = "idle"]
    /\ UNCHANGED <<faults, target, attempt>>

\* recordCircuit of a success: the breaker closes and forgets.
Succeed(r) ==
    LET b == target[r]
    IN  /\ \E o \in Outcomes \ FailureOn : Returns(r, o)
        /\ failures' = [failures EXCEPT ![b] = <<>>]
        /\ opened' = [opened EXCEPT ![b] = FALSE]
        /\ left' = [left EXCEPT ![b] = 0]
        /\ streak' = [streak EXCEPT ![b] = <<>>]
        /\ UNCHANGED sparing

\* Mutant: failures of any age count.
YoungOrOld(ages) == ages

Young(ages) == Select(ages, {a \in Ages : a < Interval})

\* recordCircuit of a failure: the failures of the interval and this one, and
\* the breaker trips, or trips again, when they are enough.
Fail(r) ==
    LET b == target[r]
        recent == Append(Young(failures[b]), 0)
        trips == Len(recent) >= Count
    IN  /\ \E o \in FailureOn : Returns(r, o)
        /\ failures' = [failures EXCEPT ![b] = recent]
        /\ opened' = [opened EXCEPT ![b] = @ \/ trips]
        /\ left' = IF trips THEN [left EXCEPT ![b] = TripDuration] ELSE left
        /\ streak' = [streak EXCEPT ![b] = Append(Young(@), 0)]
        /\ sparing' = IF trips /\ ~ Open(b)
                      THEN [sparing EXCEPT ![b] = PastBreaker(b) \ {r}] ELSE sparing

Request(r) ==
    \/ \E b \in Backends : Arrive(r, b)
    \/ circuitRefuses(r) \/ circuitPasses(r) \/ takeFault(r) \/ noFault(r)
    \/ CallEnds(r) \/ Retry(r) \/ Succeed(r) \/ Fail(r)

Next ==
    \/ Tick
    \/ \E k \in Faultable : \E n \in Remaining \cup {NoFault} : SetFault(k, n)
    \/ \E r \in Requests : Request(r)

Spec == Init /\ [][Next]_vars

\* Time passes and handlers run.  A call of a backend need not end: nothing is
\* assumed of CallEnds.
Fairness ==
    /\ WF_vars(Tick)
    /\ \A r \in Requests :
          WF_vars(\/ circuitRefuses(r) \/ circuitPasses(r) \/ takeFault(r) \/ noFault(r)
                  \/ Retry(r) \/ Succeed(r) \/ Fail(r))

FairSpec == Spec /\ Fairness

-----------------------------------------------------------------------------
\* While a breaker is open, only requests that were past it when it tripped
\* reach the backend, their retries included.
NoNewTrafficWhileOpen ==
    \A b \in Backends : Open(b) => PastBreaker(b) \subseteq sparing[b]

\* A breaker opens, or opens for longer, only after Count failures within the
\* interval with no success recorded in between.  The failure just recorded,
\* which is the last, counts whatever the interval is.
TripNeedsFailures ==
    [][\A b \in Backends :
         (left'[b] > left[b]) =>
             Cardinality({i \in DOMAIN streak'[b] :
                             streak'[b][i] < Interval \/ i = Len(streak'[b])}) >= Count]_vars

\* An open breaker closes, even while calls hang: late failures of requests in
\* flight extend it, and there are only so many of them.
BreakerCloses == \A b \in Backends : Open(b) ~> ~ Open(b)

\* A request that ServeHTTP has taken up is answered, whatever the breaker, the
\* faults and the retries do, unless one of its calls hangs for ever because
\* its backend never answers and its caller never leaves.
EveryRequestEnds ==
    \A r \in Requests :
        []<>(step[r] # "sending") => ((step[r] # "idle") ~> (step[r] = "idle"))
=============================================================================

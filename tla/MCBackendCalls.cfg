\* Two requests race on one breaker, with retries, and with faults on the
\* backend and on all backends.
SPECIFICATION FairSpec
CONSTANTS
    Requests = {r1, r2}
    Backends = {b1}
    Count = 2
    Interval = 2
    TripDuration = 2
    Outcomes <- McOutcomes
    FailureOn <- McFailureOn
    RetryOn <- McRetryOn
    RetryCount = 1
    Remaining = {0, 1, 2}
    AnyBackend = any
    NoFault = none
INVARIANTS TypeOK NoNewTrafficWhileOpen
PROPERTIES TripNeedsFailures BreakerCloses EveryRequestEnds

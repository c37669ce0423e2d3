\* Six kinds of limit, each shared by three requests that may be delayed.
SPECIFICATION Spec
CONSTANTS
    Requests = {r1, r2, r3}
    Limits <- McLimits
    Sizes = {1, 2}
    MaxDelay = 1
    MaxTime = 4
CHECK_DEADLOCK FALSE
SYMMETRY RequestSymmetry
INVARIANTS TypeOK CallsPerPeriod BytesPerPeriod
PROPERTIES RefusedOnlyWhenSpent RetryAfterSuffices

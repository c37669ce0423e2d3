\* A rate and a quota, with and without prompt estimates, over several
\* minutes and quota periods: refusals and late answers.
SPECIFICATION TokensSpec
CONSTANTS
    Prompts = {r1, r2, r3}
    TokensPerMinute = 3
    TokenQuota = 2
    Minute = 2
    QuotaPeriod = 2
    Estimates = {0, 2}
    Totals = {0, 1, 3}
    MaxTime = 4
CHECK_DEADLOCK FALSE
SYMMETRY PromptSymmetry
INVARIANTS TokensTypeOK QuotaIsWhatWasSpent
PROPERTIES OverspendRefusesNext NoPassBeforeRetryAfter

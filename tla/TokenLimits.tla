----------------------------- MODULE TokenLimits -----------------------------
(***************************************************************************)
(* One llm-token-limit policy and the concurrent requests that share its   *)
(* counter key: the per-minute window and the quota of a fixed period.     *)
(*                                                                         *)
(* A model reports the cost of a request once it has answered.  A request  *)
(* is therefore judged by what earlier requests were charged: the prompt   *)
(* estimate on the way in, when the policy asks for one, and the actual    *)
(* total when the answer ends.  Both counters are guarded by rateMu, one   *)
(* critical section each.                                                  *)
(***************************************************************************)
EXTENDS Integers, Functions, Windows

CONSTANTS
    Prompts,           \* the requests to the model
    TokensPerMinute,   \* 0 when the policy has no rate
    TokenQuota,        \* 0 when it has no quota
    Minute,            \* ticks in the sliding window
    QuotaPeriod,       \* ticks in a quota period
    Estimates,         \* prompt estimates; {0} without estimate-prompt-tokens
    Totals,            \* reported totals; 0 is an answer without usage
    MaxTime            \* bound: ticks in a behaviour

ASSUME TokenAssumption ==
    /\ TokensPerMinute \in Nat /\ TokenQuota \in Nat
    /\ Minute \in Nat \ {0} /\ QuotaPeriod \in Nat \ {0}
    /\ Estimates \subseteq Nat /\ Totals \subseteq Nat
    /\ MaxTime \in Nat

VARIABLES
    now,       \* the wall clock
    estimate,  \* what each prompt is estimated to cost
    total,     \* what its answer will cost
    stage,      \* where each request is
    allowed,   \* what executeLLMTokenLimit has found so far
    window,    \* Runtime.tokenWindows of the key, its stale tail included
    quotas,    \* Runtime.tokenQuotas, by period
    spent,     \* history: what answers cost, when it was recorded
    billed,    \* history: what answers cost, by the period it was charged to
    advice     \* history: the Retry-After times promised by the rate

tokensVars == <<now, estimate, total, stage, allowed, window, quotas, spent, billed, advice>>

Time == 0..MaxTime
Stamp == [at : Time, tokens : Nat]

TokensTypeOK ==
    /\ now \in Time
    /\ estimate \in [Prompts -> Estimates]
    /\ total \in [Prompts -> Totals]
    /\ stage \in [Prompts -> {"new", "quota", "forward", "record", "charge", "done"}]
    /\ allowed \in [Prompts -> BOOLEAN]
    /\ window \in Seq(Stamp)
    /\ quotas \in [Time -> Nat]
    /\ spent \subseteq [request : Prompts, at : Time, tokens : Nat]
    /\ billed \subseteq [request : Prompts, period : Time, tokens : Nat]
    /\ advice \subseteq Nat

TokensInit ==
    /\ now = 0
    /\ estimate \in [Prompts -> Estimates]
    /\ total \in [Prompts -> Totals]
    /\ stage = [r \in Prompts |-> "new"]
    /\ allowed = [r \in Prompts |-> TRUE]
    /\ window = <<>>
    /\ quotas = [p \in Time |-> 0]
    /\ spent = {}
    /\ billed = {}
    /\ advice = {}

Sum(stamps) == SumFunction([i \in DOMAIN stamps |-> stamps[i].tokens])

\* The stamps that count at time t: those of the minute before it.
FreshAt(t) == {stamp \in [at : Nat, tokens : Nat] : stamp.at > t - Minute}

\* trimTokenWindow
Kept == Select(window, FreshAt(now))

\* trimTokenWindow filters in place: where its result is not stored, the kept
\* stamps have moved to the front of the slice and its tail is as it was.
TrimmedInPlace == Kept \o SubSeq(window, Len(Kept) + 1, Len(window))

SpendTimes == {Kept[i].at : i \in DOMAIN Kept}

\* Mutant: the wait is that of the newest spend.
Newest == CHOOSE t \in SpendTimes : \A u \in SpendTimes : t >= u

Oldest == CHOOSE t \in SpendTimes : \A u \in SpendTimes : t <= u

\* The period a moment falls in (tokenQuotaWindow).
tokenQuotaWindow == now \div QuotaPeriod

-----------------------------------------------------------------------------
Tick ==
    /\ now < MaxTime
    /\ now' = now + 1
    /\ UNCHANGED <<estimate, total, stage, allowed, window, quotas, spent, billed, advice>>

\* Mutant: a request passes when the budget is spent exactly.
RatePassAtLimit(r) ==
    /\ stage[r] = "new"
    /\ TokensPerMinute > 0 => Sum(Kept) <= TokensPerMinute
    /\ window' = IF TokensPerMinute = 0 THEN window
                 ELSE IF estimate[r] > 0 THEN Append(Kept, [at |-> now, tokens |-> estimate[r]])
                 ELSE Kept
    /\ UNCHANGED <<allowed, advice>>

\* tokenLimit lets the request pass and charges its estimate.
RatePass(r) ==
    /\ stage[r] = "new"
    /\ TokensPerMinute > 0 => Sum(Kept) < TokensPerMinute
    /\ window' = IF TokensPerMinute = 0 THEN window
                 ELSE IF estimate[r] > 0 THEN Append(Kept, [at |-> now, tokens |-> estimate[r]])
                 ELSE Kept
    /\ UNCHANGED <<allowed, advice>>

\* tokenLimit refuses: the trimmed slice is not stored.
RateRefuse(r) ==
    /\ stage[r] = "new"
    /\ TokensPerMinute > 0
    /\ Sum(Kept) >= TokensPerMinute
    /\ window' = TrimmedInPlace
    /\ allowed' = [allowed EXCEPT ![r] = FALSE]
    /\ advice' = advice \cup {Oldest + Minute + 1}

\* executeLLMTokenLimit, the rate.
TokenLimit(r) ==
    /\ RatePass(r) \/ RateRefuse(r)
    /\ stage' = [stage EXCEPT ![r] = "quota"]
    /\ UNCHANGED <<now, estimate, total, quotas, spent, billed>>

\* applyTokenQuota and tokenQuota: consulted, and charged the estimate, even
\* when the rate has already refused.
ApplyTokenQuota(r) ==
    LET p == tokenQuotaWindow
        within == TokenQuota = 0 \/ quotas[p] < TokenQuota
        admits == allowed[r] /\ within
    IN  /\ stage[r] = "quota"
        /\ quotas' = IF TokenQuota > 0 /\ within THEN [quotas EXCEPT ![p] = @ + estimate[r]] ELSE quotas
        /\ allowed' = [allowed EXCEPT ![r] = admits]
        /\ stage' = [stage EXCEPT ![r] = IF admits THEN "forward" ELSE "done"]
        /\ UNCHANGED <<now, estimate, total, window, spent, billed, advice>>

\* The answer ends.  One without usage, or one that the outbound policies
\* replace, is not accounted for.
Answer(r) ==
    /\ stage[r] = "forward"
    /\ stage' = [stage EXCEPT ![r] = IF total[r] > 0 THEN "record" ELSE "done"]
    /\ UNCHANGED <<now, estimate, total, allowed, window, quotas, spent, billed, advice>>

\* Mutant: the actual cost is recorded net of the estimate.
recordTokensNet(r) ==
    /\ stage[r] = "record"
    /\ window' = Append(Kept, [at |-> now, tokens |-> total[r] - estimate[r]])
    /\ spent' = spent \cup {[request |-> r, at |-> now, tokens |-> total[r]]}
    /\ stage' = [stage EXCEPT ![r] = IF TokenQuota > 0 THEN "charge" ELSE "done"]
    /\ UNCHANGED <<now, estimate, total, allowed, quotas, billed, advice>>

\* recordTokens; tokensRemaining, which follows it, only trims again.
recordTokens(r) ==
    /\ stage[r] = "record"
    /\ window' = Append(Kept, [at |-> now, tokens |-> total[r]])
    /\ spent' = spent \cup {[request |-> r, at |-> now, tokens |-> total[r]]}
    /\ stage' = [stage EXCEPT ![r] = IF TokenQuota > 0 THEN "charge" ELSE "done"]
    /\ UNCHANGED <<now, estimate, total, allowed, quotas, billed, advice>>

\* Mutant: the charge replaces the counter it read before the lock.
chargeTokenQuotaOver(r) ==
    /\ stage[r] = "charge"
    /\ quotas' = [quotas EXCEPT ![tokenQuotaWindow] = total[r]]
    /\ billed' = billed \cup {[request |-> r, period |-> tokenQuotaWindow, tokens |-> total[r]]}
    /\ stage' = [stage EXCEPT ![r] = "done"]
    /\ UNCHANGED <<now, estimate, total, allowed, window, spent, advice>>

\* chargeTokenQuota: the period is that of the answer, not of the request.
chargeTokenQuota(r) ==
    /\ stage[r] = "charge"
    /\ quotas' = [quotas EXCEPT ![tokenQuotaWindow] = @ + total[r]]
    /\ billed' = billed \cup {[request |-> r, period |-> tokenQuotaWindow, tokens |-> total[r]]}
    /\ stage' = [stage EXCEPT ![r] = "done"]
    /\ UNCHANGED <<now, estimate, total, allowed, window, spent, advice>>

Serve(r) ==
    \/ TokenLimit(r) \/ ApplyTokenQuota(r) \/ Answer(r)
    \/ recordTokens(r) \/ chargeTokenQuota(r)

TokensNext == Tick \/ \E r \in Prompts : Serve(r)

TokensSpec == TokensInit /\ [][TokensNext]_tokensVars

-----------------------------------------------------------------------------
TokensOf(entries) == SumFunction([e \in entries |-> e.tokens])
SpentInMinute == {e \in spent : e.at > now - Minute}

\* "A request that blows the budget is served, and the request after it is
\* refused": no request passes the rate while the answers recorded in the
\* last minute have cost the budget, whatever refusals did to the window.
OverspendRefusesNext ==
    [][\A r \in Prompts :
         (TokensPerMinute > 0 /\ stage[r] = "new" /\ stage'[r] = "quota" /\ allowed'[r])
             => TokensOf(SpentInMinute) < TokensPerMinute]_tokensVars

\* "Retry-After is when the oldest spend leaves the window, which is the first
\* moment the caller could succeed": nobody passes the rate before it, but for
\* the second that rounding adds.
NoPassBeforeRetryAfter ==
    [][\A r \in Prompts :
         (stage[r] = "new" /\ stage'[r] = "quota" /\ allowed'[r])
             => \A t \in advice : now >= t - 1]_tokensVars

\* "The quota is charged what the model actually spent, the same as the
\* per-minute counter": without estimates, and once every answer is accounted
\* for, a period's counter is the cost of the answers billed to it, and what
\* the window was charged for is billed, in the period of its spend or a later
\* one.
QuotaIsWhatWasSpent ==
    (\A r \in Prompts : stage[r] \in {"new", "done"} /\ estimate[r] = 0) =>
        /\ \A p \in Time : quotas[p] = TokensOf({e \in billed : e.period = p})
        /\ TokenQuota > 0 => \A e \in spent : \E b \in billed :
              b.request = e.request /\ b.tokens = e.tokens /\ b.period >= e.at \div QuotaPeriod
=============================================================================

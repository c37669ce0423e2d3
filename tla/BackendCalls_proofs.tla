------------------------ MODULE BackendCalls_proofs ------------------------
(***************************************************************************)
(* Proofs about the circuit breaker, fault injection and retries, for any  *)
(* requests, backends, rules, faults and retry policies.                   *)
(***************************************************************************)
EXTENDS BackendCalls, Windows_proofs

Below(u) == {a \in Ages : a < u}

\* The breaker remembers no failure that was not recorded since the last
\* success: of any age, there are at most as many.
FailuresInStreak ==
    \A b \in Backends : \A u \in Ages :
        Len(Select(failures[b], Below(u))) <= Len(Select(streak[b], Below(u)))

BreakerInv == TypeOK /\ NoNewTrafficWhileOpen /\ FailuresInStreak

LEMMA ConstantFacts ==
    /\ Count \in Nat /\ Count # 0 /\ Interval \in Nat /\ TripDuration \in Nat /\ RetryCount \in Nat
    /\ Remaining \subseteq Nat /\ NoFault \notin Nat
BY BreakerAssumption

(***************************************************************************)
(* Windows of ages.                                                        *)
(***************************************************************************)
LEMMA YoungFacts ==
    ASSUME NEW s \in Seq(Ages)
    PROVE  /\ Young(s) \in Seq(Ages) /\ Young(s) \in Seq(Below(Interval))
           /\ Young(s) = Select(s, Below(Interval))
           /\ Append(Young(s), 0) \in Seq(Ages)
           /\ Len(Append(Young(s), 0)) = Len(Select(s, Below(Interval))) + 1
<1>1. Young(s) = Select(s, Below(Interval))
  BY DEF Young, Below
<1>2. Select(s, Below(Interval)) \in Seq(Ages)
  BY SelectType
<1>3. Select(s, Below(Interval)) \in Seq(Below(Interval))
  BY SelectKeeps
<1>4. 0 \in Ages
  BY ConstantFacts DEF Ages
<1>5. Append(Young(s), 0) \in Seq(Ages) /\ Len(Append(Young(s), 0)) = Len(Young(s)) + 1
  BY <1>1, <1>2, <1>4
<1> QED BY <1>1, <1>2, <1>3, <1>5

\* A window with a new failure, seen up to any age.
LEMMA YoungBelow ==
    ASSUME NEW s \in Seq(Ages), NEW u \in Ages
    PROVE  Len(Select(Append(Young(s), 0), Below(u))) =
             IF u = 0 THEN Len(Select(s, Below(u))) ELSE Len(Select(s, Below(u))) + 1
<1>1. /\ Young(s) \in Seq(Ages) /\ Young(s) = Select(s, Below(Interval)) /\ 0 \in Ages
  BY YoungFacts, ConstantFacts DEF Ages
<1>2. Below(u) \subseteq Below(Interval)
  BY ConstantFacts DEF Below, Ages
<1>3. Select(Young(s), Below(u)) = Select(s, Below(u)) /\ Select(s, Below(u)) \in Seq(Ages)
  BY <1>1, <1>2, SelectTwice, SelectType
<1>4. 0 \in Below(u) <=> u # 0
  BY <1>1, ConstantFacts DEF Below, Ages
<1>5. Select(Append(Young(s), 0), Below(u)) =
        IF 0 \in Below(u) THEN Append(Select(s, Below(u)), 0) ELSE Select(s, Below(u))
  BY <1>1, <1>3, SelectAppend
<1>6. Len(Append(Select(s, Below(u)), 0)) = Len(Select(s, Below(u))) + 1
  BY <1>3
<1> QED BY <1>4, <1>5, <1>6

OlderAge(a) == IF a < Interval THEN a + 1 ELSE Interval

LEMMA OlderFacts ==
    ASSUME NEW s \in Seq(Ages)
    PROVE  Older(s) \in Seq(Ages) /\ Older(<<>>) = <<>>
           /\ \A x \in Ages : Older(Append(s, x)) = Append(Older(s), OlderAge(x)) /\ OlderAge(x) \in Ages
<1>1. \A x \in Ages : OlderAge(x) \in Ages
  BY ConstantFacts DEF OlderAge, Ages
<1>2. \A z \in Seq(Ages) : Older(z) \in Seq(Ages) /\ Len(Older(z)) = Len(z)
                             /\ \A i \in 1..Len(z) : Older(z)[i] = OlderAge(z[i])
  <2> SUFFICES ASSUME NEW z \in Seq(Ages)
               PROVE  Older(z) \in Seq(Ages) /\ Len(Older(z)) = Len(z)
                        /\ \A i \in 1..Len(z) : Older(z)[i] = OlderAge(z[i])
    OBVIOUS
  <2>1. Older(z) = [i \in 1..Len(z) |-> OlderAge(z[i])]
    BY DEF Older, OlderAge
  <2>2. \A i \in 1..Len(z) : OlderAge(z[i]) \in Ages
    BY <1>1
  <2> QED BY <2>1, <2>2
<1>3. <<>> \in Seq(Ages) /\ Older(<<>>) = <<>>
  BY DEF Older
<1>4. ASSUME NEW x \in Ages PROVE Older(Append(s, x)) = Append(Older(s), OlderAge(x))
  <2> DEFINE t == Append(s, x)
             v == Append(Older(s), OlderAge(x))
  <2>1. t \in Seq(Ages) /\ Len(t) = Len(s) + 1 /\ t[Len(s) + 1] = x /\ \A i \in 1..Len(s) : t[i] = s[i]
    OBVIOUS
  <2>2. /\ v \in Seq(Ages) /\ Len(v) = Len(s) + 1 /\ v[Len(s) + 1] = OlderAge(x)
        /\ \A i \in 1..Len(s) : v[i] = OlderAge(s[i])
    BY <1>1, <1>2
  <2>3. Older(t) \in Seq(Ages) /\ Len(Older(t)) = Len(t) /\ \A i \in 1..Len(t) : Older(t)[i] = OlderAge(t[i])
    BY <1>2, <2>1
  <2> HIDE DEF t, v
  <2>4. \A i \in 1..(Len(s) + 1) : Older(t)[i] = v[i]
    BY <2>1, <2>2, <2>3
  <2>5. Older(t) = v
    BY <2>1, <2>2, <2>3, <2>4
  <2> QED BY <2>5 DEF t, v
<1> QED BY <1>1, <1>2, <1>3, <1>4

\* A tick makes every failure one older.
LEMMA OlderBelow ==
    ASSUME NEW s \in Seq(Ages), NEW u \in Ages, u # 0
    PROVE  Len(Select(Older(s), Below(u))) = Len(Select(s, Below(u - 1)))
<1> DEFINE P == {z \in Seq(Ages) : Len(Select(Older(z), Below(u))) = Len(Select(z, Below(u - 1)))}
<1>1. <<>> \in P
  <2>1. <<>> \in Seq(Ages)
    OBVIOUS
  <2>2. Older(<<>>) = <<>>
    BY OlderFacts
  <2> QED BY <2>1, <2>2, SelectEmpty
<1>2. ASSUME NEW z \in Seq(Ages), NEW x \in Ages, z \in P PROVE Append(z, x) \in P
  <2>1. /\ Older(z) \in Seq(Ages) /\ OlderAge(x) \in Ages
        /\ Older(Append(z, x)) = Append(Older(z), OlderAge(x)) /\ Append(z, x) \in Seq(Ages)
    BY OlderFacts
  <2>2. OlderAge(x) \in Below(u) <=> x \in Below(u - 1)
    BY ConstantFacts DEF Below, OlderAge, Ages
  <2>3. Select(Append(Older(z), OlderAge(x)), Below(u)) =
          IF OlderAge(x) \in Below(u) THEN Append(Select(Older(z), Below(u)), OlderAge(x))
          ELSE Select(Older(z), Below(u))
    BY <2>1, SelectAppend
  <2>4. Select(Append(z, x), Below(u - 1)) =
          IF x \in Below(u - 1) THEN Append(Select(z, Below(u - 1)), x) ELSE Select(z, Below(u - 1))
    BY SelectAppend
  <2>5. Select(Older(z), Below(u)) \in Seq(Ages) /\ Select(z, Below(u - 1)) \in Seq(Ages)
    BY <2>1, SelectType
  <2>6. /\ Len(Append(Select(Older(z), Below(u)), OlderAge(x))) = Len(Select(Older(z), Below(u))) + 1
        /\ Len(Append(Select(z, Below(u - 1)), x)) = Len(Select(z, Below(u - 1))) + 1
    BY <2>5
  <2>7. Len(Select(Older(z), Below(u))) = Len(Select(z, Below(u - 1)))
    BY <1>2
  <2>8. Len(Select(Older(Append(z, x)), Below(u))) = Len(Select(Append(z, x), Below(u - 1)))
    BY <2>1, <2>2, <2>3, <2>4, <2>6, <2>7
  <2> QED BY <2>1, <2>8
<1>3. Seq(Ages) \subseteq P
  <2> HIDE DEF P
  <2> QED BY <1>1, <1>2, SeqSetInduction
<1> QED BY <1>3

LEMMA NoneBelowZero ==
    ASSUME NEW s \in Seq(Ages)
    PROVE  Len(Select(s, Below(0))) = 0
<1>1. Below(0) = {}
  BY ConstantFacts DEF Below, Ages
<1>2. Select(s, {}) \in Seq({})
  BY SelectKeeps
<1> QED BY <1>1, <1>2

(***************************************************************************)
(* The invariant.                                                          *)
(***************************************************************************)
LEMMA BreakerInit == Init => BreakerInv
<1> SUFFICES ASSUME Init PROVE BreakerInv
  OBVIOUS
<1>1. <<>> \in Seq(Ages)
  OBVIOUS
<1>2. TypeOK
  BY <1>1, ConstantFacts DEF Init, TypeOK, Faultable
<1>3. NoNewTrafficWhileOpen
  BY DEF Init, NoNewTrafficWhileOpen, Open
<1>4. FailuresInStreak
  <2>1. Len(<<>>) <= Len(<<>>)
    OBVIOUS
  <2> QED BY <2>1, SelectEmpty DEF Init, FailuresInStreak
<1> QED BY <1>2, <1>3, <1>4 DEF BreakerInv

\* A step that leaves the breakers alone and takes no request past one.
LEMMA BreakersUntouched ==
    ASSUME BreakerInv, UNCHANGED breaker, TypeOK',
           \A r \in Requests : step'[r] \in {"fault", "sending", "ended"} =>
               step[r] \in {"fault", "sending", "ended"} /\ target'[r] = target[r]
    PROVE  BreakerInv'
<1>1. UNCHANGED <<failures, opened, left, streak, sparing>>
  BY DEF breaker
<1>2. NoNewTrafficWhileOpen'
  BY <1>1 DEF BreakerInv, NoNewTrafficWhileOpen, Open, PastBreaker
<1>3. FailuresInStreak'
  BY <1>1 DEF BreakerInv, FailuresInStreak
<1> QED BY <1>2, <1>3 DEF BreakerInv

LEMMA TickStep ==
    ASSUME BreakerInv, Tick
    PROVE  BreakerInv'
<1>1. /\ failures \in [Backends -> Seq(Ages)] /\ streak \in [Backends -> Seq(Ages)]
      /\ left \in [Backends -> 0..TripDuration]
      /\ UNCHANGED <<opened, faults, step, target, attempt, sparing>>
  BY DEF BreakerInv, TypeOK, Tick
<1>2. /\ failures' = [b \in Backends |-> Older(failures[b])]
      /\ streak' = [b \in Backends |-> Older(streak[b])]
      /\ left' = [b \in Backends |-> IF left[b] > 0 THEN left[b] - 1 ELSE 0]
  BY DEF Tick
<1>3. TypeOK'
  <2>1. \A b \in Backends : Older(failures[b]) \in Seq(Ages) /\ Older(streak[b]) \in Seq(Ages)
    BY <1>1, OlderFacts
  <2>2. failures' \in [Backends -> Seq(Ages)] /\ streak' \in [Backends -> Seq(Ages)]
    BY <1>2, <2>1
  <2>3. left' \in [Backends -> 0..TripDuration]
    BY <1>1, <1>2, ConstantFacts
  <2> QED BY <1>1, <2>2, <2>3 DEF BreakerInv, TypeOK
<1>4. NoNewTrafficWhileOpen'
  <2>1. \A b \in Backends : left'[b] > 0 => left[b] > 0
    BY <1>1, <1>2
  <2> QED BY <1>1, <2>1 DEF BreakerInv, NoNewTrafficWhileOpen, Open, PastBreaker
<1>5. FailuresInStreak'
  <2> SUFFICES ASSUME NEW b \in Backends, NEW u \in Ages
               PROVE  Len(Select(Older(failures[b]), Below(u))) <= Len(Select(Older(streak[b]), Below(u)))
    BY <1>2 DEF FailuresInStreak, Below
  <2>1. failures[b] \in Seq(Ages) /\ streak[b] \in Seq(Ages)
    BY <1>1
  <2>2. CASE u = 0
    BY <2>1, <2>2, OlderFacts, NoneBelowZero
  <2>3. CASE u # 0
    <3>1. u - 1 \in Ages
      BY <2>3, ConstantFacts DEF Ages
    <3>2. Len(Select(failures[b], Below(u - 1))) <= Len(Select(streak[b], Below(u - 1)))
      BY <3>1 DEF BreakerInv, FailuresInStreak
    <3> QED BY <2>1, <2>3, <3>2, OlderBelow
  <2> QED BY <2>2, <2>3
<1> QED BY <1>3, <1>4, <1>5 DEF BreakerInv

LEMMA FaultStep ==
    ASSUME BreakerInv, NEW k \in Faultable, NEW n \in Remaining \cup {NoFault}, SetFault(k, n)
    PROVE  BreakerInv'
<1>1. UNCHANGED <<breaker, step, target, attempt>>
  BY DEF SetFault
<1>2. faults' \in [Faultable -> Nat \cup {NoFault}]
  BY ConstantFacts DEF SetFault, BreakerInv, TypeOK
<1>3. TypeOK'
  BY <1>1, <1>2 DEF BreakerInv, TypeOK, breaker
<1> QED BY <1>1, <1>3, BreakersUntouched

\* What a request does without recording an outcome, once its breaker has
\* answered.
LEMMA QuietStep ==
    ASSUME BreakerInv, NEW r \in Requests,
           \/ \E b \in Backends : Arrive(r, b)
           \/ circuitRefuses(r) \/ takeFault(r) \/ noFault(r) \/ CallEnds(r) \/ Retry(r)
    PROVE  BreakerInv'
<1>1. /\ step \in [Requests -> {"idle", "breaker", "fault", "sending", "ended"}]
      /\ target \in [Requests -> Backends] /\ attempt \in [Requests -> 0..RetryCount]
      /\ faults \in [Faultable -> Nat \cup {NoFault}]
  BY DEF BreakerInv, TypeOK
<1>2. UNCHANGED breaker
  BY DEF Arrive, circuitRefuses, takeFault, noFault, CallEnds, Retry
<1>3. /\ step' \in [Requests -> {"idle", "breaker", "fault", "sending", "ended"}]
      /\ target' \in [Requests -> Backends]
      /\ \A q \in Requests : step'[q] \in {"fault", "sending", "ended"} =>
            step[q] \in {"fault", "sending", "ended"} /\ target'[q] = target[q]
  BY <1>1 DEF Arrive, circuitRefuses, takeFault, noFault, CallEnds, Retry
<1>4. attempt' \in [Requests -> 0..RetryCount]
  BY <1>1, ConstantFacts DEF Arrive, circuitRefuses, takeFault, noFault, CallEnds, Retry
<1>5. faults' \in [Faultable -> Nat \cup {NoFault}]
  <2>1. CASE takeFault(r)
    <3> DEFINE k == FaultKey(r)
    <3>1. k \in Faultable
      BY <1>1 DEF FaultKey, Faultable
    <3>2. /\ faults[k] # NoFault
          /\ faults' = [faults EXCEPT ![k] = IF @ = 0 THEN 0 ELSE IF @ = 1 THEN NoFault ELSE @ - 1]
      BY <2>1 DEF takeFault
    <3> HIDE DEF k
    <3>3. faults[k] \in Nat
      BY <1>1, <3>1, <3>2
    <3> QED BY <1>1, <3>1, <3>2, <3>3
  <2>2. CASE ~ takeFault(r)
    BY <1>1, <2>2 DEF Arrive, circuitRefuses, noFault, CallEnds, Retry
  <2> QED BY <2>1, <2>2
<1>6. TypeOK'
  BY <1>2, <1>3, <1>4, <1>5 DEF BreakerInv, TypeOK, breaker
<1> QED BY <1>2, <1>3, <1>6, BreakersUntouched

LEMMA PassStep ==
    ASSUME BreakerInv, NEW r \in Requests, circuitPasses(r)
    PROVE  BreakerInv'
<1> DEFINE b == target[r]
<1>1. /\ step \in [Requests -> {"idle", "breaker", "fault", "sending", "ended"}] /\ b \in Backends
      /\ failures \in [Backends -> Seq(Ages)] /\ opened \in [Backends -> BOOLEAN]
      /\ streak \in [Backends -> Seq(Ages)]
  BY DEF BreakerInv, TypeOK
<1>2. /\ ~ Open(b) /\ step' = [step EXCEPT ![r] = "fault"]
      /\ opened' = [opened EXCEPT ![b] = FALSE]
      /\ failures' = IF opened[b] THEN [failures EXCEPT ![b] = <<>>] ELSE failures
      /\ UNCHANGED <<left, faults, target, attempt, streak, sparing>>
  BY DEF circuitPasses
<1> HIDE DEF b
<1>3. TypeOK'
  <2>1. <<>> \in Seq(Ages)
    OBVIOUS
  <2>2. failures' \in [Backends -> Seq(Ages)]
    BY <1>1, <1>2, <2>1
  <2>3. opened' \in [Backends -> BOOLEAN] /\ step' \in [Requests -> {"idle", "breaker", "fault", "sending", "ended"}]
    BY <1>1, <1>2
  <2> QED BY <1>2, <2>2, <2>3 DEF BreakerInv, TypeOK
<1>4. NoNewTrafficWhileOpen'
  <2> SUFFICES ASSUME NEW d \in Backends, left[d] > 0
               PROVE  {q \in Requests : target[q] = d /\ step'[q] \in {"fault", "sending", "ended"}} \subseteq sparing[d]
    BY <1>2 DEF NoNewTrafficWhileOpen, Open, PastBreaker
  <2>1. d # target[r]
    BY <1>2 DEF Open, b
  <2>2. \A q \in Requests : target[q] = d => step'[q] = step[q]
    BY <1>1, <1>2, <2>1
  <2> QED BY <2>2 DEF BreakerInv, NoNewTrafficWhileOpen, Open, PastBreaker
<1>5. FailuresInStreak'
  <2> SUFFICES ASSUME NEW d \in Backends, NEW u \in Ages
               PROVE  Len(Select(failures'[d], Below(u))) <= Len(Select(streak[d], Below(u)))
    BY <1>2 DEF FailuresInStreak, Below
  <2>1. failures'[d] = failures[d] \/ failures'[d] = <<>>
    BY <1>1, <1>2
  <2>2. Len(Select(<<>>, Below(u))) = 0
    BY SelectEmpty
  <2>3. Select(streak[d], Below(u)) \in Seq(Ages)
    BY <1>1, SelectType
  <2>4. 0 <= Len(Select(streak[d], Below(u)))
    BY <2>3
  <2> QED BY <2>1, <2>2, <2>4 DEF BreakerInv, FailuresInStreak
<1> QED BY <1>3, <1>4, <1>5 DEF BreakerInv

LEMMA SucceedStep ==
    ASSUME BreakerInv, NEW r \in Requests, Succeed(r)
    PROVE  BreakerInv'
<1> DEFINE b == target[r]
<1>1. /\ step \in [Requests -> {"idle", "breaker", "fault", "sending", "ended"}] /\ b \in Backends
      /\ failures \in [Backends -> Seq(Ages)] /\ opened \in [Backends -> BOOLEAN]
      /\ streak \in [Backends -> Seq(Ages)] /\ left \in [Backends -> 0..TripDuration]
  BY DEF BreakerInv, TypeOK
<1>2. /\ step' = [step EXCEPT ![r] = "idle"] /\ UNCHANGED <<faults, target, attempt, sparing>>
      /\ failures' = [failures EXCEPT ![b] = <<>>] /\ streak' = [streak EXCEPT ![b] = <<>>]
      /\ opened' = [opened EXCEPT ![b] = FALSE] /\ left' = [left EXCEPT ![b] = 0]
  BY DEF Succeed, Returns
<1> HIDE DEF b
<1>3. TypeOK'
  <2>1. <<>> \in Seq(Ages)
    OBVIOUS
  <2>2. failures' \in [Backends -> Seq(Ages)] /\ streak' \in [Backends -> Seq(Ages)]
    BY <1>1, <1>2, <2>1
  <2>3. /\ opened' \in [Backends -> BOOLEAN] /\ step' \in [Requests -> {"idle", "breaker", "fault", "sending", "ended"}]
        /\ left' \in [Backends -> 0..TripDuration]
    BY <1>1, <1>2, ConstantFacts
  <2> QED BY <1>2, <2>2, <2>3 DEF BreakerInv, TypeOK
<1>4. NoNewTrafficWhileOpen'
  <2>1. \A d \in Backends : left'[d] > 0 => left[d] > 0
    BY <1>1, <1>2
  <2>2. \A q \in Requests : step'[q] \in {"fault", "sending", "ended"} => step'[q] = step[q]
    BY <1>1, <1>2
  <2> QED BY <1>2, <2>1, <2>2 DEF BreakerInv, NoNewTrafficWhileOpen, Open, PastBreaker
<1>5. FailuresInStreak'
  <2> SUFFICES ASSUME NEW d \in Backends, NEW u \in Ages
               PROVE  Len(Select(failures'[d], Below(u))) <= Len(Select(streak'[d], Below(u)))
    BY DEF FailuresInStreak, Below
  <2>1. CASE d = b
    <3>1. failures'[d] = <<>> /\ streak'[d] = <<>> /\ Len(<<>>) <= Len(<<>>)
      BY <1>1, <1>2, <2>1
    <3> QED BY <3>1, SelectEmpty
  <2>2. CASE d # b
    <3>1. failures'[d] = failures[d] /\ streak'[d] = streak[d]
      BY <1>1, <1>2, <2>2
    <3> QED BY <3>1 DEF BreakerInv, FailuresInStreak
  <2> QED BY <2>1, <2>2
<1> QED BY <1>3, <1>4, <1>5 DEF BreakerInv

\* What recording a failure does to its breaker.
LEMMA FailFacts ==
    ASSUME BreakerInv, NEW r \in Requests, Fail(r)
    PROVE  LET b == target[r]
           IN  /\ b \in Backends
               /\ failures' = [failures EXCEPT ![b] = Append(Young(failures[b]), 0)]
               /\ streak' = [streak EXCEPT ![b] = Append(Young(streak[b]), 0)]
               /\ \A d \in Backends : left'[d] > left[d] => d = b /\ Len(Append(Young(failures[b]), 0)) >= Count
BY ConstantFacts DEF Fail, BreakerInv, TypeOK

LEMMA FailStep ==
    ASSUME BreakerInv, NEW r \in Requests, Fail(r)
    PROVE  BreakerInv'
<1> DEFINE b == target[r]
           recent == Append(Young(failures[b]), 0)
           trips == Len(recent) >= Count
<1>1. /\ step \in [Requests -> {"idle", "breaker", "fault", "sending", "ended"}] /\ b \in Backends
      /\ failures \in [Backends -> Seq(Ages)] /\ opened \in [Backends -> BOOLEAN]
      /\ streak \in [Backends -> Seq(Ages)] /\ left \in [Backends -> 0..TripDuration]
      /\ sparing \in [Backends -> SUBSET Requests]
  BY DEF BreakerInv, TypeOK
<1>2. /\ step' = [step EXCEPT ![r] = "idle"] /\ UNCHANGED <<faults, target, attempt>>
      /\ failures' = [failures EXCEPT ![b] = recent]
      /\ streak' = [streak EXCEPT ![b] = Append(Young(streak[b]), 0)]
      /\ opened' = [opened EXCEPT ![b] = opened[b] \/ trips]
      /\ left' = IF trips THEN [left EXCEPT ![b] = TripDuration] ELSE left
      /\ sparing' = IF trips /\ ~ Open(b) THEN [sparing EXCEPT ![b] = PastBreaker(b) \ {r}] ELSE sparing
  BY DEF Fail, Returns
<1>3. /\ failures[b] \in Seq(Ages) /\ streak[b] \in Seq(Ages)
      /\ recent \in Seq(Ages) /\ Append(Young(streak[b]), 0) \in Seq(Ages)
  BY <1>1, YoungFacts
<1>4. PastBreaker(b) \subseteq Requests
  BY DEF PastBreaker
<1> HIDE DEF trips
<1>5. TypeOK'
  <2> HIDE DEF recent, b
  <2>1. failures' \in [Backends -> Seq(Ages)] /\ streak' \in [Backends -> Seq(Ages)]
    BY <1>1, <1>2, <1>3
  <2>2. opened' \in [Backends -> BOOLEAN] /\ step' \in [Requests -> {"idle", "breaker", "fault", "sending", "ended"}]
    <3>1. (opened[b] \/ trips) \in BOOLEAN
      OBVIOUS
    <3> QED BY <1>1, <1>2, <3>1
  <2>3. left' \in [Backends -> 0..TripDuration]
    BY <1>1, <1>2, ConstantFacts
  <2>4. sparing' \in [Backends -> SUBSET Requests]
    BY <1>1, <1>2, <1>4
  <2> QED BY <1>2, <2>1, <2>2, <2>3, <2>4 DEF BreakerInv, TypeOK
<1>6. NoNewTrafficWhileOpen'
  <2> HIDE DEF recent
  <2> SUFFICES ASSUME NEW d \in Backends, left'[d] > 0
               PROVE  {q \in Requests : target[q] = d /\ step'[q] \in {"fault", "sending", "ended"}} \subseteq sparing'[d]
    BY <1>2 DEF NoNewTrafficWhileOpen, Open, PastBreaker
  <2>1. \A q \in Requests : step'[q] \in {"fault", "sending", "ended"} => q # r /\ step'[q] = step[q]
    BY <1>1, <1>2
  <2>2. CASE d = b /\ trips /\ ~ Open(b)
    <3>1. sparing'[d] = PastBreaker(b) \ {r}
      BY <1>1, <1>2, <2>2
    <3> QED BY <2>1, <2>2, <3>1 DEF PastBreaker
  <2>3. CASE ~ (d = b /\ trips /\ ~ Open(b))
    <3>1. sparing'[d] = sparing[d] /\ left[d] > 0
      BY <1>1, <1>2, <2>3 DEF Open
    <3> QED BY <2>1, <3>1 DEF BreakerInv, NoNewTrafficWhileOpen, Open, PastBreaker
  <2> QED BY <2>2, <2>3
<1>7. FailuresInStreak'
  <2> SUFFICES ASSUME NEW d \in Backends, NEW u \in Ages
               PROVE  Len(Select(failures'[d], Below(u))) <= Len(Select(streak'[d], Below(u)))
    BY DEF FailuresInStreak, Below
  <2>1. /\ Len(Select(failures[d], Below(u))) <= Len(Select(streak[d], Below(u)))
        /\ Select(failures[d], Below(u)) \in Seq(Ages) /\ Select(streak[d], Below(u)) \in Seq(Ages)
    BY <1>1, SelectType DEF BreakerInv, FailuresInStreak
  <2>2. CASE d = b
    <3>1. failures'[d] = recent /\ streak'[d] = Append(Young(streak[b]), 0)
      BY <1>1, <1>2, <2>2
    <3>2. Len(Select(recent, Below(u))) =
            IF u = 0 THEN Len(Select(failures[b], Below(u))) ELSE Len(Select(failures[b], Below(u))) + 1
      BY <1>3, YoungBelow
    <3>3. Len(Select(Append(Young(streak[b]), 0), Below(u))) =
            IF u = 0 THEN Len(Select(streak[b], Below(u))) ELSE Len(Select(streak[b], Below(u))) + 1
      BY <1>3, YoungBelow
    <3>4. Len(Select(failures[d], Below(u))) \in Nat /\ Len(Select(streak[d], Below(u))) \in Nat
      BY <2>1
    <3> HIDE DEF recent, b
    <3> QED BY <2>1, <2>2, <3>1, <3>2, <3>3, <3>4
  <2>3. CASE d # b
    <3>1. failures'[d] = failures[d] /\ streak'[d] = streak[d]
      BY <1>1, <1>2, <2>3
    <3> QED BY <2>1, <3>1
  <2> QED BY <2>2, <2>3
<1> QED BY <1>5, <1>6, <1>7 DEF BreakerInv

LEMMA BreakerStep == BreakerInv /\ [Next]_vars => BreakerInv'
<1> SUFFICES ASSUME BreakerInv, [Next]_vars PROVE BreakerInv'
  OBVIOUS
<1>1. CASE Tick
  BY <1>1, TickStep
<1>2. CASE \E k \in Faultable : \E n \in Remaining \cup {NoFault} : SetFault(k, n)
  BY <1>2, FaultStep
<1>3. CASE \E r \in Requests : Request(r)
  BY <1>3, QuietStep, PassStep, SucceedStep, FailStep DEF Request
<1>4. CASE UNCHANGED vars
  <2>1. UNCHANGED <<breaker, faults, step, target, attempt>>
    BY <1>4 DEF vars, breaker
  <2>2. TypeOK'
    BY <2>1 DEF BreakerInv, TypeOK, breaker
  <2> QED BY <2>1, <2>2, BreakersUntouched
<1> QED BY <1>1, <1>2, <1>3, <1>4 DEF Next

LEMMA BreakerInvariant == Spec => []BreakerInv
BY BreakerInit, BreakerStep, PTL DEF Spec

(***************************************************************************)
(* The theorems.                                                           *)
(***************************************************************************)
\* Every variable keeps its type: ages stay within the interval, an injected
\* fault's countdown never goes below zero, no request exceeds its retries.
THEOREM TypeCorrect == Spec => []TypeOK
<1>1. BreakerInv => TypeOK
  BY DEF BreakerInv
<1> QED BY <1>1, BreakerInvariant, PTL

\* An open breaker lets nobody in, for any number of requests, retries and
\* failures that trip it again: whoever calls the backend was past the breaker
\* when it tripped.
THEOREM BreakerHolds == Spec => []NoNewTrafficWhileOpen
<1>1. BreakerInv => NoNewTrafficWhileOpen
  BY DEF BreakerInv
<1> QED BY <1>1, BreakerInvariant, PTL

\* recordCircuit trips a breaker only for Count failures within the interval
\* that no success came between.
THEOREM TripsNeedFailures == Spec => TripNeedsFailures
<1> DEFINE Enough ==
      \A b \in Backends :
         (left'[b] > left[b]) =>
             Cardinality({i \in DOMAIN streak'[b] :
                             streak'[b][i] < Interval \/ i = Len(streak'[b])}) >= Count
<1>1. ASSUME BreakerInv, [Next]_vars PROVE [Enough]_vars
  <2> SUFFICES ASSUME NEW b \in Backends, left'[b] > left[b]
               PROVE  Cardinality({i \in DOMAIN streak'[b] :
                                     streak'[b][i] < Interval \/ i = Len(streak'[b])}) >= Count
    OBVIOUS
  <2>0. left \in [Backends -> 0..TripDuration] /\ target \in [Requests -> Backends]
        /\ failures[b] \in Seq(Ages) /\ streak \in [Backends -> Seq(Ages)]
    BY <1>1 DEF BreakerInv, TypeOK
  <2>1. PICK r \in Requests : Fail(r)
    <3>1. CASE Tick
      BY <2>0, <3>1 DEF Tick
    <3>2. CASE \E k \in Faultable : \E n \in Remaining \cup {NoFault} : SetFault(k, n)
      BY <2>0, <3>2 DEF SetFault, breaker
    <3>3. ASSUME NEW r \in Requests,
                 \/ \E d \in Backends : Arrive(r, d)
                 \/ circuitRefuses(r) \/ circuitPasses(r) \/ takeFault(r) \/ noFault(r) \/ CallEnds(r) \/ Retry(r)
          PROVE  FALSE
      BY <2>0, <3>3 DEF Arrive, circuitRefuses, circuitPasses, takeFault, noFault, CallEnds, Retry, breaker
    <3>4. ASSUME NEW r \in Requests, Succeed(r) PROVE FALSE
      BY <2>0, <3>4 DEF Succeed
    <3>5. CASE UNCHANGED vars
      BY <2>0, <3>5 DEF vars
    <3> QED BY <1>1, <3>1, <3>2, <3>3, <3>4, <3>5 DEF Next, Request
  <2> DEFINE s == Append(Young(streak[b]), 0)
  <2>2. streak'[b] = s /\ Len(Append(Young(failures[b]), 0)) >= Count
    <3>1. LET d == target[r]
          IN  /\ d \in Backends
              /\ streak' = [streak EXCEPT ![d] = Append(Young(streak[d]), 0)]
              /\ \A c \in Backends : left'[c] > left[c] =>
                    c = d /\ Len(Append(Young(failures[d]), 0)) >= Count
      BY <1>1, <2>1, FailFacts
    <3> QED BY <2>0, <3>1
  <2>3. /\ Len(Append(Young(failures[b]), 0)) = Len(Select(failures[b], Below(Interval))) + 1
        /\ Len(s) = Len(Select(streak[b], Below(Interval))) + 1
        /\ Young(streak[b]) \in Seq(Below(Interval)) /\ s \in Seq(Ages)
    BY <2>0, YoungFacts
  <2>4. Len(Select(failures[b], Below(Interval))) <= Len(Select(streak[b], Below(Interval)))
    <3>1. Interval \in Ages
      BY ConstantFacts DEF Ages
    <3> QED BY <1>1, <3>1 DEF BreakerInv, FailuresInStreak
  <2>5. Len(s) >= Count
    <3>1. Select(failures[b], Below(Interval)) \in Seq(Ages) /\ Select(streak[b], Below(Interval)) \in Seq(Ages)
      BY <2>0, SelectType
    <3>2. Len(Select(failures[b], Below(Interval))) \in Nat /\ Len(Select(streak[b], Below(Interval))) \in Nat
      BY <3>1
    <3> QED BY <2>2, <2>3, <2>4, <3>2, ConstantFacts
  <2>6. {i \in DOMAIN s : s[i] < Interval \/ i = Len(s)} = 1..Len(s)
    <3>1. DOMAIN s = 1..Len(s) /\ Len(s) = Len(Young(streak[b])) + 1
      BY <2>3
    <3>2. \A i \in 1..Len(Young(streak[b])) : s[i] \in Below(Interval)
      BY <2>3
    <3>3. \A i \in 1..Len(s) : i # Len(s) => i \in 1..Len(Young(streak[b]))
      BY <2>3, <3>1
    <3> QED BY <3>1, <3>2, <3>3 DEF Below
  <2>7. Cardinality(1..Len(s)) = Len(s)
    <3>1. Len(s) \in Nat
      BY <2>3
    <3> QED BY <3>1, FS_Interval
  <2> QED BY <2>2, <2>5, <2>6, <2>7
<1> QED BY <1>1, BreakerInvariant, PTL DEF Spec, TripNeedsFailures
=============================================================================

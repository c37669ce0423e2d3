------------------------- MODULE CallLimits_proofs -------------------------
(***************************************************************************)
(* Proofs about the call and bandwidth limits, for any limits that compile *)
(* and any number of requests, sizes and delays.                           *)
(*                                                                         *)
(* The budgets are stated over the history, the limiter decides by what it *)
(* keeps.  StampsAreCalls and VolumesAreBytes relate the two: seen at any  *)
(* time from now on, a counter weighs what the history says was counted in *)
(* it, however its window was trimmed meanwhile.  A period that ends later *)
(* than now is then bounded by the limiter's own comparison, one that has  *)
(* ended is past changing.                                                 *)
(***************************************************************************)
EXTENDS CallLimits, Windows_proofs

\* The entries of a log that a counter still counts at time t.
Entries(log, c, t) == {e \in log : e.counter = c /\ e.at \in FreshAt(t)}
FreshVolumes(t) == [at : FreshAt(t), bytes : Nat]

\* The logs are of the past, each request is in each of them at most once,
\* and a limit without the budget has none.
Logs ==
    /\ IsFiniteSet(counted) /\ \A e \in counted : e.at <= now
    /\ IsFiniteSet(carried) /\ \A e \in carried : e.at <= now
    /\ limit.calls = 0 => counted = {}
    /\ ~ limit.deferred =>
          /\ \A r \in Requests : step[r] \notin {"settleCalls", "settleBytes"}
          /\ \A e \in counted : step[e.request] \notin {"new", "calls"}
          /\ \A e \in carried : step[e.request] \notin {"new", "calls", "bandwidth"}

\* Where refused calls leave nothing, a counter holds what was counted, as far
\* as that will still matter now or later.
StampsAreCalls ==
    (limit.calls > 0 /\ ~ limit.deferred) =>
        \A c \in Time, t \in Nat : t >= now =>
            Len(Select(stamps[c], FreshAt(t))) = CallsIn(Entries(counted, c, t))

VolumesAreBytes ==
    (limit.bandwidth > 0 /\ ~ limit.deferred) =>
        \A c \in Time, t \in Nat : t >= now =>
            Total(Select(volumes[c], FreshVolumes(t))) = BytesIn(Entries(carried, c, t))

\* Runtime.rateLimit adds an increment only to a counter that is below its
\* limit, so that a counter holds less than the limit and one increment.
CounterBounded ==
    limit.calls > 0 =>
        \A c \in Time : \E n \in limit.increments : Len(stamps[c]) < limit.calls + n

CallsInv == CounterBounded /\ CallsPerPeriod /\ StampsAreCalls
BytesInv == BytesPerPeriod /\ VolumesAreBytes

LimitInv == TypeOK /\ Logs /\ CallsInv /\ BytesInv

(***************************************************************************)
(* The limit of a behaviour.                                               *)
(***************************************************************************)
LEMMA LimitFacts ==
    ASSUME limit \in Limits
    PROVE  /\ limit.calls \in Nat /\ limit.bandwidth \in Nat /\ limit.period \in Nat
           /\ limit.fixed \in BOOLEAN /\ limit.deferred \in BOOLEAN
           /\ limit.increments \subseteq Nat /\ limit.increments # {}
           /\ EntryIncrement \in Nat
           /\ limit.deferred => EntryIncrement = 0
           /\ ~ limit.deferred => EntryIncrement \in limit.increments
<1>1. limit \in Limit /\ compileLimit(limit) /\ limit.increments # {}
  BY LimitAssumption
<1>2. (CHOOSE n \in limit.increments : TRUE) \in limit.increments
  BY <1>1
<1>3. limit.increments \subseteq Nat
  BY <1>1 DEF Limit
<1> QED BY <1>1, <1>2, <1>3 DEF Limit, EntryIncrement

LEMMA TimeFacts ==
    /\ MaxTime \in Nat /\ Time = 0..MaxTime /\ 0 \in Time /\ Time \subseteq Nat
BY LimitAssumption DEF Time

LEMMA Quotient ==
    ASSUME NEW a \in Nat, NEW p \in Nat, p > 0
    PROVE  a \div p \in 0..a
OBVIOUS

LEMMA WindowIsCounter ==
    ASSUME TypeOK, NEW r \in Requests
    PROVE  limitWindow(r) \in Time
<1>1. arrived[r] \in Time /\ limit.period \in Nat
  BY LimitFacts DEF TypeOK
<1>2. limit.period > 0 => arrived[r] \div limit.period \in 0..arrived[r]
  BY <1>1, TimeFacts, Quotient
<1> QED BY <1>1, <1>2, TimeFacts DEF limitWindow

LEMMA SizeFacts ==
    ASSUME TypeOK, NEW r \in Requests
    PROVE  size[r] \in Nat
<1>1. Sizes \subseteq Nat
  BY LimitAssumption
<1>2. size[r] = 0 \/ size[r] \in Sizes
  BY DEF TypeOK
<1>3. \A n \in Sizes : n \in Nat
  BY <1>1
<1> QED BY <1>2, <1>3

LEMMA FreshFacts ==
    ASSUME limit \in Limits, NEW t \in Nat, NEW u \in Nat, t <= u
    PROVE  /\ FreshAt(u) \subseteq FreshAt(t) /\ FreshAt(t) \subseteq Nat
           /\ FreshVolumes(u) \subseteq FreshVolumes(t)
<1>1. limit.period \in Nat
  BY LimitFacts
<1>2. FreshAt(u) \subseteq FreshAt(t) /\ FreshAt(t) \subseteq Nat
  BY <1>1 DEF FreshAt
<1> QED BY <1>2 DEF FreshVolumes

\* What a period that ends now or later, or is infinite, has of a log.
LEMMA PeriodEntries ==
    ASSUME limit \in Limits, NEW log, \A e \in log : e.at \in Nat /\ e.at <= now, now \in Nat,
           NEW t \in Nat, NEW c, t >= now \/ limit.period = 0
    PROVE  {e \in log : e.counter = c /\ InPeriod(e, t)} =
             Entries(log, c, IF t >= now THEN t ELSE now)
<1>1. limit.period \in Nat
  BY LimitFacts
<1>2. ASSUME NEW e \in log
      PROVE  InPeriod(e, t) <=> e.at \in FreshAt(IF t >= now THEN t ELSE now)
  <2>1. e.at \in Nat /\ e.at <= now
    OBVIOUS
  <2> QED BY <1>1, <2>1 DEF InPeriod, FreshAt
<1> QED BY <1>2 DEF Entries

(***************************************************************************)
(* Adding up.                                                              *)
(***************************************************************************)
LEMMA CallsInFacts ==
    ASSUME NEW A, IsFiniteSet(A), \A e \in A : e.calls \in Nat
    PROVE  /\ CallsIn(A) \in Nat
           /\ \A e \in A : CallsIn(A) = CallsIn(A \ {e}) + e.calls
<1> DEFINE w == [e \in A |-> e.calls]
<1>1. w \in [A -> Nat]
  OBVIOUS
<1>2. CallsIn(A) \in Nat
  BY <1>1, SumType DEF CallsIn
<1>3. ASSUME NEW e \in A PROVE CallsIn(A) = CallsIn(A \ {e}) + e.calls
  <2> DEFINE v == [x \in A \ {e} |-> x.calls]
  <2>1. v = [y \in A \ {e} |-> w[y]] /\ w[e] = e.calls
    OBVIOUS
  <2>2. SumFunction(w) = SumFunction(v) + w[e]
    <3> HIDE DEF v, w
    <3> QED BY <1>1, <2>1, SumWithout
  <2> QED BY <2>1, <2>2 DEF CallsIn
<1> QED BY <1>2, <1>3

LEMMA BytesInFacts ==
    ASSUME NEW A, IsFiniteSet(A), \A e \in A : e.bytes \in Nat
    PROVE  /\ BytesIn(A) \in Nat /\ (A = {} => BytesIn(A) = 0)
           /\ \A e \in A : BytesIn(A) = BytesIn(A \ {e}) + e.bytes
<1> DEFINE w == [e \in A |-> e.bytes]
<1>1. w \in [A -> Nat]
  OBVIOUS
<1>2. BytesIn(A) \in Nat /\ (A = {} => BytesIn(A) = 0)
  BY <1>1, SumType DEF BytesIn
<1>3. ASSUME NEW e \in A PROVE BytesIn(A) = BytesIn(A \ {e}) + e.bytes
  <2> DEFINE v == [x \in A \ {e} |-> x.bytes]
  <2>1. v = [y \in A \ {e} |-> w[y]] /\ w[e] = e.bytes
    OBVIOUS
  <2>2. SumFunction(w) = SumFunction(v) + w[e]
    <3> HIDE DEF v, w
    <3> QED BY <1>1, <2>1, SumWithout
  <2> QED BY <2>1, <2>2 DEF BytesIn
<1> QED BY <1>2, <1>3

LEMMA TotalFacts ==
    ASSUME NEW s \in Seq(Volume)
    PROVE  /\ Total(s) \in Nat /\ Total(<<>>) = 0
           /\ \A v \in Volume : Total(Append(s, v)) = Total(s) + v.bytes
<1>1. ASSUME NEW z \in Seq(Volume)
      PROVE  [i \in DOMAIN z |-> z[i].bytes] \in [1..Len(z) -> Nat] /\ IsFiniteSet(1..Len(z))
  <2>1. DOMAIN z = 1..Len(z) /\ \A i \in 1..Len(z) : z[i] \in Volume
    OBVIOUS
  <2>2. \A i \in 1..Len(z) : z[i].bytes \in Nat
    BY <2>1 DEF Volume
  <2>3. Len(z) \in Int
    OBVIOUS
  <2> QED BY <2>1, <2>2, <2>3, FS_Interval
<1>2. Total(s) \in Nat
  BY <1>1, SumType DEF Total
<1>3. Total(<<>>) = 0
  <2>1. <<>> \in Seq(Volume) /\ 1..Len(<<>>) = {}
    OBVIOUS
  <2> QED BY <1>1, <2>1, SumType DEF Total
<1>4. ASSUME NEW v \in Volume PROVE Total(Append(s, v)) = Total(s) + v.bytes
  <2> DEFINE z == Append(s, v)
             n == Len(s) + 1
             w == [i \in DOMAIN z |-> z[i].bytes]
             u == [i \in DOMAIN s |-> s[i].bytes]
  <2>1. z \in Seq(Volume) /\ Len(z) = n /\ z[n] = v /\ n \in Nat /\ n > 0 /\ DOMAIN z = 1..n
    OBVIOUS
  <2>2. DOMAIN s = (1..n) \ {n} /\ n \in 1..n /\ 1..Len(s) = (1..n) \ {n}
    <3>1. DOMAIN s = 1..Len(s) /\ Len(s) \in Nat
      OBVIOUS
    <3>2. 1..Len(s) = (1..(Len(s) + 1)) \ {Len(s) + 1}
      BY <3>1
    <3> QED BY <2>1, <3>1, <3>2
  <2>3. w \in [1..n -> Nat] /\ IsFiniteSet(1..n) /\ u \in [(1..n) \ {n} -> Nat]
    <3>1. w \in [1..Len(z) -> Nat] /\ IsFiniteSet(1..Len(z))
      BY <1>1, <2>1
    <3>2. u \in [1..Len(s) -> Nat]
      BY <1>1
    <3> HIDE DEF w, u, z, n
    <3> QED BY <2>1, <2>2, <3>1, <3>2
  <2>4. (\A i \in (1..n) \ {n} : u[i] = w[i]) /\ w[n] = v.bytes
    BY <2>1, <2>2
  <2>5. Total(z) = SumFunction(w) /\ Total(s) = SumFunction(u)
    BY DEF Total
  <2> HIDE DEF w, u, n, z
  <2>6. SumFunction(w) = SumFunction(u) + w[n]
    <3>1. u = [i \in (1..n) \ {n} |-> w[i]]
      BY <2>3, <2>4
    <3>2. SumFunction(w) = SumFunction([i \in (1..n) \ {n} |-> w[i]]) + w[n]
      BY <2>2, <2>3, SumWithout
    <3> QED BY <3>1, <3>2
  <2> QED BY <2>4, <2>5, <2>6 DEF z
<1> QED BY <1>2, <1>3, <1>4

\* A narrower window has no more bytes in it.
LEMMA TotalNarrower ==
    ASSUME NEW s \in Seq(Volume), NEW keep
    PROVE  Total(Select(s, keep)) <= Total(s)
<1> DEFINE P == {z \in Seq(Volume) : Total(Select(z, keep)) <= Total(z)}
<1>1. <<>> \in P
  <2>1. <<>> \in Seq(Volume)
    OBVIOUS
  <2>2. Total(<<>>) = 0
    BY <2>1, TotalFacts
  <2> QED BY <2>1, <2>2, SelectEmpty
<1>2. ASSUME NEW z \in Seq(Volume), NEW v \in Volume, z \in P PROVE Append(z, v) \in P
  <2>1. Select(z, keep) \in Seq(Volume) /\ Append(z, v) \in Seq(Volume)
    BY SelectType
  <2>2. /\ Total(Append(z, v)) = Total(z) + v.bytes /\ Total(z) \in Nat
        /\ Total(Append(Select(z, keep), v)) = Total(Select(z, keep)) + v.bytes
        /\ Total(Select(z, keep)) \in Nat /\ v.bytes \in Nat
    BY <2>1, TotalFacts DEF Volume
  <2>3. Select(Append(z, v), keep) = IF v \in keep THEN Append(Select(z, keep), v) ELSE Select(z, keep)
    BY SelectAppend
  <2>4. Total(Select(z, keep)) <= Total(z)
    BY <1>2
  <2>5. Total(Select(Append(z, v), keep)) <= Total(Append(z, v))
    BY <2>2, <2>3, <2>4
  <2> QED BY <2>1, <2>5
<1>3. Seq(Volume) \subseteq P
  <2> HIDE DEF P
  <2> QED BY <1>1, <1>2, SeqSetInduction
<1> QED BY <1>3

(***************************************************************************)
(* Steps that leave a budget alone.                                        *)
(***************************************************************************)
LEMMA CallsFrame ==
    ASSUME CallsInv, UNCHANGED <<limit, stamps, counted>>, now \in Nat, now' \in Nat, now' >= now
    PROVE  CallsInv'
<1>1. CounterBounded'
  BY DEF CallsInv, CounterBounded
<1>2. CallsPerPeriod'
  BY DEF CallsInv, CallsPerPeriod, InPeriod, EntryIncrement
<1>3. StampsAreCalls'
  <2>1. \A t \in Nat : t >= now' => t >= now
    OBVIOUS
  <2>2. \A t : FreshAt(t)' = FreshAt(t)
    BY DEF FreshAt
  <2>3. \A d, t : Entries(counted, d, t)' = Entries(counted, d, t)
    BY <2>2 DEF Entries
  <2> QED BY <2>1, <2>2, <2>3 DEF CallsInv, StampsAreCalls
<1> QED BY <1>1, <1>2, <1>3 DEF CallsInv

LEMMA BytesFrame ==
    ASSUME BytesInv, UNCHANGED <<limit, volumes, carried>>, now \in Nat, now' \in Nat, now' >= now
    PROVE  BytesInv'
<1>1. BytesPerPeriod'
  BY DEF BytesInv, BytesPerPeriod, InPeriod
<1>2. VolumesAreBytes'
  <2>1. \A t \in Nat : t >= now' => t >= now
    OBVIOUS
  <2> QED BY <2>1 DEF BytesInv, VolumesAreBytes, FreshAt, FreshVolumes, Entries
<1> QED BY <1>1, <1>2 DEF BytesInv

(***************************************************************************)
(* The calls budget.                                                       *)
(***************************************************************************)
\* What Runtime.rateLimit leaves in its counter.
LEMMA RateLimitFacts ==
    ASSUME TypeOK, NEW c \in Time, NEW n \in Nat, rateLimit(c, n)
    PROVE  /\ KeptCalls(c) \in Seq(Time) /\ Len(KeptCalls(c)) \in Nat /\ stamps'[c] \in Seq(Time)
           /\ stamps' \in [Time -> Seq(Time)] /\ \A d \in Time \ {c} : stamps'[d] = stamps[d]
           /\ CallsExceeded(c) => stamps'[c] = KeptCalls(c)
           /\ ~ CallsExceeded(c) => stamps'[c] = KeptCalls(c) \o [i \in 1..n |-> now]
           /\ ~ CallsExceeded(c) => Len(stamps'[c]) = Len(KeptCalls(c)) + n
<1>1. stamps \in [Time -> Seq(Time)] /\ now \in Time
  BY DEF TypeOK
<1>2. KeptCalls(c) \in Seq(Time)
  <2>1. stamps[c] \in Seq(Time)
    BY <1>1
  <2> QED BY <2>1, SelectType DEF KeptCalls
<1> DEFINE more == KeptCalls(c) \o [i \in 1..n |-> now]
<1>3. more \in Seq(Time) /\ Len(more) = Len(KeptCalls(c)) + n /\ Len(KeptCalls(c)) \in Nat
  BY <1>1, <1>2
<1>4. stamps' = [stamps EXCEPT ![c] = IF CallsExceeded(c) THEN KeptCalls(c) ELSE more]
  BY DEF rateLimit
<1> HIDE DEF more
<1>5. /\ stamps' \in [Time -> Seq(Time)] /\ \A d \in Time \ {c} : stamps'[d] = stamps[d]
      /\ stamps'[c] = IF CallsExceeded(c) THEN KeptCalls(c) ELSE more
  BY <1>1, <1>2, <1>3, <1>4
<1> QED BY <1>2, <1>3, <1>5 DEF more

LEMMA CounterStep ==
    ASSUME TypeOK, CounterBounded, NEW c \in Time, NEW n \in limit.increments \cup {0}, n \in Nat,
           rateLimit(c, n), UNCHANGED limit
    PROVE  CounterBounded'
<1> SUFFICES ASSUME limit.calls > 0, NEW d \in Time
             PROVE  \E m \in limit.increments : Len(stamps'[d]) < limit.calls + m
  BY DEF CounterBounded
<1>1. limit.calls \in Nat /\ limit.increments \subseteq Nat /\ limit.increments # {}
  BY LimitFacts DEF TypeOK
<1>2. CASE d # c
  BY <1>2, RateLimitFacts DEF CounterBounded
<1>3. CASE d = c /\ CallsExceeded(c)
  <2>1. PICK m \in limit.increments : Len(stamps[c]) < limit.calls + m
    BY DEF CounterBounded
  <2>2. stamps[c] \in Seq(Time)
    BY DEF TypeOK
  <2>3. Len(KeptCalls(c)) <= Len(stamps[c]) /\ Len(stamps[c]) \in Nat
    BY <2>2, SelectType DEF KeptCalls
  <2>4. stamps'[c] = KeptCalls(c) /\ Len(KeptCalls(c)) \in Nat
    BY <1>3, RateLimitFacts
  <2> QED BY <1>1, <1>3, <2>1, <2>3, <2>4
<1>4. CASE d = c /\ ~ CallsExceeded(c)
  <2>1. Len(stamps'[c]) = Len(KeptCalls(c)) + n /\ Len(KeptCalls(c)) \in Nat
    BY <1>4, RateLimitFacts
  <2>2. Len(KeptCalls(c)) < limit.calls
    BY <1>1, <1>4, <2>1 DEF CallsExceeded
  <2>3. CASE n \in limit.increments
    BY <1>1, <1>4, <2>1, <2>2, <2>3
  <2>4. CASE n = 0
    <3>1. PICK m \in limit.increments : TRUE
      BY <1>1
    <3> QED BY <1>1, <1>4, <2>1, <2>2, <2>4, <3>1
  <2> QED BY <2>3, <2>4
<1> QED BY <1>2, <1>3, <1>4

\* The entry that CallsPass logs.
CallOf(r) == [request |-> r, at |-> now, counter |-> limitWindow(r), calls |-> EntryIncrement]

LEMMA EntriesFinite ==
    ASSUME NEW log, IsFiniteSet(log), NEW c, NEW t
    PROVE  IsFiniteSet(Entries(log, c, t)) /\ Entries(log, c, t) \subseteq log
<1>1. Entries(log, c, t) \in SUBSET log
  BY DEF Entries
<1> QED BY <1>1, FS_Subset

LEMMA CallsGain ==
    ASSUME NEW A, IsFiniteSet(A), \A x \in A : x.calls \in Nat, NEW e, e \notin A, e.calls \in Nat
    PROVE  CallsIn(A \cup {e}) = CallsIn(A) + e.calls
<1> DEFINE B == A \cup {e}
<1>1. IsFiniteSet(B) /\ e \in B /\ B \ {e} = A /\ \A x \in B : x.calls \in Nat
  BY FS_AddElement
<1> HIDE DEF B
<1>2. CallsIn(B) = CallsIn(B \ {e}) + e.calls
  BY <1>1, CallsInFacts
<1> QED BY <1>1, <1>2 DEF B

LEMMA BytesGain ==
    ASSUME NEW A, IsFiniteSet(A), \A x \in A : x.bytes \in Nat, NEW e, e \notin A, e.bytes \in Nat
    PROVE  BytesIn(A \cup {e}) = BytesIn(A) + e.bytes
<1> DEFINE B == A \cup {e}
<1>1. IsFiniteSet(B) /\ e \in B /\ B \ {e} = A /\ \A x \in B : x.bytes \in Nat
  BY FS_AddElement
<1> HIDE DEF B
<1>2. BytesIn(B) = BytesIn(B \ {e}) + e.bytes
  BY <1>1, BytesInFacts
<1> QED BY <1>1, <1>2 DEF B

\* A request meets the calls budget on its way in, and is counted or refused.
LEMMA CallsStep ==
    ASSUME TypeOK, Logs, CallsInv, NEW r \in Requests, step[r] = "calls", limit.calls > 0,
           UNCHANGED <<limit, now>>, rateLimit(limitWindow(r), EntryIncrement),
           \/ ~ CallsExceeded(limitWindow(r)) /\ LogCalls(r, EntryIncrement)
           \/ CallsExceeded(limitWindow(r)) /\ counted' = counted
    PROVE  CallsInv'
<1> DEFINE c == limitWindow(r)
           n == EntryIncrement
           e == CallOf(r)
<1>1. /\ c \in Time /\ now \in Time /\ now \in Nat /\ stamps \in [Time -> Seq(Time)] /\ limit \in Limits
      /\ counted \subseteq CallEntry /\ Time \subseteq Nat
  BY WindowIsCounter, TimeFacts DEF TypeOK
<1>2. /\ limit.calls \in Nat /\ limit.period \in Nat /\ limit.deferred \in BOOLEAN
      /\ n \in Nat /\ n \in limit.increments \cup {0}
  BY <1>1, LimitFacts
<1>3. e.at = now /\ e.counter = c /\ e.calls = n /\ e.request = r
  BY DEF CallOf
<1>4. /\ KeptCalls(c) \in Seq(Time) /\ Len(KeptCalls(c)) \in Nat
      /\ stamps' \in [Time -> Seq(Time)] /\ \A d \in Time \ {c} : stamps'[d] = stamps[d]
      /\ CallsExceeded(c) => stamps'[c] = KeptCalls(c)
      /\ ~ CallsExceeded(c) => stamps'[c] = KeptCalls(c) \o [i \in 1..n |-> now]
  BY <1>1, <1>2, RateLimitFacts
<1>5. counted' = IF CallsExceeded(c) \/ n = 0 THEN counted ELSE counted \cup {e}
  BY DEF LogCalls, CallOf
<1>6. CounterBounded'
  BY <1>1, <1>2, CounterStep DEF CallsInv
<1> HIDE DEF c, n, e
<1>7. CASE limit.deferred
  BY <1>6, <1>7 DEF CallsInv, CallsPerPeriod, StampsAreCalls
<1>8. CASE ~ limit.deferred
  <2>1. e \notin counted
    BY <1>3, <1>8 DEF Logs
  <2>2. ASSUME NEW d \in Time, NEW t \in Nat, t >= now
        PROVE  /\ FreshAt(t) \subseteq Fresh
               /\ Len(Select(stamps[d], FreshAt(t))) \in Nat
               /\ Len(Select(stamps[d], FreshAt(t))) = CallsIn(Entries(counted, d, t))
    <3>1. stamps[d] \in Seq(Time)
      BY <1>1
    <3>2. Select(stamps[d], FreshAt(t)) \in Seq(Time)
      BY <3>1, SelectType
    <3> QED BY <1>1, <1>8, <2>2, <3>2, FreshFacts DEF CallsInv, StampsAreCalls, Fresh
  <2>3. ASSUME NEW t \in Nat, t >= now
        PROVE  Select(KeptCalls(c), FreshAt(t)) = Select(stamps[c], FreshAt(t))
    BY <1>1, <2>2, <2>3, SelectTwice DEF KeptCalls
  <2>4. ASSUME NEW d \in Time, NEW t \in Nat, IsFiniteSet(counted)
        PROVE  /\ IsFiniteSet(Entries(counted, d, t)) /\ e \notin Entries(counted, d, t)
               /\ \A x \in Entries(counted, d, t) : x.calls \in Nat
    BY <1>1, <2>1, <2>4, EntriesFinite DEF CallEntry
  <2>a. ASSUME NEW d, NEW t
        PROVE  Entries(counted', d, t) =
                 IF CallsExceeded(c) \/ n = 0 \/ d # c \/ now \notin FreshAt(t)
                 THEN Entries(counted, d, t) ELSE Entries(counted, d, t) \cup {e}
    <3>1. Entries(counted \cup {e}, d, t) =
            IF e.counter = d /\ e.at \in FreshAt(t) THEN Entries(counted, d, t) \cup {e}
            ELSE Entries(counted, d, t)
      BY DEF Entries
    <3>2. CASE CallsExceeded(c) \/ n = 0
      BY <1>5, <3>2
    <3>3. CASE ~ (CallsExceeded(c) \/ n = 0)
      <4>1. counted' = counted \cup {e}
        BY <1>5, <3>3
      <4> QED BY <1>3, <3>1, <3>3, <4>1
    <3> QED BY <3>2, <3>3
  <2>b. ASSUME NEW t \in Nat, t >= now, ~ CallsExceeded(c)
        PROVE  Len(Select(stamps'[c], FreshAt(t))) =
                 Len(Select(stamps[c], FreshAt(t))) + (IF now \in FreshAt(t) THEN n ELSE 0)
    <3>1. Len(Select(KeptCalls(c) \o [i \in 1..n |-> now], FreshAt(t))) =
            Len(Select(KeptCalls(c), FreshAt(t))) + (IF now \in FreshAt(t) THEN n ELSE 0)
      <4> HIDE DEF KeptCalls
      <4>1. ASSUME NEW s \in Seq(Time), NEW x \in Time, NEW m \in Nat
            PROVE  Len(Select(s \o [i \in 1..m |-> x], FreshAt(t))) =
                     Len(Select(s, FreshAt(t))) + (IF x \in FreshAt(t) THEN m ELSE 0)
        BY SelectRepeated
      <4> QED BY <1>1, <1>2, <1>4, <4>1
    <3>2. Select(KeptCalls(c), FreshAt(t)) = Select(stamps[c], FreshAt(t))
      BY <2>3, <2>b
    <3>3. stamps'[c] = KeptCalls(c) \o [i \in 1..n |-> now]
      BY <1>4, <2>b
    <3> QED BY <3>1, <3>2, <3>3
  <2>5. ASSUME NEW d \in Time, NEW t \in Nat, t >= now
        PROVE  Len(Select(stamps'[d], FreshAt(t))) = CallsIn(Entries(counted', d, t))
    <3>1. CASE d # c
      <4>1. Entries(counted', d, t) = Entries(counted, d, t)
        BY <2>a, <3>1
      <4> QED BY <1>4, <2>2, <2>5, <3>1, <4>1
    <3>2. CASE d = c /\ CallsExceeded(c)
      BY <1>4, <1>5, <2>2, <2>3, <2>5, <3>2
    <3>3. CASE d = c /\ ~ CallsExceeded(c)
      <4>1. Len(Select(stamps'[c], FreshAt(t))) =
              Len(Select(stamps[c], FreshAt(t))) + (IF now \in FreshAt(t) THEN n ELSE 0)
        BY <2>5, <2>b, <3>3
      <4>2. CallsIn(Entries(counted', c, t)) =
              CallsIn(Entries(counted, c, t)) + (IF now \in FreshAt(t) THEN n ELSE 0)
        <5>0. CallsIn(Entries(counted, c, t)) \in Nat
          BY <2>2, <2>5, <3>3
        <5>1. CASE n = 0
          BY <1>5, <5>0, <5>1
        <5>2. CASE n # 0 /\ now \notin FreshAt(t)
          <6>1. Entries(counted', c, t) = Entries(counted, c, t)
            BY <2>a, <5>2
          <6> QED BY <5>0, <5>2, <6>1
        <5>3. CASE n # 0 /\ now \in FreshAt(t)
          <6>1. Entries(counted', c, t) = Entries(counted, c, t) \cup {e}
            BY <2>a, <3>3, <5>3
          <6>2. /\ IsFiniteSet(Entries(counted, c, t)) /\ e \notin Entries(counted, c, t)
                /\ \A x \in Entries(counted, c, t) : x.calls \in Nat
            BY <1>1, <2>4 DEF Logs
          <6>3. CallsIn(Entries(counted, c, t) \cup {e}) = CallsIn(Entries(counted, c, t)) + e.calls
            BY <1>2, <1>3, <6>2, CallsGain
          <6> QED BY <1>3, <5>3, <6>1, <6>3
        <5> QED BY <5>1, <5>2, <5>3
      <4> QED BY <2>2, <2>5, <3>3, <4>1, <4>2
    <3> QED BY <3>1, <3>2, <3>3
  <2>6. \A x \in counted : x.at \in Nat /\ x.at <= now
    BY <1>1 DEF Logs, CallEntry
  <2>7. \A x \in counted' : x.at \in Nat /\ x.at <= now
    BY <1>1, <1>3, <1>5, <2>6
  <2>8. ASSUME NEW d \in Time, NEW t \in Time, t >= now, Entries(counted', d, t) # {}
        PROVE  CallsIn(Entries(counted', d, t)) < limit.calls + n
    <3>0. t \in Nat
      BY <1>1
    <3>1. CASE Entries(counted', d, t) = Entries(counted, d, t)
      <4>1. {x \in counted : x.counter = d /\ InPeriod(x, t)} = Entries(counted, d, t)
        <5>1. {x \in counted : x.counter = d /\ InPeriod(x, t)} =
                Entries(counted, d, IF t >= now THEN t ELSE now)
          BY <1>1, <2>6, <2>8, <3>0, PeriodEntries
        <5> QED BY <2>8, <5>1
      <4> QED BY <1>8, <2>8, <3>1, <4>1 DEF CallsInv, CallsPerPeriod, n
    <3>2. CASE d # c \/ CallsExceeded(c) \/ n = 0
      BY <2>a, <3>1, <3>2
    <3>3. CASE d = c /\ ~ CallsExceeded(c) /\ n # 0
      <4>1. Len(Select(stamps[c], FreshAt(t))) <= Len(KeptCalls(c))
        <5>1. stamps[c] \in Seq(Time)
          BY <1>1
        <5>2. FreshAt(t) \subseteq Fresh
          BY <1>1, <2>2, <2>8, <3>0
        <5> QED BY <5>1, <5>2, SelectNarrower DEF KeptCalls
      <4>2. Len(KeptCalls(c)) < limit.calls
        BY <1>2, <1>4, <3>3 DEF CallsExceeded
      <4>3. Len(Select(stamps'[c], FreshAt(t))) =
              Len(Select(stamps[c], FreshAt(t))) + (IF now \in FreshAt(t) THEN n ELSE 0)
        BY <2>8, <2>b, <3>0, <3>3
      <4>4. Len(Select(stamps[c], FreshAt(t))) \in Nat
        BY <1>1, <2>2, <2>8, <3>0
      <4>5. Len(Select(stamps'[c], FreshAt(t))) < limit.calls + n
        BY <1>2, <1>4, <4>1, <4>2, <4>3, <4>4
      <4> QED BY <1>1, <2>5, <2>8, <3>0, <3>3, <4>5
    <3> QED BY <3>2, <3>3
  <2>9. CallsPerPeriod'
    <3> SUFFICES ASSUME NEW t \in Time, NEW d \in Time,
                        {x \in counted' : x.counter = d /\ InPeriod(x, t)} # {}
                 PROVE  CallsIn({x \in counted' : x.counter = d /\ InPeriod(x, t)}) < limit.calls + n
      BY DEF CallsPerPeriod, InPeriod, EntryIncrement, n
    <3>1. CASE t >= now \/ limit.period = 0
      <4> DEFINE u == IF t >= now THEN t ELSE now
      <4>1. u \in Time /\ u >= now /\ t \in Nat
        BY <1>1
      <4>2. {x \in counted' : x.counter = d /\ InPeriod(x, t)} = Entries(counted', d, u)
        BY <1>1, <2>7, <3>1, <4>1, PeriodEntries
      <4> HIDE DEF u
      <4> QED BY <2>8, <4>1, <4>2
    <3>2. CASE ~ (t >= now \/ limit.period = 0)
      <4>1. ~ InPeriod(e, t)
        BY <1>1, <1>2, <1>3, <3>2 DEF InPeriod
      <4>2. {x \in counted' : x.counter = d /\ InPeriod(x, t)} =
              {x \in counted : x.counter = d /\ InPeriod(x, t)}
        BY <1>5, <4>1
      <4> QED BY <1>8, <4>2 DEF CallsInv, CallsPerPeriod, n
    <3> QED BY <3>1, <3>2
  <2>10. StampsAreCalls'
    <3>1. \A t : FreshAt(t)' = FreshAt(t)
      BY DEF FreshAt
    <3>2. \A d, t : Entries(counted, d, t)' = Entries(counted', d, t)
      BY <3>1 DEF Entries
    <3> QED BY <2>5, <3>1, <3>2 DEF StampsAreCalls
  <2> QED BY <1>6, <2>9, <2>10 DEF CallsInv
<1> QED BY <1>2, <1>7, <1>8

(***************************************************************************)
(* The bandwidth budget.                                                   *)
(***************************************************************************)
\* What Runtime.bandwidthLimit leaves in its counter.
LEMMA BandwidthLimitFacts ==
    ASSUME TypeOK, NEW c \in Time, NEW add \in Nat, bandwidthLimit(c, add)
    PROVE  /\ KeptVolumes(c) \in Seq(Volume) /\ Total(KeptVolumes(c)) \in Nat
           /\ [at |-> now, bytes |-> add] \in Volume
           /\ volumes' \in [Time -> Seq(Volume)] /\ \A d \in Time \ {c} : volumes'[d] = volumes[d]
           /\ BytesExceeded(c, add) => volumes'[c] = KeptVolumes(c)
           /\ ~ BytesExceeded(c, add) =>
                 volumes'[c] = Append(KeptVolumes(c), [at |-> now, bytes |-> add])
<1>1. volumes \in [Time -> Seq(Volume)] /\ now \in Time
  BY DEF TypeOK
<1>2. KeptVolumes(c) \in Seq(Volume)
  <2>1. volumes[c] \in Seq(Volume)
    BY <1>1
  <2> QED BY <2>1, SelectType DEF KeptVolumes
<1>3. Total(KeptVolumes(c)) \in Nat
  BY <1>2, TotalFacts
<1> DEFINE v == [at |-> now, bytes |-> add]
           more == Append(KeptVolumes(c), v)
<1>4. v \in Volume
  BY <1>1 DEF Volume
<1>5. more \in Seq(Volume)
  BY <1>2, <1>4
<1>6. volumes' = [volumes EXCEPT ![c] = IF BytesExceeded(c, add) THEN KeptVolumes(c) ELSE more]
  BY DEF bandwidthLimit
<1> HIDE DEF more
<1>7. /\ volumes' \in [Time -> Seq(Volume)] /\ \A d \in Time \ {c} : volumes'[d] = volumes[d]
      /\ volumes'[c] = IF BytesExceeded(c, add) THEN KeptVolumes(c) ELSE more
  BY <1>1, <1>2, <1>5, <1>6
<1> QED BY <1>2, <1>3, <1>4, <1>7 DEF more

\* The entry that BandwidthPass logs.
BytesOf(r) == [request |-> r, at |-> now, counter |-> limitWindow(r), bytes |-> EntryBytes(r)]

\* A request meets the bandwidth budget on its way in, and is counted or
\* refused.
LEMMA BytesStep ==
    ASSUME TypeOK, Logs, BytesInv, NEW r \in Requests, step[r] = "bandwidth", limit.bandwidth > 0,
           UNCHANGED <<limit, now>>, bandwidthLimit(limitWindow(r), EntryBytes(r)),
           \/ ~ BytesExceeded(limitWindow(r), EntryBytes(r)) /\ LogBytes(r, EntryBytes(r))
           \/ BytesExceeded(limitWindow(r), EntryBytes(r)) /\ carried' = carried
    PROVE  BytesInv'
<1> DEFINE c == limitWindow(r)
           n == EntryBytes(r)
           e == BytesOf(r)
           v == [at |-> now, bytes |-> n]
           over == BytesExceeded(c, n)
<1>1. /\ c \in Time /\ now \in Time /\ now \in Nat /\ volumes \in [Time -> Seq(Volume)] /\ limit \in Limits
      /\ carried \subseteq ByteEntry /\ Time \subseteq Nat
  BY WindowIsCounter, TimeFacts DEF TypeOK
<1>2. limit.bandwidth \in Nat /\ limit.period \in Nat /\ limit.deferred \in BOOLEAN /\ n \in Nat
  <2>1. size[r] \in Nat
    BY SizeFacts
  <2> QED BY <1>1, <2>1, LimitFacts DEF EntryBytes
<1>3. e.at = now /\ e.counter = c /\ e.bytes = n /\ e.request = r
  BY DEF BytesOf
<1>4. /\ KeptVolumes(c) \in Seq(Volume) /\ Total(KeptVolumes(c)) \in Nat /\ v \in Volume
      /\ volumes' \in [Time -> Seq(Volume)] /\ \A d \in Time \ {c} : volumes'[d] = volumes[d]
      /\ over => volumes'[c] = KeptVolumes(c)
      /\ ~ over => volumes'[c] = Append(KeptVolumes(c), v)
  BY <1>1, <1>2, BandwidthLimitFacts
<1>5. carried' = IF over \/ n = 0 THEN carried ELSE carried \cup {e}
  BY DEF LogBytes, BytesOf
<1>6. v.bytes = n /\ \A t : v \in FreshVolumes(t) <=> now \in FreshAt(t)
  BY <1>2 DEF FreshVolumes
<1>7. ~ over => Total(KeptVolumes(c)) + n <= limit.bandwidth
  BY <1>2, <1>4 DEF BytesExceeded
<1> HIDE DEF c, n, e, v, over
<1>8. CASE limit.deferred
  BY <1>8 DEF BytesInv, BytesPerPeriod, VolumesAreBytes
<1>9. CASE ~ limit.deferred
  <2>1. e \notin carried
    BY <1>3, <1>9 DEF Logs
  <2>2. ASSUME NEW d \in Time, NEW t \in Nat, t >= now
        PROVE  /\ FreshVolumes(t) \subseteq [at : Fresh, bytes : Nat]
               /\ Select(volumes[d], FreshVolumes(t)) \in Seq(Volume)
               /\ Total(Select(volumes[d], FreshVolumes(t))) \in Nat
               /\ Total(Select(volumes[d], FreshVolumes(t))) = BytesIn(Entries(carried, d, t))
    <3>1. volumes[d] \in Seq(Volume)
      BY <1>1
    <3>2. Select(volumes[d], FreshVolumes(t)) \in Seq(Volume)
      BY <3>1, SelectType
    <3>3. Total(Select(volumes[d], FreshVolumes(t))) \in Nat
      BY <3>2, TotalFacts
    <3>4. FreshVolumes(t) \subseteq [at : Fresh, bytes : Nat]
      BY <1>1, <2>2, FreshFacts DEF Fresh, FreshVolumes
    <3>5. Total(Select(volumes[d], FreshVolumes(t))) = BytesIn(Entries(carried, d, t))
      BY <1>9, <2>2 DEF BytesInv, VolumesAreBytes
    <3> QED BY <3>2, <3>3, <3>4, <3>5
  <2>3. ASSUME NEW t \in Nat, t >= now
        PROVE  Select(KeptVolumes(c), FreshVolumes(t)) = Select(volumes[c], FreshVolumes(t))
    <3>1. volumes[c] \in Seq(Volume)
      BY <1>1
    <3> QED BY <1>1, <2>2, <2>3, <3>1, SelectTwice DEF KeptVolumes
  <2>4. ASSUME NEW d, NEW t
        PROVE  Entries(carried', d, t) =
                 IF over \/ n = 0 \/ d # c \/ now \notin FreshAt(t)
                 THEN Entries(carried, d, t) ELSE Entries(carried, d, t) \cup {e}
    <3>1. Entries(carried \cup {e}, d, t) =
            IF e.counter = d /\ e.at \in FreshAt(t) THEN Entries(carried, d, t) \cup {e}
            ELSE Entries(carried, d, t)
      BY DEF Entries
    <3>2. CASE over \/ n = 0
      BY <1>5, <3>2
    <3>3. CASE ~ (over \/ n = 0)
      <4>1. carried' = carried \cup {e}
        BY <1>5, <3>3
      <4> QED BY <1>3, <3>1, <3>3, <4>1
    <3> QED BY <3>2, <3>3
  <2>5. ASSUME NEW t \in Nat, t >= now, ~ over
        PROVE  Total(Select(volumes'[c], FreshVolumes(t))) =
                 Total(Select(volumes[c], FreshVolumes(t))) + (IF now \in FreshAt(t) THEN n ELSE 0)
    <3> DEFINE old == Select(volumes[c], FreshVolumes(t))
    <3>1. Select(Append(KeptVolumes(c), v), FreshVolumes(t)) =
            IF v \in FreshVolumes(t) THEN Append(Select(KeptVolumes(c), FreshVolumes(t)), v)
            ELSE Select(KeptVolumes(c), FreshVolumes(t))
      BY <1>4, SelectAppend
    <3>2. Select(KeptVolumes(c), FreshVolumes(t)) = old /\ old \in Seq(Volume) /\ Total(old) \in Nat
      BY <1>1, <2>2, <2>3, <2>5
    <3> HIDE DEF old
    <3>3. Total(Append(old, v)) = Total(old) + n
      BY <1>4, <1>6, <3>2, TotalFacts
    <3>4. Select(volumes'[c], FreshVolumes(t)) = IF now \in FreshAt(t) THEN Append(old, v) ELSE old
      BY <1>4, <1>6, <2>5, <3>1, <3>2
    <3>5. Total(Select(volumes'[c], FreshVolumes(t))) = Total(old) + (IF now \in FreshAt(t) THEN n ELSE 0)
      BY <1>2, <3>2, <3>3, <3>4
    <3> QED BY <3>5 DEF old
  <2>6. ASSUME NEW t \in Nat
        PROVE  /\ IsFiniteSet(Entries(carried, c, t)) /\ e \notin Entries(carried, c, t)
               /\ \A x \in Entries(carried, c, t) : x.bytes \in Nat
    <3>1. IsFiniteSet(carried)
      BY DEF Logs
    <3>2. IsFiniteSet(Entries(carried, c, t)) /\ Entries(carried, c, t) \subseteq carried
      BY <3>1, EntriesFinite
    <3> QED BY <1>1, <2>1, <3>2 DEF ByteEntry
  <2>7. ASSUME NEW d \in Time, NEW t \in Nat, t >= now
        PROVE  Total(Select(volumes'[d], FreshVolumes(t))) = BytesIn(Entries(carried', d, t))
    <3>1. CASE d # c
      BY <1>4, <2>2, <2>4, <2>7, <3>1
    <3>2. CASE d = c /\ over
      BY <1>4, <2>2, <2>3, <2>4, <2>7, <3>2
    <3>3. CASE d = c /\ ~ over /\ (n = 0 \/ now \notin FreshAt(t))
      BY <2>2, <2>4, <2>5, <2>7, <3>3
    <3>4. CASE d = c /\ ~ over /\ n # 0 /\ now \in FreshAt(t)
      <4>1. BytesIn(Entries(carried, c, t) \cup {e}) = BytesIn(Entries(carried, c, t)) + n
        <5>1. e.bytes \in Nat
          BY <1>2, <1>3
        <5>2. BytesIn(Entries(carried, c, t) \cup {e}) = BytesIn(Entries(carried, c, t)) + e.bytes
          BY <2>6, <5>1, BytesGain
        <5> QED BY <1>3, <5>2
      <4>2. Entries(carried', c, t) = Entries(carried, c, t) \cup {e}
        BY <2>4, <3>4
      <4>3. Total(Select(volumes'[c], FreshVolumes(t))) = Total(Select(volumes[c], FreshVolumes(t))) + n
        BY <2>5, <2>7, <3>4
      <4> QED BY <2>2, <2>7, <3>4, <4>1, <4>2, <4>3
    <3> QED BY <3>1, <3>2, <3>3, <3>4
  <2>8. \A x \in carried : x.at \in Nat /\ x.at <= now
    BY <1>1 DEF Logs, ByteEntry
  <2>9. \A x \in carried' : x.at \in Nat /\ x.at <= now
    BY <1>1, <1>3, <1>5, <2>8
  <2>10. ASSUME NEW d \in Time, NEW t \in Time, t >= now
         PROVE  BytesIn(Entries(carried', d, t)) <= limit.bandwidth
    <3>0. t \in Nat
      BY <1>1
    <3>1. CASE d # c \/ over
      <4>1. {x \in carried : x.counter = d /\ InPeriod(x, t)} = Entries(carried, d, t)
        <5>1. {x \in carried : x.counter = d /\ InPeriod(x, t)} =
                Entries(carried, d, IF t >= now THEN t ELSE now)
          BY <1>1, <2>8, <2>10, <3>0, PeriodEntries
        <5> QED BY <2>10, <5>1
      <4>2. Entries(carried', d, t) = Entries(carried, d, t)
        BY <2>4, <3>1
      <4> QED BY <1>9, <4>1, <4>2 DEF BytesInv, BytesPerPeriod
    <3>2. CASE d = c /\ ~ over
      <4>1. volumes'[c] \in Seq(Volume) /\ volumes'[c] = Append(KeptVolumes(c), v)
        BY <1>1, <1>4, <3>2
      <4>2. Total(volumes'[c]) = Total(KeptVolumes(c)) + n
        BY <1>4, <1>6, <4>1, TotalFacts
      <4>3. /\ Total(Select(volumes'[c], FreshVolumes(t))) <= Total(volumes'[c])
            /\ Total(Select(volumes'[c], FreshVolumes(t))) \in Nat
        <5>1. Select(volumes'[c], FreshVolumes(t)) \in Seq(Volume)
          BY <4>1, SelectType
        <5> QED BY <4>1, <5>1, TotalNarrower, TotalFacts
      <4>4. Total(Select(volumes'[c], FreshVolumes(t))) <= limit.bandwidth
        BY <1>2, <1>4, <1>7, <3>2, <4>2, <4>3
      <4> QED BY <1>1, <2>7, <2>10, <3>0, <3>2, <4>4
    <3> QED BY <3>1, <3>2
  <2>11. BytesPerPeriod'
    <3> SUFFICES ASSUME NEW t \in Time, NEW d \in Time
                 PROVE  BytesIn({x \in carried' : x.counter = d /\ InPeriod(x, t)}) <= limit.bandwidth
      BY DEF BytesPerPeriod, InPeriod
    <3>1. CASE t >= now \/ limit.period = 0
      <4> DEFINE u == IF t >= now THEN t ELSE now
      <4>1. u \in Time /\ u >= now /\ t \in Nat
        BY <1>1
      <4>2. {x \in carried' : x.counter = d /\ InPeriod(x, t)} = Entries(carried', d, u)
        BY <1>1, <2>9, <3>1, <4>1, PeriodEntries
      <4> HIDE DEF u
      <4> QED BY <2>10, <4>1, <4>2
    <3>2. CASE ~ (t >= now \/ limit.period = 0)
      <4>1. ~ InPeriod(e, t)
        BY <1>1, <1>2, <1>3, <3>2 DEF InPeriod
      <4>2. {x \in carried' : x.counter = d /\ InPeriod(x, t)} =
              {x \in carried : x.counter = d /\ InPeriod(x, t)}
        BY <1>5, <4>1
      <4> QED BY <1>9, <4>2 DEF BytesInv, BytesPerPeriod
    <3> QED BY <3>1, <3>2
  <2>12. VolumesAreBytes'
    <3>1. \A t : FreshAt(t)' = FreshAt(t) /\ FreshVolumes(t)' = FreshVolumes(t)
      BY DEF FreshAt, FreshVolumes
    <3>2. \A d, t : Entries(carried, d, t)' = Entries(carried', d, t)
      BY <3>1 DEF Entries
    <3> QED BY <2>7, <3>1, <3>2 DEF VolumesAreBytes
  <2> QED BY <2>11, <2>12 DEF BytesInv
<1> QED BY <1>2, <1>8, <1>9

(***************************************************************************)
(* The logs and the types.                                                 *)
(***************************************************************************)
\* A request moves from its step to the step s, and is logged on the way or
\* not.
LEMMA LogsStep ==
    ASSUME TypeOK, Logs, NEW r \in Requests, NEW s, step' = [step EXCEPT ![r] = s],
           UNCHANGED <<limit, now>>, s # "new",
           s = "calls" => step[r] = "new", s = "bandwidth" => step[r] = "calls",
           s \in {"settleCalls", "settleBytes"} => limit.deferred,
           NEW x, x.request = r, x.at = now,
           \/ counted' = counted
           \/ counted' = counted \cup {x} /\ limit.calls > 0 /\ s # "calls",
           \/ carried' = carried
           \/ carried' = carried \cup {x} /\ s \notin {"calls", "bandwidth"}
    PROVE  Logs'
<1>1. now \in Nat /\ limit.calls \in Nat /\ counted \subseteq CallEntry /\ carried \subseteq ByteEntry
  BY TimeFacts, LimitFacts DEF TypeOK
<1>2. step'[r] = s /\ \A q \in Requests \ {r} : step'[q] = step[q]
  BY DEF TypeOK
<1>3. IsFiniteSet(counted') /\ IsFiniteSet(carried')
  BY FS_AddElement DEF Logs
<1>4. (\A e \in counted' : e.at <= now) /\ (\A e \in carried' : e.at <= now)
  BY <1>1 DEF Logs
<1>5. limit.calls = 0 => counted' = {}
  BY <1>1 DEF Logs
<1>6. ASSUME ~ limit.deferred
      PROVE  /\ \A q \in Requests : step'[q] \notin {"settleCalls", "settleBytes"}
             /\ \A e \in counted' : step'[e.request] \notin {"new", "calls"}
             /\ \A e \in carried' : step'[e.request] \notin {"new", "calls", "bandwidth"}
  <2>1. \A q \in Requests : step'[q] \notin {"settleCalls", "settleBytes"}
    BY <1>2, <1>6 DEF Logs
  <2>2. ASSUME NEW e \in counted, e \in CallEntry PROVE step'[e.request] \notin {"new", "calls"}
    <3>1. e.request \in Requests /\ step[e.request] \notin {"new", "calls"}
      BY <1>6, <2>2 DEF Logs, CallEntry
    <3> QED BY <1>2, <3>1
  <2>3. ASSUME NEW e \in carried, e \in ByteEntry
        PROVE  step'[e.request] \notin {"new", "calls", "bandwidth"}
    <3>1. e.request \in Requests /\ step[e.request] \notin {"new", "calls", "bandwidth"}
      BY <1>6, <2>3 DEF Logs, ByteEntry
    <3> QED BY <1>2, <3>1
  <2> QED BY <1>1, <1>2, <2>1, <2>2, <2>3
<1> QED BY <1>3, <1>4, <1>5, <1>6 DEF Logs

LEMMA RetryAfterType ==
    ASSUME TypeOK, NEW r \in Requests, limit.calls > 0, CallsExceeded(limitWindow(r))
    PROVE  RetryAfter(r) \in Nat
<1> DEFINE c == limitWindow(r)
<1>1. /\ c \in Nat /\ c \in Time /\ limit.period \in Nat /\ limit.calls \in Nat
      /\ arrived[r] \in Nat /\ now \in Nat /\ stamps[c] \in Seq(Time)
  BY WindowIsCounter, TimeFacts, LimitFacts DEF TypeOK
<1>2. KeptCalls(c) \in Seq(Time)
  BY <1>1, SelectType DEF KeptCalls
<1>3. Head(KeptCalls(c)) \in Nat
  <2>1. Len(KeptCalls(c)) > 0
    BY <1>1, <1>2 DEF CallsExceeded
  <2>2. Head(KeptCalls(c)) \in Time
    BY <1>2, <2>1
  <2> QED BY <2>2, TimeFacts
<1> DEFINE wait == IF limit.period = 0 THEN 0
                   ELSE IF limit.fixed THEN (c + 1) * limit.period - arrived[r]
                   ELSE Head(KeptCalls(c)) + limit.period - now
<1>4. wait \in Int
  <2>1. (c + 1) * limit.period \in Nat
    BY <1>1
  <2> HIDE DEF c
  <2> QED BY <1>1, <1>3, <2>1
<1>5. RetryAfter(r) = IF wait < 1 THEN 1 ELSE wait
  BY DEF RetryAfter
<1> HIDE DEF wait
<1> QED BY <1>4, <1>5

\* What is logged.
LEMMA LogTypes ==
    ASSUME TypeOK, NEW r \in Requests, NEW n \in Nat
    PROVE  /\ [request |-> r, at |-> now, counter |-> limitWindow(r), calls |-> n] \in CallEntry
           /\ [request |-> r, at |-> now, counter |-> limitWindow(r), bytes |-> n] \in ByteEntry
           /\ LogCalls(r, n) => counted' \subseteq CallEntry
           /\ LogBytes(r, n) => carried' \subseteq ByteEntry
<1>1. limitWindow(r) \in Time /\ now \in Time
  BY WindowIsCounter DEF TypeOK
<1>2. /\ [request |-> r, at |-> now, counter |-> limitWindow(r), calls |-> n] \in CallEntry
      /\ [request |-> r, at |-> now, counter |-> limitWindow(r), bytes |-> n] \in ByteEntry
  BY <1>1 DEF CallEntry, ByteEntry
<1>3. counted \subseteq CallEntry /\ carried \subseteq ByteEntry
  BY DEF TypeOK
<1> QED BY <1>2, <1>3 DEF LogCalls, LogBytes

LEMMA LimitInit == Init => LimitInv
<1> SUFFICES ASSUME Init PROVE LimitInv
  OBVIOUS
<1>1. limit \in Limits /\ counted = {} /\ carried = {} /\ now = 0 /\ 0 \in Time /\ Time \subseteq Nat
  BY TimeFacts DEF Init
<1>2. stamps = [c \in Time |-> <<>>] /\ volumes = [c \in Time |-> <<>>]
  BY DEF Init
<1>3. limit.calls \in Nat /\ limit.bandwidth \in Nat /\ limit.increments # {} /\ limit.increments \subseteq Nat
  BY <1>1, LimitFacts
<1>4. TypeOK
  <2>1. size \in [Requests -> {0} \cup Sizes]
    BY DEF Init
  <2>2. <<>> \in Seq(Time) /\ <<>> \in Seq(Volume)
    OBVIOUS
  <2> QED BY <1>1, <1>2, <2>1, <2>2 DEF Init, TypeOK, Steps
<1>5. Logs
  BY <1>1, FS_EmptySet DEF Init, Logs
<1>6. \A c, t : Entries({}, c, t) = {}
  BY DEF Entries
<1>7. CallsIn({}) = 0 /\ BytesIn({}) = 0
  BY FS_EmptySet, SumType DEF CallsIn, BytesIn
<1>8. CallsInv
  <2>1. CounterBounded
    <3>1. Len(<<>>) = 0 /\ \E n \in limit.increments : n \in Nat
      BY <1>3
    <3> QED BY <1>2, <1>3, <3>1 DEF CounterBounded
  <2>2. CallsPerPeriod
    BY <1>1 DEF CallsPerPeriod
  <2>3. StampsAreCalls
    <3>1. Len(<<>>) = 0
      OBVIOUS
    <3> QED BY <1>1, <1>2, <1>6, <1>7, <3>1, SelectEmpty DEF StampsAreCalls
  <2> QED BY <2>1, <2>2, <2>3 DEF CallsInv
<1>9. BytesInv
  <2>1. Total(<<>>) = 0
    <3>1. <<>> \in Seq(Volume)
      OBVIOUS
    <3> QED BY <3>1, TotalFacts
  <2>2. BytesPerPeriod
    <3>1. \A t, c : {e \in carried : e.counter = c /\ InPeriod(e, t)} = {}
      BY <1>1
    <3> QED BY <1>3, <1>7, <3>1 DEF BytesPerPeriod
  <2>3. VolumesAreBytes
    BY <1>1, <1>2, <1>6, <1>7, <2>1, SelectEmpty DEF VolumesAreBytes
  <2> QED BY <2>2, <2>3 DEF BytesInv
<1> QED BY <1>4, <1>5, <1>8, <1>9 DEF LimitInv

LEMMA LimitStep == LimitInv /\ [Next]_vars => LimitInv'
<1> SUFFICES ASSUME TypeOK, Logs, CallsInv, BytesInv, [Next]_vars PROVE LimitInv'
  BY DEF LimitInv
<1>1. now \in Nat /\ now \in Time /\ Time \subseteq Nat /\ MaxTime \in Nat
  BY TimeFacts DEF TypeOK
<1>2. /\ limit \in Limits /\ limit.calls \in Nat /\ limit.bandwidth \in Nat /\ limit.deferred \in BOOLEAN
      /\ limit.increments \subseteq Nat /\ EntryIncrement \in Nat
      /\ EntryIncrement \in limit.increments \cup {0}
  BY LimitFacts DEF TypeOK
\* The parts of the invariant that a step which leaves the limit and the clock
\* alone does not disturb.
<1>3. ASSUME UNCHANGED <<limit, now, stamps, counted>> PROVE CallsInv'
  BY <1>1, <1>3, CallsFrame
<1>4. ASSUME UNCHANGED <<limit, now, volumes, carried>> PROVE BytesInv'
  BY <1>1, <1>4, BytesFrame
<1>5. ASSUME NEW r \in Requests, NEW s, step' = [step EXCEPT ![r] = s], s # "new",
             s = "calls" => step[r] = "new", s = "bandwidth" => step[r] = "calls",
             s \in {"settleCalls", "settleBytes"} => limit.deferred,
             UNCHANGED <<limit, now, counted, carried>>
      PROVE  Logs'
  <2> DEFINE z == [request |-> r, at |-> now]
  <2>1. z.request = r /\ z.at = now
    OBVIOUS
  <2> HIDE DEF z
  <2> QED BY <1>5, <2>1, LogsStep
<1>6. CASE UNCHANGED vars
  <2>1. TypeOK' /\ Logs'
    BY <1>6 DEF TypeOK, Logs, vars
  <2> QED BY <1>3, <1>4, <1>6, <2>1 DEF LimitInv, vars
<1>7. CASE Tick
  <2>1. now' \in Time /\ now' \in Nat /\ now' >= now
    BY <1>1, <1>7 DEF Tick, Time
  <2>2. TypeOK'
    BY <1>7, <2>1 DEF Tick, TypeOK
  <2>3. Logs'
    <3>1. \A e \in counted : e.at \in Nat
      BY <1>1 DEF TypeOK, CallEntry
    <3>2. \A e \in carried : e.at \in Nat
      BY <1>1 DEF TypeOK, ByteEntry
    <3>3. (\A e \in counted : e.at <= now') /\ (\A e \in carried : e.at <= now')
      BY <1>1, <2>1, <3>1, <3>2 DEF Logs
    <3> QED BY <1>7, <3>3 DEF Tick, Logs
  <2>4. CallsInv' /\ BytesInv'
    BY <1>1, <1>7, <2>1, CallsFrame, BytesFrame DEF Tick
  <2> QED BY <2>2, <2>3, <2>4 DEF LimitInv
<1>8. ASSUME NEW r \in Requests, Arrive(r) PROVE LimitInv'
  <2>1. TypeOK'
    BY <1>1, <1>8 DEF Arrive, TypeOK, Steps
  <2>2. Logs'
    BY <1>5, <1>8 DEF Arrive
  <2> QED BY <1>3, <1>4, <1>8, <2>1, <2>2 DEF Arrive, LimitInv
<1>9. ASSUME NEW r \in Requests, CallsPass(r) PROVE LimitInv'
  <2>1. CASE limit.calls = 0
    <3>1. UNCHANGED <<limit, now, arrived, size, stamps, counted, volumes, carried, advice>>
      BY <1>9, <2>1 DEF CallsPass
    <3>2. step' = [step EXCEPT ![r] = "bandwidth"] /\ step[r] = "calls"
      BY <1>9 DEF CallsPass
    <3>3. TypeOK'
      BY <3>1, <3>2 DEF TypeOK, Steps
    <3>4. Logs'
      BY <1>5, <3>1, <3>2
    <3> QED BY <1>3, <1>4, <3>1, <3>3, <3>4 DEF LimitInv
  <2>2. CASE limit.calls > 0
    <3>1. /\ rateLimit(limitWindow(r), EntryIncrement) /\ LogCalls(r, EntryIncrement)
          /\ ~ CallsExceeded(limitWindow(r)) /\ step[r] = "calls"
          /\ step' = [step EXCEPT ![r] = "bandwidth"]
          /\ UNCHANGED <<limit, now, arrived, size, volumes, carried, advice>>
      BY <1>9, <2>2 DEF CallsPass
    <3>2. stamps' \in [Time -> Seq(Time)] /\ counted' \subseteq CallEntry
      BY <1>2, <3>1, WindowIsCounter, RateLimitFacts, LogTypes
    <3>3. TypeOK'
      BY <3>1, <3>2 DEF TypeOK, Steps
    <3>4. Logs'
      <4> DEFINE x == [request |-> r, at |-> now, counter |-> limitWindow(r), calls |-> EntryIncrement]
      <4>1. x.request = r /\ x.at = now /\ (counted' = counted \/ counted' = counted \cup {x})
        BY <3>1 DEF LogCalls
      <4> HIDE DEF x
      <4>2. /\ counted' = counted \/ (counted' = counted \cup {x} /\ limit.calls > 0 /\ "bandwidth" # "calls")
            /\ carried' = carried /\ UNCHANGED <<limit, now>>
        BY <2>2, <3>1, <4>1
      <4> QED BY <3>1, <4>1, <4>2, LogsStep
    <3>5. CallsInv'
      BY <2>2, <3>1, CallsStep
    <3> QED BY <1>4, <3>1, <3>3, <3>4, <3>5 DEF LimitInv
  <2> QED BY <1>2, <2>1, <2>2
<1>10. ASSUME NEW r \in Requests, CallsRefuse(r) PROVE LimitInv'
  <2>1. /\ rateLimit(limitWindow(r), EntryIncrement) /\ CallsExceeded(limitWindow(r))
        /\ step[r] = "calls" /\ limit.calls > 0
        /\ advice' = advice \cup {[since |-> arrived[r], until |-> now + RetryAfter(r)]}
        /\ step' = [step EXCEPT ![r] = "refused"]
        /\ UNCHANGED <<limit, now, arrived, size, volumes, counted, carried>>
    BY <1>10 DEF CallsRefuse
  <2>2. stamps' \in [Time -> Seq(Time)]
    BY <1>2, <2>1, WindowIsCounter, RateLimitFacts
  <2>3. advice' \subseteq [since : Time, until : Nat]
    <3>1. now + RetryAfter(r) \in Nat
      <4>1. RetryAfter(r) \in Nat
        BY <2>1, RetryAfterType
      <4> QED BY <1>1, <4>1
    <3>2. arrived[r] \in Time /\ advice \subseteq [since : Time, until : Nat]
      BY DEF TypeOK
    <3> QED BY <2>1, <3>1, <3>2
  <2>4. TypeOK'
    BY <2>1, <2>2, <2>3 DEF TypeOK, Steps
  <2>5. Logs'
    BY <1>5, <2>1
  <2>6. CallsInv'
    BY <2>1, CallsStep
  <2> QED BY <1>4, <2>1, <2>4, <2>5, <2>6 DEF LimitInv
<1>11. ASSUME NEW r \in Requests PROVE EntryBytes(r) \in Nat
  BY <1>2, SizeFacts DEF EntryBytes
<1>12. ASSUME NEW r \in Requests, BandwidthPass(r) PROVE LimitInv'
  <2>1. CASE limit.bandwidth = 0
    <3>1. UNCHANGED <<limit, now, arrived, size, stamps, counted, volumes, carried, advice>>
      BY <1>12, <2>1 DEF BandwidthPass
    <3>2. step' = [step EXCEPT ![r] = "forward"]
      BY <1>12 DEF BandwidthPass
    <3>3. TypeOK'
      BY <3>1, <3>2 DEF TypeOK, Steps
    <3>4. Logs'
      BY <1>5, <3>1, <3>2
    <3> QED BY <1>3, <1>4, <3>1, <3>3, <3>4 DEF LimitInv
  <2>2. CASE limit.bandwidth > 0
    <3>1. /\ bandwidthLimit(limitWindow(r), EntryBytes(r)) /\ LogBytes(r, EntryBytes(r))
          /\ ~ BytesExceeded(limitWindow(r), EntryBytes(r)) /\ step[r] = "bandwidth"
          /\ step' = [step EXCEPT ![r] = "forward"]
          /\ UNCHANGED <<limit, now, arrived, size, stamps, counted, advice>>
      BY <1>12, <2>2 DEF BandwidthPass
    <3>2. volumes' \in [Time -> Seq(Volume)] /\ carried' \subseteq ByteEntry
      BY <1>11, <3>1, WindowIsCounter, BandwidthLimitFacts, LogTypes
    <3>3. TypeOK'
      BY <3>1, <3>2 DEF TypeOK, Steps
    <3>4. Logs'
      <4> DEFINE y == [request |-> r, at |-> now, counter |-> limitWindow(r), bytes |-> EntryBytes(r)]
      <4>1. y.request = r /\ y.at = now /\ (carried' = carried \/ carried' = carried \cup {y})
        BY <3>1 DEF LogBytes
      <4> HIDE DEF y
      <4>2. /\ carried' = carried \/ (carried' = carried \cup {y} /\ "forward" \notin {"calls", "bandwidth"})
            /\ counted' = counted /\ UNCHANGED <<limit, now>>
        BY <3>1, <4>1
      <4> QED BY <3>1, <4>1, <4>2, LogsStep
    <3>5. BytesInv'
      BY <2>2, <3>1, BytesStep
    <3> QED BY <1>3, <3>1, <3>3, <3>4, <3>5 DEF LimitInv
  <2> QED BY <1>2, <2>1, <2>2
<1>13. ASSUME NEW r \in Requests, BandwidthRefuse(r) PROVE LimitInv'
  <2>1. /\ bandwidthLimit(limitWindow(r), EntryBytes(r)) /\ BytesExceeded(limitWindow(r), EntryBytes(r))
        /\ step[r] = "bandwidth" /\ limit.bandwidth > 0 /\ step' = [step EXCEPT ![r] = "refused"]
        /\ UNCHANGED <<limit, now, arrived, size, stamps, counted, carried, advice>>
    BY <1>13 DEF BandwidthRefuse
  <2>2. volumes' \in [Time -> Seq(Volume)]
    BY <1>11, <2>1, WindowIsCounter, BandwidthLimitFacts
  <2>3. TypeOK'
    BY <2>1, <2>2 DEF TypeOK, Steps
  <2>4. Logs'
    BY <1>5, <2>1
  <2>5. BytesInv'
    BY <2>1, BytesStep
  <2> QED BY <1>3, <2>1, <2>3, <2>4, <2>5 DEF LimitInv
<1>14. ASSUME NEW r \in Requests, Settle(r) PROVE LimitInv'
  <2> DEFINE s == IF limit.deferred THEN "settleCalls" ELSE "done"
  <2>1. /\ step' = [step EXCEPT ![r] = s]
        /\ UNCHANGED <<limit, now, arrived, size, stamps, counted, volumes, carried, advice>>
    BY <1>14 DEF Settle
  <2>2. s \in Steps /\ s \notin {"new", "calls", "bandwidth", "settleBytes"} /\ (s = "settleCalls" => limit.deferred)
    BY DEF Steps
  <2> HIDE DEF s
  <2>3. TypeOK'
    BY <2>1, <2>2 DEF TypeOK
  <2>4. Logs'
    BY <1>5, <2>1, <2>2
  <2> QED BY <1>3, <1>4, <2>1, <2>3, <2>4 DEF LimitInv
<1>15. ASSUME NEW r \in Requests, SettleNothing(r) PROVE LimitInv'
  <2>1. TypeOK'
    BY <1>15 DEF SettleNothing, TypeOK, Steps
  <2>2. Logs'
    BY <1>5, <1>15 DEF SettleNothing
  <2> QED BY <1>3, <1>4, <1>15, <2>1, <2>2 DEF SettleNothing, LimitInv
<1>16. ASSUME NEW r \in Requests, step[r] \in {"settleCalls", "settleBytes"} PROVE limit.deferred
  BY <1>2, <1>16 DEF Logs
<1>17. ASSUME NEW r \in Requests, SettleCalls(r) PROVE LimitInv'
  <2>1. /\ step[r] = "settleCalls" /\ step' = [step EXCEPT ![r] = "settleBytes"] /\ limit.deferred
        /\ UNCHANGED <<limit, now, arrived, size, volumes, carried, advice>>
    BY <1>16, <1>17 DEF SettleCalls
  <2>2. CASE limit.calls = 0
    <3>1. UNCHANGED <<stamps, counted>>
      BY <1>17, <2>2 DEF SettleCalls
    <3>2. TypeOK'
      BY <2>1, <3>1 DEF TypeOK, Steps
    <3>3. Logs'
      BY <1>5, <2>1, <3>1
    <3> QED BY <1>3, <1>4, <2>1, <3>1, <3>2, <3>3 DEF LimitInv
  <2>3. CASE limit.calls > 0
    <3>1. PICK n \in limit.increments : rateLimit(limitWindow(r), n) /\ LogCalls(r, n)
      BY <1>17, <2>3 DEF SettleCalls
    <3>2. n \in Nat
      BY <1>2
    <3>3. stamps' \in [Time -> Seq(Time)] /\ counted' \subseteq CallEntry
      BY <3>1, <3>2, WindowIsCounter, RateLimitFacts, LogTypes
    <3>4. TypeOK'
      BY <2>1, <3>3 DEF TypeOK, Steps
    <3>5. Logs'
      <4> DEFINE x == [request |-> r, at |-> now, counter |-> limitWindow(r), calls |-> n]
      <4>1. x.request = r /\ x.at = now /\ (counted' = counted \/ counted' = counted \cup {x})
        BY <3>1 DEF LogCalls
      <4> HIDE DEF x
      <4>2. /\ counted' = counted \/ (counted' = counted \cup {x} /\ limit.calls > 0 /\ "settleBytes" # "calls")
            /\ carried' = carried /\ UNCHANGED <<limit, now>>
        BY <2>1, <2>3, <4>1
      <4> DEFINE s == "settleBytes"
      <4>3. /\ s # "new" /\ s # "calls" /\ s # "bandwidth"
            /\ s \in {"settleCalls", "settleBytes"} => limit.deferred
            /\ step' = [step EXCEPT ![r] = s]
        BY <2>1
      <4> HIDE DEF s
      <4> QED BY <4>1, <4>2, <4>3, LogsStep
    <3>6. CallsInv'
      <4>1. CounterBounded'
        BY <2>1, <3>1, <3>2, WindowIsCounter, CounterStep DEF CallsInv
      <4> QED BY <2>1, <4>1 DEF CallsInv, CallsPerPeriod, StampsAreCalls
    <3> QED BY <1>4, <2>1, <3>4, <3>5, <3>6 DEF LimitInv
  <2> QED BY <1>2, <2>2, <2>3
<1>18. ASSUME NEW r \in Requests, SettleBytes(r) PROVE LimitInv'
  <2>1. /\ step[r] = "settleBytes" /\ step' = [step EXCEPT ![r] = "done"] /\ limit.deferred
        /\ UNCHANGED <<limit, now, arrived, size, stamps, counted, advice>>
    BY <1>16, <1>18 DEF SettleBytes
  <2>2. CASE limit.bandwidth = 0
    <3>1. UNCHANGED <<volumes, carried>>
      BY <1>18, <2>2 DEF SettleBytes
    <3>2. TypeOK'
      BY <2>1, <3>1 DEF TypeOK, Steps
    <3>3. Logs'
      BY <1>5, <2>1, <3>1
    <3> QED BY <1>3, <1>4, <2>1, <3>1, <3>2, <3>3 DEF LimitInv
  <2>3. CASE limit.bandwidth > 0
    <3>1. bandwidthLimit(limitWindow(r), size[r]) /\ LogBytes(r, size[r]) /\ size[r] \in Nat
      BY <1>18, <2>3, SizeFacts DEF SettleBytes
    <3>2. volumes' \in [Time -> Seq(Volume)] /\ carried' \subseteq ByteEntry
      BY <3>1, WindowIsCounter, BandwidthLimitFacts, LogTypes
    <3>3. TypeOK'
      BY <2>1, <3>2 DEF TypeOK, Steps
    <3>4. Logs'
      <4> DEFINE y == [request |-> r, at |-> now, counter |-> limitWindow(r), bytes |-> size[r]]
      <4>1. y.request = r /\ y.at = now /\ (carried' = carried \/ carried' = carried \cup {y})
        BY <3>1 DEF LogBytes
      <4> HIDE DEF y
      <4>2. /\ carried' = carried \/ (carried' = carried \cup {y} /\ "done" \notin {"calls", "bandwidth"})
            /\ counted' = counted /\ UNCHANGED <<limit, now>>
        BY <2>1, <4>1
      <4> QED BY <2>1, <4>1, <4>2, LogsStep
    <3>5. BytesInv'
      BY <2>1 DEF BytesInv, BytesPerPeriod, VolumesAreBytes
    <3> QED BY <1>3, <2>1, <3>3, <3>4, <3>5 DEF LimitInv
  <2> QED BY <1>2, <2>2, <2>3
<1> QED BY <1>6, <1>7, <1>8, <1>9, <1>10, <1>12, <1>13, <1>14, <1>15, <1>17, <1>18 DEF Next, Serve

\* The policy, the clock, the requests, the counters and their histories keep
\* their types; in particular every Retry-After is a number of at least zero
\* seconds, which needs a refused counter to hold a stamp to wait for.
THEOREM TypeCorrect == Spec => []TypeOK
<1>1. LimitInv => TypeOK
  BY DEF LimitInv
<1> QED BY <1>1, LimitInit, LimitStep, PTL DEF Spec

\* No period, wherever it starts, lets more calls of a counter through than
\* the limit allows (executeLimit and Runtime.rateLimit).
THEOREM CallsWithinLimit == Spec => []CallsPerPeriod
<1>1. LimitInv => CallsPerPeriod
  BY DEF LimitInv, CallsInv
<1> QED BY <1>1, LimitInit, LimitStep, PTL DEF Spec

\* No period lets more bytes of a counter through than the bandwidth
\* (executeLimit and Runtime.bandwidthLimit).
THEOREM BytesWithinLimit == Spec => []BytesPerPeriod
<1>1. LimitInv => BytesPerPeriod
  BY DEF LimitInv, BytesInv
<1> QED BY <1>1, LimitInit, LimitStep, PTL DEF Spec

(***************************************************************************)
(* Retry-After.                                                            *)
(*                                                                         *)
(* A sliding limit whose increments are all n, or nothing, has its stamps  *)
(* in groups of n of the same time (Grouped).  When the oldest group ages  *)
(* out, a counter that holds less than the limit and n is below the limit  *)
(* again, and this remains so until something else is counted (Promised):  *)
(* at the very instant of the refusal nothing can be, since the counter is *)
(* still full.  In a fixed window what is counted was counted after the    *)
(* window began, and the promise is the end of an earlier window           *)
(* (Boundaries).                                                           *)
(***************************************************************************)
\* A sliding limit with increments of n.
Steady(n) ==
    ~ limit.fixed /\ limit.calls > 0 /\ limit.period > 0 /\ limit.increments \subseteq {0, n}

Arrivals == \A r \in Requests : arrived[r] <= now

Grouped ==
    \A n \in limit.increments : Steady(n) =>
        \A x \in Time : Len(Select(stamps[0], {x})) = 0 \/ Len(Select(stamps[0], {x})) >= n

\* The counter is below its limit once the time a is over.
KeepsPromise(a) ==
    /\ Len(Select(stamps[0], FreshAt(a.until))) < limit.calls
    /\ a.since = now => CallsExceeded(0)

Promised ==
    \A n \in limit.increments : Steady(n) =>
        \A a \in advice : a.since <= now /\ ((\E e \in counted : e.at > a.since) \/ KeepsPromise(a))

Boundaries ==
    (limit.fixed /\ limit.period > 0) =>
        /\ \A e \in counted : e.counter * limit.period <= e.at
        /\ \A c \in Time : Len(stamps[c]) > 0 => \E e \in counted : e.counter = c
        /\ \A a \in advice : (a.since \div limit.period + 1) * limit.period <= a.until

RetryInv == Arrivals /\ Grouped /\ Promised /\ Boundaries

LEMMA QuotientBounds ==
    ASSUME NEW a \in Nat, NEW p \in Nat, p > 0
    PROVE  a \div p \in Nat /\ (a \div p) * p <= a /\ a < (a \div p + 1) * p
OBVIOUS

LEMMA TimesOrder ==
    ASSUME NEW a \in Nat, NEW b \in Nat, NEW p \in Nat
    PROVE  (a <= b => a * p <= b * p) /\ (a * p < b * p => a < b)
OBVIOUS

\* A window that is trimmed twice at the same instant is trimmed once.
LEMMA KeptAgain ==
    ASSUME TypeOK, NEW c \in Time
    PROVE  /\ KeptCalls(c) \in Seq(Time) /\ Len(KeptCalls(c)) <= Len(stamps[c]) /\ Len(stamps[c]) \in Nat
           /\ Select(KeptCalls(c), Fresh) = KeptCalls(c)
<1>1. stamps[c] \in Seq(Time)
  BY DEF TypeOK
<1>2. KeptCalls(c) \in Seq(Time) /\ Len(KeptCalls(c)) <= Len(stamps[c]) /\ Len(stamps[c]) \in Nat
  BY <1>1, SelectType DEF KeptCalls
<1>3. Select(KeptCalls(c), Fresh) = KeptCalls(c)
  BY <1>1, SelectTwice DEF KeptCalls
<1> QED BY <1>2, <1>3

\* Trimming takes whole groups.
LEMMA KeptGroup ==
    ASSUME TypeOK, NEW c \in Time, NEW x
    PROVE  /\ Len(Select(stamps[c], {x})) \in Nat /\ Len(Select(KeptCalls(c), {x})) \in Nat
           /\ \/ Len(Select(KeptCalls(c), {x})) = 0
              \/ Len(Select(KeptCalls(c), {x})) = Len(Select(stamps[c], {x}))
<1>1. stamps[c] \in Seq(Time) /\ KeptCalls(c) \in Seq(Time)
  BY KeptAgain DEF TypeOK
<1>2. Select(stamps[c], {x}) \in Seq(Time) /\ Select(KeptCalls(c), {x}) \in Seq(Time)
  BY <1>1, SelectType
<1>3. Len(Select(stamps[c], {x})) \in Nat /\ Len(Select(KeptCalls(c), {x})) \in Nat
  BY <1>2
<1>4. CASE x \in Fresh
  <2>1. {x} \subseteq Fresh
    BY <1>4
  <2>2. Select(Select(stamps[c], Fresh), {x}) = Select(stamps[c], {x})
    BY <1>1, <2>1, SelectTwice
  <2> QED BY <1>3, <2>2 DEF KeptCalls
<1>5. CASE x \notin Fresh
  <2>1. Fresh \cap {x} = {}
    BY <1>5
  <2>2. Len(Select(KeptCalls(c), Fresh)) + Len(Select(KeptCalls(c), {x})) <= Len(KeptCalls(c))
    BY <1>1, <2>1, SelectDisjoint
  <2>3. Len(KeptCalls(c)) \in Nat /\ Select(KeptCalls(c), Fresh) = KeptCalls(c)
    BY <1>1, KeptAgain
  <2> QED BY <1>3, <2>2, <2>3
<1> QED BY <1>4, <1>5

\* What a call of the limiter adds to a part of its window.
LEMMA RateStamps ==
    ASSUME TypeOK, NEW c \in Time, NEW m \in Nat, rateLimit(c, m), NEW keep
    PROVE  /\ Len(Select(KeptCalls(c), keep)) \in Nat /\ Len(Select(stamps[c], keep)) \in Nat
           /\ Len(Select(KeptCalls(c), keep)) <= Len(Select(stamps[c], keep))
           /\ Len(Select(stamps'[c], keep)) =
                Len(Select(KeptCalls(c), keep)) + (IF ~ CallsExceeded(c) /\ now \in keep THEN m ELSE 0)
<1>1. stamps[c] \in Seq(Time) /\ KeptCalls(c) \in Seq(Time) /\ now \in Time
  BY KeptAgain DEF TypeOK
<1>2. Select(stamps[c], keep) \in Seq(Time) /\ Select(KeptCalls(c), keep) \in Seq(Time)
  BY <1>1, SelectType
<1>3. Len(Select(stamps[c], keep)) \in Nat /\ Len(Select(KeptCalls(c), keep)) \in Nat
  BY <1>2
<1>4. Len(Select(KeptCalls(c), keep)) <= Len(Select(stamps[c], keep))
  BY <1>1, SelectTrimmed DEF KeptCalls
<1>5. CASE CallsExceeded(c)
  <2>1. stamps'[c] = KeptCalls(c)
    BY <1>5, RateLimitFacts
  <2> QED BY <1>3, <1>4, <1>5, <2>1
<1>6. CASE ~ CallsExceeded(c)
  <2>1. stamps'[c] = KeptCalls(c) \o [i \in 1..m |-> now]
    BY <1>6, RateLimitFacts
  <2>2. ASSUME NEW s \in Seq(Time), NEW x \in Time
        PROVE  Len(Select(s \o [i \in 1..m |-> x], keep)) =
                 Len(Select(s, keep)) + (IF x \in keep THEN m ELSE 0)
    BY SelectRepeated
  <2>3. Len(Select(KeptCalls(c) \o [i \in 1..m |-> now], keep)) =
          Len(Select(KeptCalls(c), keep)) + (IF now \in keep THEN m ELSE 0)
    BY <1>1, <2>2
  <2> QED BY <1>3, <1>4, <1>6, <2>1, <2>3
<1> QED BY <1>5, <1>6

\* A counter that refuses goes on refusing at the same instant.
LEMMA StillExceeded ==
    ASSUME TypeOK, NEW c \in Time, NEW m \in Nat, rateLimit(c, m), CallsExceeded(c), UNCHANGED <<limit, now>>
    PROVE  CallsExceeded(c)'
<1>1. stamps'[c] = KeptCalls(c) /\ Select(KeptCalls(c), Fresh) = KeptCalls(c)
  BY RateLimitFacts, KeptAgain
<1>2. Fresh' = Fresh
  BY DEF Fresh, FreshAt
<1>3. KeptCalls(c)' = Select(stamps'[c], Fresh)
  BY <1>2 DEF KeptCalls
<1>4. KeptCalls(c)' = KeptCalls(c)
  BY <1>1, <1>3
<1> QED BY <1>4 DEF CallsExceeded

\* A call of the limiter keeps the groups, the promises made so far and the
\* boundaries of the windows.
LEMMA RetryKept ==
    ASSUME TypeOK, RetryInv, NEW r \in Requests, NEW m \in limit.increments \cup {0}, limit.calls > 0,
           rateLimit(limitWindow(r), m), UNCHANGED <<limit, now, arrived>>,
           LogCalls(r, m) \/ (CallsExceeded(limitWindow(r)) /\ counted' = counted)
    PROVE  /\ Arrivals' /\ Grouped'
           /\ \A n \in limit.increments : Steady(n) => \A a \in advice :
                 a.since <= now /\ ((\E e \in counted' : e.at > a.since) \/ KeepsPromise(a)')
           /\ (limit.fixed /\ limit.period > 0) =>
                 /\ \A e \in counted' : e.counter * limit.period <= e.at
                 /\ \A c \in Time : Len(stamps'[c]) > 0 => \E e \in counted' : e.counter = c
<1> DEFINE c == limitWindow(r)
           e == [request |-> r, at |-> now, counter |-> c, calls |-> m]
<1>1. /\ c \in Time /\ c \in Nat /\ limit \in Limits /\ m \in Nat /\ limit.calls \in Nat /\ limit.period \in Nat
      /\ now \in Nat /\ now \in Time /\ limit.increments \subseteq Nat /\ arrived[r] \in Nat /\ 0 \in Time
  BY WindowIsCounter, LimitFacts, TimeFacts DEF TypeOK
<1>2. e.at = now /\ e.counter = c
  OBVIOUS
<1>3. counted' = counted \/ (m # 0 /\ counted' = counted \cup {e})
  BY DEF LogCalls
<1>4. ~ CallsExceeded(c) /\ m # 0 => e \in counted'
  BY DEF LogCalls
<1>5. Arrivals'
  BY DEF RetryInv, Arrivals
<1>6. rateLimit(c, m)
  OBVIOUS
<1>7. \A n : Steady(n) => c = 0
  BY DEF limitWindow, Steady
<1>8. \A n : Steady(n)' <=> Steady(n)
  BY DEF Steady
<1>9. CASE limit.fixed /\ limit.period > 0
  <2>1. c = arrived[r] \div limit.period
    BY <1>9 DEF limitWindow
  <2> HIDE DEF c, e
  <2>2. c * limit.period <= now
    <3>1. (arrived[r] \div limit.period) * limit.period <= arrived[r]
      BY <1>1, <1>9, QuotientBounds
    <3>2. arrived[r] <= now
      BY DEF RetryInv, Arrivals
    <3>3. c * limit.period <= arrived[r]
      BY <2>1, <3>1
    <3>4. c * limit.period \in Nat
      BY <1>1
    <3> QED BY <1>1, <3>2, <3>3, <3>4
  <2>3. \A d \in counted' : d.counter * limit.period <= d.at
    <3>1. \A d \in counted : d.counter * limit.period <= d.at
      BY <1>9 DEF RetryInv, Boundaries
    <3>2. e.counter * limit.period <= e.at
      BY <1>2, <2>2
    <3> QED BY <1>3, <3>1, <3>2
  <2>4. ASSUME NEW d \in Time, Len(stamps'[d]) > 0 PROVE \E x \in counted' : x.counter = d
    <3>1. CASE Len(stamps[d]) > 0
      <4>1. \E x \in counted : x.counter = d
        BY <1>9, <3>1 DEF RetryInv, Boundaries
      <4> QED BY <1>3, <4>1
    <3>2. CASE d # c
      <4>1. stamps'[d] = stamps[d]
        BY <1>1, <1>6, <3>2, RateLimitFacts
      <4> QED BY <2>4, <3>1, <4>1
    <3>3. CASE d = c /\ (CallsExceeded(c) \/ m = 0)
      <4>1. Len(stamps'[c]) = Len(KeptCalls(c))
        <5>1. /\ CallsExceeded(c) => stamps'[c] = KeptCalls(c)
              /\ ~ CallsExceeded(c) => Len(stamps'[c]) = Len(KeptCalls(c)) + m
              /\ Len(KeptCalls(c)) \in Nat
          BY <1>1, <1>6, RateLimitFacts
        <5> QED BY <3>3, <5>1
      <4>2. Len(KeptCalls(c)) <= Len(stamps[c]) /\ Len(stamps[c]) \in Nat /\ Len(KeptCalls(c)) \in Nat
        BY <1>1, KeptAgain
      <4> QED BY <2>4, <3>1, <3>3, <4>1, <4>2
    <3>4. CASE d = c /\ ~ (CallsExceeded(c) \/ m = 0)
      BY <1>2, <1>4, <3>4
    <3> QED BY <3>2, <3>3, <3>4
  <2>5. \A n : ~ Steady(n)
    BY <1>9 DEF Steady
  <2>6. Grouped'
    BY <1>8, <2>5 DEF Grouped
  <2> QED BY <1>5, <2>3, <2>4, <2>5, <2>6
<1>10. ASSUME NEW n \in limit.increments, Steady(n)
       PROVE  /\ \A x \in Time : Len(Select(stamps'[0], {x})) = 0 \/ Len(Select(stamps'[0], {x})) >= n
              /\ \A a \in advice :
                    a.since <= now /\ ((\E d \in counted' : d.at > a.since) \/ KeepsPromise(a)')
  <2>1. c = 0 /\ n \in Nat /\ (m = 0 \/ m = n)
    BY <1>1, <1>7, <1>10 DEF Steady
  <2> HIDE DEF c, e
  <2>2. rateLimit(0, m)
    BY <1>6, <2>1
  <2>3. ASSUME NEW x \in Time
        PROVE  Len(Select(stamps'[0], {x})) = 0 \/ Len(Select(stamps'[0], {x})) >= n
    <3>1. Len(Select(stamps[0], {x})) = 0 \/ Len(Select(stamps[0], {x})) >= n
      BY <1>10 DEF RetryInv, Grouped
    <3>2. /\ Len(Select(stamps[0], {x})) \in Nat /\ Len(Select(KeptCalls(0), {x})) \in Nat
          /\ \/ Len(Select(KeptCalls(0), {x})) = 0
             \/ Len(Select(KeptCalls(0), {x})) = Len(Select(stamps[0], {x}))
      BY <1>1, KeptGroup
    <3>3. Len(Select(stamps'[0], {x})) =
            Len(Select(KeptCalls(0), {x})) + (IF ~ CallsExceeded(0) /\ now \in {x} THEN m ELSE 0)
      BY <1>1, <2>2, RateStamps
    <3> QED BY <2>1, <3>1, <3>2, <3>3
  <2>4. ASSUME NEW a \in advice
        PROVE  a.since <= now /\ ((\E d \in counted' : d.at > a.since) \/ KeepsPromise(a)')
    <3>1. a.since <= now /\ ((\E d \in counted : d.at > a.since) \/ KeepsPromise(a))
      BY <1>10 DEF RetryInv, Promised
    <3>2. CASE \E d \in counted : d.at > a.since
      BY <1>3, <3>1, <3>2
    <3>3. CASE KeepsPromise(a) /\ ~ CallsExceeded(0) /\ m # 0
      <4>1. a.since # now /\ a.since \in Nat
        BY <1>1, <3>3, TimeFacts DEF KeepsPromise, TypeOK
      <4>2. e \in counted' /\ e.at > a.since
        BY <1>1, <1>2, <1>4, <2>1, <3>1, <3>3, <4>1
      <4> QED BY <3>1, <4>2
    <3>4. CASE KeepsPromise(a) /\ (CallsExceeded(0) \/ m = 0)
      <4>1. FreshAt(a.until)' = FreshAt(a.until)
        BY DEF FreshAt
      <4>2. Len(Select(stamps'[0], FreshAt(a.until))) <= Len(Select(stamps[0], FreshAt(a.until)))
        <5>1. /\ Len(Select(KeptCalls(0), FreshAt(a.until))) \in Nat
              /\ Len(Select(stamps[0], FreshAt(a.until))) \in Nat
              /\ Len(Select(KeptCalls(0), FreshAt(a.until))) <= Len(Select(stamps[0], FreshAt(a.until)))
              /\ Len(Select(stamps'[0], FreshAt(a.until))) =
                   Len(Select(KeptCalls(0), FreshAt(a.until)))
                     + (IF ~ CallsExceeded(0) /\ now \in FreshAt(a.until) THEN m ELSE 0)
          BY <1>1, <2>2, RateStamps
        <5> QED BY <3>4, <5>1
      <4>3. Len(Select(stamps'[0], FreshAt(a.until))) < limit.calls
        <5>1. Len(Select(stamps[0], FreshAt(a.until))) < limit.calls
          BY <3>4 DEF KeepsPromise
        <5>2. Len(Select(stamps'[0], FreshAt(a.until))) \in Nat /\ Len(Select(stamps[0], FreshAt(a.until))) \in Nat
          <6>1. stamps'[0] \in Seq(Time) /\ stamps[0] \in Seq(Time)
            BY <1>1, <2>2, RateLimitFacts DEF TypeOK
          <6>2. /\ Select(stamps'[0], FreshAt(a.until)) \in Seq(Time)
                /\ Select(stamps[0], FreshAt(a.until)) \in Seq(Time)
            BY <6>1, SelectType
          <6> QED BY <6>2
        <5> QED BY <1>1, <4>2, <5>1, <5>2
      <4>4. CallsExceeded(0) => CallsExceeded(0)'
        BY <1>1, <2>2, StillExceeded
      <4>5. KeepsPromise(a)'
        BY <3>4, <4>1, <4>3, <4>4 DEF KeepsPromise
      <4> QED BY <3>1, <4>5
    <3> QED BY <3>1, <3>2, <3>3, <3>4
  <2> QED BY <2>3, <2>4
<1>11. CASE ~ (limit.fixed /\ limit.period > 0)
  <2>1. Grouped'
    BY <1>8, <1>10 DEF Grouped
  <2> QED BY <1>5, <1>10, <1>11, <2>1
<1> QED BY <1>9, <1>11

\* A refusal makes a promise that holds.
LEMMA RefusalPromises ==
    ASSUME TypeOK, CounterBounded, RetryInv, NEW r \in Requests, CallsRefuse(r)
    PROVE  RetryInv'
<1> DEFINE c == limitWindow(r)
           n0 == EntryIncrement
<1>0. PICK a : a = [since |-> arrived[r], until |-> now + RetryAfter(r)]
  OBVIOUS
<1>1. /\ c \in Time /\ c \in Nat /\ limit \in Limits /\ limit.calls \in Nat /\ limit.period \in Nat
      /\ now \in Nat /\ now \in Time /\ limit.increments \subseteq Nat /\ arrived[r] \in Nat /\ 0 \in Time
      /\ n0 \in Nat /\ n0 \in limit.increments \cup {0}
  BY WindowIsCounter, LimitFacts, TimeFacts DEF TypeOK
<1>2. /\ rateLimit(c, n0) /\ CallsExceeded(c) /\ limit.calls > 0
      /\ counted' = counted /\ advice' = advice \cup {a} /\ UNCHANGED <<limit, now, arrived>>
  BY <1>0 DEF CallsRefuse
<1>3. /\ Arrivals' /\ Grouped'
      /\ \A n \in limit.increments : Steady(n) => \A b \in advice :
            b.since <= now /\ ((\E e \in counted' : e.at > b.since) \/ KeepsPromise(b)')
      /\ (limit.fixed /\ limit.period > 0) =>
            /\ \A e \in counted' : e.counter * limit.period <= e.at
            /\ \A d \in Time : Len(stamps'[d]) > 0 => \E e \in counted' : e.counter = d
  BY <1>1, <1>2, RetryKept
<1>4. arrived[r] <= now
  BY DEF RetryInv, Arrivals
<1> DEFINE wait == IF limit.period = 0 THEN 0
                   ELSE IF limit.fixed THEN (c + 1) * limit.period - arrived[r]
                   ELSE Head(KeptCalls(c)) + limit.period - now
<1>5. RetryAfter(r) = IF wait < 1 THEN 1 ELSE wait
  BY DEF RetryAfter
<1>6. RetryAfter(r) \in Nat
  BY <1>2, RetryAfterType
<1>7. a.since = arrived[r] /\ a.until = now + RetryAfter(r) /\ a.until \in Nat
  BY <1>0, <1>1, <1>6
<1>8. \A n : Steady(n)' <=> Steady(n)
  BY <1>2 DEF Steady
<1>9. ASSUME NEW n \in limit.increments, Steady(n) PROVE KeepsPromise(a)'
  <2>1. c = 0
    BY <1>9 DEF limitWindow, Steady
  <2> DEFINE kept == KeptCalls(0)
             h == Head(kept)
  <2>2. /\ kept \in Seq(Time) /\ Len(kept) <= Len(stamps[0]) /\ Len(stamps[0]) \in Nat /\ Len(kept) \in Nat
        /\ stamps'[0] = kept
    BY <1>1, <1>2, <2>1, KeptAgain, RateLimitFacts
  <2>3. Len(kept) >= limit.calls /\ Len(kept) > 0
    BY <1>1, <1>2, <2>1, <2>2 DEF CallsExceeded
  <2>4. h \in Time /\ h \in Nat
    <3>1. h \in Time
      <4> HIDE DEF kept
      <4> QED BY <2>2, <2>3
    <3> QED BY <3>1, TimeFacts
  <2>5. wait = h + limit.period - now
    BY <1>9, <2>1 DEF Steady
  <2> HIDE DEF h, wait
  <2>6. h + limit.period <= a.until
    BY <1>1, <1>5, <1>6, <1>7, <2>4, <2>5
  <2>7. FreshAt(a.until) \cap {h} = {}
    <3>1. h \notin FreshAt(a.until)
      BY <1>1, <1>7, <1>9, <2>4, <2>6 DEF FreshAt, Steady
    <3> QED BY <3>1
  <2>8. Len(Select(kept, FreshAt(a.until))) + Len(Select(kept, {h})) <= Len(kept)
    <3> HIDE DEF kept
    <3> QED BY <2>2, <2>7, SelectDisjoint
  <2>9. Len(Select(kept, {h})) >= n
    <3>1. Len(Select(kept, {h})) >= 1
      <4> HIDE DEF kept
      <4> QED BY <2>2, <2>3, HeadSelected DEF h
    <3>2. /\ Len(Select(kept, {h})) \in Nat
          /\ Len(Select(kept, {h})) = 0 \/ Len(Select(kept, {h})) = Len(Select(stamps[0], {h}))
      BY <1>1, KeptGroup
    <3>3. Len(Select(stamps[0], {h})) = 0 \/ Len(Select(stamps[0], {h})) >= n
      BY <1>9, <2>4 DEF RetryInv, Grouped
    <3> HIDE DEF kept
    <3> QED BY <3>1, <3>2, <3>3
  <2>10. n \in Nat /\ Len(stamps[0]) < limit.calls + n
    <3>1. PICK m \in limit.increments : Len(stamps[0]) < limit.calls + m
      BY <1>1, <1>2 DEF CounterBounded
    <3>2. m = 0 \/ m = n
      BY <1>9 DEF Steady
    <3>3. m \in Nat /\ n \in Nat
      BY <1>1
    <3> QED BY <1>1, <2>2, <3>1, <3>2, <3>3
  <2>11. Len(Select(kept, FreshAt(a.until))) < limit.calls
    <3>1. Len(Select(kept, FreshAt(a.until))) \in Nat /\ Len(Select(kept, {h})) \in Nat
      <4>1. Select(kept, FreshAt(a.until)) \in Seq(Time) /\ Select(kept, {h}) \in Seq(Time)
        <5> HIDE DEF kept
        <5> QED BY <2>2, SelectType
      <4> QED BY <4>1
    <3> HIDE DEF kept
    <3> QED BY <1>1, <2>2, <2>8, <2>9, <2>10, <3>1
  <2>12. CallsExceeded(0)'
    BY <1>1, <1>2, <2>1, StillExceeded
  <2>13. \A t : FreshAt(t)' = FreshAt(t)
    BY <1>2 DEF FreshAt
  <2> QED BY <1>2, <2>2, <2>11, <2>12, <2>13 DEF KeepsPromise
<1>10. Promised'
  <2>1. ASSUME NEW n \in limit.increments, Steady(n), NEW b \in advice'
        PROVE  b.since <= now /\ ((\E e \in counted' : e.at > b.since) \/ KeepsPromise(b)')
    <3>1. CASE b \in advice
      BY <1>3, <2>1, <3>1
    <3>2. CASE b = a
      BY <1>4, <1>7, <1>9, <2>1, <3>2
    <3> QED BY <1>2, <2>1, <3>1, <3>2
  <2> QED BY <1>2, <1>8, <2>1 DEF Promised
<1>11. Boundaries'
  <2>1. CASE ~ (limit.fixed /\ limit.period > 0)
    BY <1>2, <2>1 DEF Boundaries
  <2>2. CASE limit.fixed /\ limit.period > 0
    <3>1. c = a.since \div limit.period
      BY <1>7, <2>2 DEF limitWindow
    <3>2. wait = (c + 1) * limit.period - arrived[r]
      BY <2>2, <1>1
    <3>3. (c + 1) * limit.period \in Nat
      BY <1>1
    <3> HIDE DEF c, wait
    <3>4. (c + 1) * limit.period <= a.until
      BY <1>1, <1>4, <1>5, <1>7, <3>2, <3>3
    <3>5. (a.since \div limit.period + 1) * limit.period <= a.until
      BY <3>1, <3>4
    <3>6. \A b \in advice : (b.since \div limit.period + 1) * limit.period <= b.until
      BY <2>2 DEF RetryInv, Boundaries
    <3>7. \A b \in advice' : (b.since \div limit.period + 1) * limit.period <= b.until
      BY <1>2, <3>5, <3>6
    <3> QED BY <1>2, <1>3, <2>2, <3>7 DEF Boundaries
  <2> QED BY <2>1, <2>2
<1> QED BY <1>3, <1>10, <1>11 DEF RetryInv

LEMMA RetryInit == Init => RetryInv
<1> SUFFICES ASSUME Init PROVE RetryInv
  OBVIOUS
<1>1. /\ counted = {} /\ advice = {} /\ now = 0 /\ stamps = [c \in Time |-> <<>>] /\ 0 \in Time
      /\ \A r \in Requests : arrived[r] = 0
  BY TimeFacts DEF Init
<1>2. \A c \in Time : stamps[c] = <<>> /\ Len(<<>>) = 0
  BY <1>1
<1>3. \A x : Len(Select(stamps[0], {x})) = 0
  BY <1>1, <1>2, SelectEmpty
<1>4. Arrivals
  BY <1>1 DEF Arrivals
<1>5. Grouped
  BY <1>3 DEF Grouped
<1>6. Promised /\ Boundaries
  BY <1>1, <1>2 DEF Promised, Boundaries
<1> QED BY <1>4, <1>5, <1>6 DEF RetryInv

LEMMA RetryStep == LimitInv /\ RetryInv /\ [Next]_vars => RetryInv'
<1> SUFFICES ASSUME TypeOK, CounterBounded, RetryInv, [Next]_vars PROVE RetryInv'
  BY DEF LimitInv, CallsInv
<1>1. /\ now \in Nat /\ limit.calls \in Nat /\ EntryIncrement \in limit.increments \cup {0}
      /\ \A r \in Requests : arrived[r] \in Nat
      /\ \A a \in advice : a.since \in Nat
  BY LimitFacts, TimeFacts DEF TypeOK
\* Steps that leave the counters, their histories and the clock alone.
<1>2. ASSUME UNCHANGED <<limit, now, stamps, counted, advice>>, Arrivals' PROVE RetryInv'
  <2>1. (\A t : FreshAt(t)' = FreshAt(t)) /\ Fresh' = Fresh /\ \A n : Steady(n)' <=> Steady(n)
    BY <1>2 DEF FreshAt, Fresh, Steady
  <2>2. Grouped'
    BY <1>2, <2>1 DEF RetryInv, Grouped
  <2>3. Promised'
    <3>1. CallsExceeded(0)' <=> CallsExceeded(0)
      BY <1>2, <2>1 DEF CallsExceeded, KeptCalls
    <3>2. \A a : KeepsPromise(a) => KeepsPromise(a)'
      BY <1>2, <2>1, <3>1 DEF KeepsPromise
    <3> QED BY <1>2, <2>1, <3>2 DEF RetryInv, Promised
  <2>4. Boundaries'
    BY <1>2 DEF RetryInv, Boundaries
  <2> QED BY <1>2, <2>2, <2>3, <2>4 DEF RetryInv
<1>3. arrived' = arrived /\ now' = now => Arrivals'
  BY DEF RetryInv, Arrivals
<1>4. CASE UNCHANGED vars
  BY <1>2, <1>3, <1>4 DEF vars
<1>5. CASE Tick
  <2>1. now' = now + 1 /\ UNCHANGED <<limit, arrived, stamps, counted, advice>>
    BY <1>5 DEF Tick
  <2>2. (\A t : FreshAt(t)' = FreshAt(t)) /\ \A n : Steady(n)' <=> Steady(n)
    BY <2>1 DEF FreshAt, Steady
  <2>3. Arrivals'
    BY <1>1, <2>1 DEF RetryInv, Arrivals
  <2>4. Grouped' /\ Boundaries'
    BY <2>1, <2>2 DEF RetryInv, Grouped, Boundaries
  <2>5. Promised'
    <3>1. ASSUME NEW n \in limit.increments, Steady(n), NEW a \in advice
          PROVE  a.since <= now' /\ ((\E e \in counted : e.at > a.since) \/ KeepsPromise(a)')
      <4>1. a.since <= now /\ ((\E e \in counted : e.at > a.since) \/ KeepsPromise(a))
        BY <3>1 DEF RetryInv, Promised
      <4>2. a.since <= now' /\ a.since # now'
        BY <1>1, <2>1, <4>1
      <4>3. KeepsPromise(a) => KeepsPromise(a)'
        BY <2>1, <2>2, <4>2 DEF KeepsPromise
      <4> QED BY <4>1, <4>2, <4>3
    <3> QED BY <2>1, <2>2, <3>1 DEF Promised
  <2> QED BY <2>3, <2>4, <2>5 DEF RetryInv
<1>6. ASSUME NEW r \in Requests, Arrive(r) PROVE RetryInv'
  <2>1. Arrivals'
    BY <1>1, <1>6 DEF Arrive, RetryInv, Arrivals, TypeOK
  <2> QED BY <1>2, <1>6, <2>1 DEF Arrive
\* Steps that count calls.
<1>7. ASSUME NEW r \in Requests, NEW m \in limit.increments \cup {0}, limit.calls > 0,
             rateLimit(limitWindow(r), m), LogCalls(r, m), UNCHANGED <<limit, now, arrived, advice>>
      PROVE  RetryInv'
  <2>1. /\ Arrivals' /\ Grouped'
        /\ \A n \in limit.increments : Steady(n) => \A a \in advice :
              a.since <= now /\ ((\E e \in counted' : e.at > a.since) \/ KeepsPromise(a)')
        /\ (limit.fixed /\ limit.period > 0) =>
              /\ \A e \in counted' : e.counter * limit.period <= e.at
              /\ \A c \in Time : Len(stamps'[c]) > 0 => \E e \in counted' : e.counter = c
    BY <1>7, RetryKept
  <2>2. \A n : Steady(n)' <=> Steady(n)
    BY <1>7 DEF Steady
  <2>3. Promised'
    BY <1>7, <2>1, <2>2 DEF Promised
  <2>4. Boundaries'
    BY <1>7, <2>1 DEF RetryInv, Boundaries
  <2> QED BY <2>1, <2>3, <2>4 DEF RetryInv
<1>8. ASSUME NEW r \in Requests, CallsPass(r) PROVE RetryInv'
  <2>1. CASE limit.calls = 0
    BY <1>2, <1>3, <1>8, <2>1 DEF CallsPass
  <2>2. CASE limit.calls > 0
    BY <1>1, <1>7, <1>8, <2>2 DEF CallsPass
  <2> QED BY <1>1, <2>1, <2>2
<1>9. ASSUME NEW r \in Requests, SettleCalls(r) PROVE RetryInv'
  <2>1. CASE limit.calls = 0
    BY <1>2, <1>3, <1>9, <2>1 DEF SettleCalls
  <2>2. CASE limit.calls > 0
    BY <1>7, <1>9, <2>2 DEF SettleCalls
  <2> QED BY <1>1, <2>1, <2>2
<1>10. ASSUME NEW r \in Requests, CallsRefuse(r) PROVE RetryInv'
  BY <1>10, RefusalPromises
<1>11. ASSUME NEW r \in Requests,
              BandwidthPass(r) \/ BandwidthRefuse(r) \/ Settle(r) \/ SettleNothing(r) \/ SettleBytes(r)
       PROVE  RetryInv'
  BY <1>2, <1>3, <1>11 DEF BandwidthPass, BandwidthRefuse, Settle, SettleNothing, SettleBytes
<1> QED BY <1>4, <1>5, <1>6, <1>8, <1>9, <1>10, <1>11 DEF Next, Serve

\* Only the calls budget refuses a request that is at it.
LEMMA WhoRefuses ==
    ASSUME TypeOK, [Next]_vars, NEW r \in Requests, step[r] = "calls", step'[r] = "refused"
    PROVE  CallsRefuse(r)
<1>1. ~ UNCHANGED vars /\ ~ Tick
  BY DEF vars, Tick
<1>2. ASSUME NEW q \in Requests, Serve(q), q # r PROVE FALSE
  <2>1. step'[r] = step[r]
    BY <1>2 DEF Serve, Arrive, CallsPass, CallsRefuse, BandwidthPass, BandwidthRefuse, Settle,
                SettleNothing, SettleCalls, SettleBytes, TypeOK
  <2> QED BY <2>1
<1>3. Serve(r)
  BY <1>1, <1>2 DEF Next
<1>4. ~ Arrive(r) /\ ~ CallsPass(r)
  BY DEF Arrive, CallsPass, TypeOK
<1>5. /\ ~ BandwidthPass(r) /\ ~ BandwidthRefuse(r) /\ ~ Settle(r) /\ ~ SettleNothing(r)
      /\ ~ SettleCalls(r) /\ ~ SettleBytes(r)
  BY DEF BandwidthPass, BandwidthRefuse, Settle, SettleNothing, SettleCalls, SettleBytes
<1> QED BY <1>3, <1>4, <1>5 DEF Serve

\* A caller that waits for the Retry-After of executeLimit is refused again
\* only if something was counted since it was refused, for any limit with a
\* period and increments that do not vary, and for any fixed window.
THEOREM WaitingSuffices == Spec => RetryAfterSuffices
<1>1. LimitInv /\ RetryInv /\ [Next]_vars =>
        [\A r \in Requests :
           (/\ step[r] = "calls" /\ step'[r] = "refused" /\ limit.period > 0
            /\ limit.fixed \/ \E n \in limit.increments : limit.increments \subseteq {0, n}) =>
               \A a \in advice :
                   arrived[r] < a.until \/ \E e \in counted : e.at > a.since]_vars
  <2> SUFFICES ASSUME TypeOK, RetryInv, [Next]_vars, NEW r \in Requests, step[r] = "calls",
                      step'[r] = "refused", limit.period > 0, NEW a \in advice,
                      limit.fixed \/ \E n \in limit.increments : limit.increments \subseteq {0, n},
                      ~ (arrived[r] < a.until)
               PROVE  \E e \in counted : e.at > a.since
    BY DEF LimitInv
  <2> DEFINE c == limitWindow(r)
  <2>1. CallsExceeded(c) /\ limit.calls > 0
    BY WhoRefuses DEF CallsRefuse
  <2>2. /\ c \in Time /\ c \in Nat /\ limit \in Limits /\ limit.calls \in Nat /\ limit.period \in Nat
        /\ now \in Nat /\ arrived[r] \in Nat /\ a.since \in Nat /\ a.until \in Nat /\ 0 \in Time
    BY WindowIsCounter, LimitFacts, TimeFacts DEF TypeOK
  <2>3. arrived[r] >= a.until /\ arrived[r] <= now
    BY <2>2 DEF RetryInv, Arrivals
  <2>4. CASE limit.fixed
    <3>1. PICK e \in counted : e.counter = c
      <4>1. Len(KeptCalls(c)) > 0 /\ Len(KeptCalls(c)) <= Len(stamps[c]) /\ Len(stamps[c]) \in Nat
        <5>1. KeptCalls(c) \in Seq(Time) /\ Len(KeptCalls(c)) <= Len(stamps[c]) /\ Len(stamps[c]) \in Nat
          BY <2>2, KeptAgain
        <5>2. Len(KeptCalls(c)) \in Nat
          BY <5>1
        <5> QED BY <2>1, <2>2, <5>1, <5>2 DEF CallsExceeded
      <4>2. KeptCalls(c) \in Seq(Time)
        BY <2>2, KeptAgain
      <4>3. Len(stamps[c]) > 0
        BY <4>1, <4>2
      <4> QED BY <2>2, <2>4, <4>3 DEF RetryInv, Boundaries
    <3>2. /\ e.counter * limit.period <= e.at
          /\ (a.since \div limit.period + 1) * limit.period <= a.until
      BY <2>4 DEF RetryInv, Boundaries
    <3>3. c = arrived[r] \div limit.period
      BY <2>4 DEF limitWindow
    <3> HIDE DEF c
    <3> DEFINE k == a.since \div limit.period + 1
    <3>4. a.since < k * limit.period /\ k \in Nat
      BY <2>2, QuotientBounds
    <3>5. arrived[r] < (c + 1) * limit.period
      BY <2>2, <3>3, QuotientBounds
    <3>6. k * limit.period \in Nat /\ (c + 1) * limit.period \in Nat /\ c * limit.period \in Nat
      BY <2>2, <3>4
    <3>7. k * limit.period <= a.until
      BY <3>2
    <3> HIDE DEF k
    <3>8. k * limit.period < (c + 1) * limit.period
      BY <2>2, <2>3, <3>5, <3>6, <3>7
    <3>9. k <= c
      <4>1. k < c + 1
        BY <2>2, <3>4, <3>8, TimesOrder
      <4> QED BY <2>2, <3>4, <4>1
    <3>10. k * limit.period <= c * limit.period
      BY <2>2, <3>4, <3>9, TimesOrder
    <3>11. e.at \in Nat /\ c * limit.period <= e.at
      BY <3>1, <3>2, TimeFacts DEF TypeOK, CallEntry
    <3>12. e.at > a.since
      BY <2>2, <3>4, <3>6, <3>10, <3>11
    <3> QED BY <3>1, <3>12
  <2>5. CASE ~ limit.fixed
    <3>1. PICK n \in limit.increments : Steady(n)
      BY <2>1, <2>5 DEF Steady
    <3>2. (\E e \in counted : e.at > a.since) \/ KeepsPromise(a)
      BY <3>1 DEF RetryInv, Promised
    <3>3. c = 0
      BY <2>5 DEF limitWindow
    <3>4. ~ KeepsPromise(a)
      <4>1. Fresh \subseteq FreshAt(a.until)
        BY <2>2, <2>3, FreshFacts DEF Fresh
      <4>2. stamps[0] \in Seq(Time)
        BY <2>2 DEF TypeOK
      <4>3. Len(Select(stamps[0], Fresh)) <= Len(Select(stamps[0], FreshAt(a.until)))
        BY <4>1, <4>2, SelectNarrower
      <4>4. Len(Select(stamps[0], Fresh)) >= limit.calls
        BY <2>1, <3>3 DEF CallsExceeded, KeptCalls
      <4>5. Select(stamps[0], Fresh) \in Seq(Time) /\ Select(stamps[0], FreshAt(a.until)) \in Seq(Time)
        BY <4>2, SelectType
      <4>6. Len(Select(stamps[0], Fresh)) \in Nat /\ Len(Select(stamps[0], FreshAt(a.until))) \in Nat
        BY <4>5
      <4> QED BY <2>2, <4>3, <4>4, <4>6 DEF KeepsPromise
    <3> QED BY <3>2, <3>4
  <2> QED BY <2>2, <2>4, <2>5
<1>2. Spec => [](LimitInv /\ RetryInv)
  BY LimitInit, LimitStep, RetryInit, RetryStep, PTL DEF Spec
<1> QED BY <1>1, <1>2, PTL DEF Spec, RetryAfterSuffices

(***************************************************************************)
(* Refusals.                                                               *)
(*                                                                         *)
(* A counter never weighs more than the history says was to be counted in  *)
(* it (StampsAtMostCalls), for postponed increments too: those are dropped *)
(* when the counter is full, never added twice, because a request is in    *)
(* the log once (CountedOnce).                                             *)
(***************************************************************************)
\* Where a request is once it is in the log.
LoggedAt == IF limit.deferred THEN {"settleBytes", "done"} ELSE Steps \ {"new", "calls"}

CountedOnce == \A e \in counted : step[e.request] \in LoggedAt

StampsAtMostCalls ==
    limit.calls > 0 =>
        \A c \in Time, t \in Nat : t >= now =>
            Len(Select(stamps[c], FreshAt(t))) <= CallsIn(Entries(counted, c, t))

SpentInv == CountedOnce /\ StampsAtMostCalls

\* A call of rateLimit whose increment is in the log, whether or not the
\* counter took it.
LEMMA SpentGain ==
    ASSUME TypeOK, Logs, StampsAtMostCalls, limit.calls > 0, NEW c \in Time, NEW n \in Nat,
           rateLimit(c, n), UNCHANGED <<limit, now>>,
           NEW e, e.at = now, e.counter = c, e.calls = n, e \notin counted,
           \/ counted' = counted /\ (n = 0 \/ CallsExceeded(c))
           \/ counted' = counted \cup {e}
    PROVE  StampsAtMostCalls'
<1>1. /\ now \in Time /\ now \in Nat /\ stamps \in [Time -> Seq(Time)] /\ limit \in Limits
      /\ counted \subseteq CallEntry /\ IsFiniteSet(counted)
  BY TimeFacts DEF TypeOK, Logs
<1>2. /\ KeptCalls(c) \in Seq(Time)
      /\ stamps' \in [Time -> Seq(Time)] /\ \A d \in Time \ {c} : stamps'[d] = stamps[d]
      /\ CallsExceeded(c) => stamps'[c] = KeptCalls(c)
      /\ ~ CallsExceeded(c) => stamps'[c] = KeptCalls(c) \o [i \in 1..n |-> now]
  BY RateLimitFacts
<1>3. ASSUME NEW d \in Time, NEW t \in Nat, t >= now
      PROVE  Len(Select(stamps'[d], FreshAt(t))) <= CallsIn(Entries(counted', d, t))
  <2> DEFINE old == Entries(counted, d, t)
             gain == IF d = c /\ now \in FreshAt(t) THEN n ELSE 0
  <2>1. /\ IsFiniteSet(old) /\ e \notin old /\ \A x \in old : x.calls \in Nat
    BY <1>1, EntriesFinite DEF CallEntry
  <2>2. CallsIn(old) \in Nat
    <3> HIDE DEF old
    <3> QED BY <2>1, CallsInFacts
  <2>3. Len(Select(stamps[d], FreshAt(t))) <= CallsIn(old)
    BY <1>3 DEF StampsAtMostCalls
  <2>4. CallsIn(Entries(counted \cup {e}, d, t)) = CallsIn(old) + gain
    <3>1. Entries(counted \cup {e}, d, t) = IF d = c /\ now \in FreshAt(t) THEN old \cup {e} ELSE old
      BY DEF Entries
    <3>2. CallsIn(old \cup {e}) = CallsIn(old) + n
      <4> HIDE DEF old
      <4> QED BY <2>1, CallsGain
    <3> HIDE DEF old
    <3> QED BY <2>2, <3>1, <3>2
  <2>5. Select(KeptCalls(c), FreshAt(t)) = Select(stamps[c], FreshAt(t))
    <3>1. FreshAt(t) \subseteq Fresh
      BY <1>1, <1>3, FreshFacts DEF Fresh
    <3>2. stamps[c] \in Seq(Time)
      BY <1>1
    <3> QED BY <3>1, <3>2, SelectTwice DEF KeptCalls
  <2>6. Len(Select(stamps[d], FreshAt(t))) \in Nat
    <3>1. stamps[d] \in Seq(Time)
      BY <1>1
    <3>2. Select(stamps[d], FreshAt(t)) \in Seq(Time)
      BY <3>1, SelectType
    <3> QED BY <3>2
  <2>7. CASE d # c \/ CallsExceeded(c)
    <3>1. Len(Select(stamps'[d], FreshAt(t))) = Len(Select(stamps[d], FreshAt(t)))
      BY <1>2, <2>5, <2>7
    <3>2. CASE counted' = counted
      BY <2>3, <3>1, <3>2
    <3>3. CASE counted' = counted \cup {e}
      <4>1. CallsIn(Entries(counted', d, t)) = CallsIn(old) + gain /\ gain \in Nat
        BY <2>4, <3>3
      <4> HIDE DEF old, gain
      <4> QED BY <2>2, <2>3, <2>6, <3>1, <4>1
    <3> QED BY <3>2, <3>3
  <2>8. CASE d = c /\ ~ CallsExceeded(c)
    <3>1. Len(Select(stamps'[c], FreshAt(t))) =
            Len(Select(stamps[c], FreshAt(t))) + (IF now \in FreshAt(t) THEN n ELSE 0)
      <4>1. Len(Select(KeptCalls(c) \o [i \in 1..n |-> now], FreshAt(t))) =
              Len(Select(KeptCalls(c), FreshAt(t))) + (IF now \in FreshAt(t) THEN n ELSE 0)
        <5> HIDE DEF KeptCalls
        <5>1. ASSUME NEW s \in Seq(Time), NEW x \in Time, NEW m \in Nat
              PROVE  Len(Select(s \o [i \in 1..m |-> x], FreshAt(t))) =
                       Len(Select(s, FreshAt(t))) + (IF x \in FreshAt(t) THEN m ELSE 0)
          BY SelectRepeated
        <5> QED BY <1>1, <1>2, <5>1
      <4> QED BY <1>2, <2>5, <2>8, <4>1
    <3>2. Len(Select(stamps'[d], FreshAt(t))) = Len(Select(stamps[d], FreshAt(t))) + gain
      BY <2>8, <3>1
    <3>3. CASE counted' = counted \cup {e}
      <4>1. CallsIn(Entries(counted', d, t)) = CallsIn(old) + gain /\ gain \in Nat
        BY <2>4, <3>3
      <4> HIDE DEF old, gain
      <4> QED BY <2>2, <2>3, <2>6, <3>2, <4>1
    <3>4. CASE counted' = counted
      <4>1. gain = 0
        BY <2>8, <3>4
      <4> HIDE DEF gain
      <4> QED BY <2>3, <2>6, <3>2, <3>4, <4>1
    <3> QED BY <3>3, <3>4
  <2> QED BY <2>7, <2>8
<1>4. \A t : FreshAt(t)' = FreshAt(t)
  BY DEF FreshAt
<1>5. \A d, t : Entries(counted, d, t)' = Entries(counted', d, t)
  BY <1>4 DEF Entries
<1> QED BY <1>3, <1>4, <1>5 DEF StampsAtMostCalls

\* Where no call is counted, the passage of time takes weight only.
LEMMA SpentFrame ==
    ASSUME StampsAtMostCalls, UNCHANGED <<limit, stamps, counted>>, now \in Nat, now' \in Nat, now' >= now
    PROVE  StampsAtMostCalls'
<1>1. \A t \in Nat : t >= now' => t >= now
  OBVIOUS
<1>2. \A t : FreshAt(t)' = FreshAt(t)
  BY DEF FreshAt
<1>3. \A d, t : Entries(counted, d, t)' = Entries(counted, d, t)
  BY <1>2 DEF Entries
<1> QED BY <1>1, <1>2, <1>3 DEF StampsAtMostCalls

LEMMA SpentInit == Init => SpentInv
<1> SUFFICES ASSUME Init PROVE SpentInv
  OBVIOUS
<1>1. counted = {} /\ stamps = [c \in Time |-> <<>>]
  BY DEF Init
<1>2. CallsIn({}) = 0 /\ Len(<<>>) = 0 /\ \A c, t : Entries({}, c, t) = {}
  BY FS_EmptySet, SumType DEF CallsIn, Entries
<1>3. \A c \in Time, t \in Nat : Len(Select(stamps[c], FreshAt(t))) = 0
  BY <1>1, <1>2, SelectEmpty
<1>4. \A c \in Time, t \in Nat : CallsIn(Entries(counted, c, t)) = 0
  BY <1>1, <1>2
<1>5. StampsAtMostCalls
  BY <1>3, <1>4 DEF StampsAtMostCalls
<1>6. CountedOnce
  BY <1>1 DEF CountedOnce
<1> QED BY <1>5, <1>6 DEF SpentInv

\* A request that moves on after it was logged, or is logged on its way, is
\* logged at its new step.
LEMMA CountedStep ==
    ASSUME TypeOK, CountedOnce, NEW r \in Requests, NEW s, step' = [step EXCEPT ![r] = s],
           limit' = limit, step[r] \in LoggedAt => s \in LoggedAt,
           NEW x, x.request = r, counted' = counted \/ (counted' = counted \cup {x} /\ s \in LoggedAt)
    PROVE  CountedOnce'
<1>1. LoggedAt' = LoggedAt
  BY DEF LoggedAt
<1>2. step'[r] = s /\ \A q \in Requests \ {r} : step'[q] = step[q]
  BY DEF TypeOK
<1>3. ASSUME NEW e \in counted PROVE step'[e.request] \in LoggedAt
  <2>1. e.request \in Requests /\ step[e.request] \in LoggedAt
    BY DEF TypeOK, CallEntry, CountedOnce
  <2>2. CASE e.request = r
    <3>1. step'[e.request] = s /\ step[r] \in LoggedAt
      BY <1>2, <2>1, <2>2
    <3> QED BY <3>1
  <2>3. CASE e.request # r
    BY <1>2, <2>1, <2>3
  <2> QED BY <2>2, <2>3
<1>4. ASSUME NEW e \in counted' PROVE step'[e.request] \in LoggedAt
  <2>1. CASE e \in counted
    BY <1>3, <2>1
  <2>2. CASE e \notin counted
    <3>1. e = x /\ s \in LoggedAt
      BY <2>2
    <3> QED BY <1>2, <3>1
  <2> QED BY <2>1, <2>2
<1> QED BY <1>1, <1>4 DEF CountedOnce

LEMMA SpentStep == LimitInv /\ SpentInv /\ [Next]_vars => SpentInv'
<1> SUFFICES ASSUME TypeOK, Logs, SpentInv, [Next]_vars PROVE SpentInv'
  BY DEF LimitInv
<1>1. /\ now \in Nat /\ limit \in Limits /\ limit.calls \in Nat /\ limit.deferred \in BOOLEAN
      /\ EntryIncrement \in Nat
      /\ limit.deferred => EntryIncrement = 0
      /\ limit.increments \subseteq Nat
  BY LimitFacts, TimeFacts DEF TypeOK
<1>2. CountedOnce /\ StampsAtMostCalls
  BY DEF SpentInv
\* Steps of a request that count nothing.
<1>3. ASSUME NEW r \in Requests, NEW s, step' = [step EXCEPT ![r] = s],
             step[r] \in LoggedAt => s \in LoggedAt, UNCHANGED <<limit, now, stamps, counted>>
      PROVE  SpentInv'
  <2> DEFINE x == [request |-> r]
  <2>1. x.request = r
    OBVIOUS
  <2> HIDE DEF x
  <2>2. CountedOnce'
    BY <1>2, <1>3, <2>1, CountedStep
  <2>3. now' >= now
    BY <1>1, <1>3
  <2>4. StampsAtMostCalls'
    BY <1>1, <1>2, <1>3, <2>3, SpentFrame
  <2> QED BY <2>2, <2>4 DEF SpentInv
\* Steps of a request that ask the calls budget.
<1>4. ASSUME NEW r \in Requests, NEW s, step' = [step EXCEPT ![r] = s], NEW n \in Nat, limit.calls > 0,
             step[r] \notin LoggedAt, n # 0 => s \in LoggedAt, rateLimit(limitWindow(r), n),
             UNCHANGED <<limit, now>>,
             LogCalls(r, n) \/ (CallsExceeded(limitWindow(r)) /\ counted' = counted)
      PROVE  SpentInv'
  <2> DEFINE e == [request |-> r, at |-> now, counter |-> limitWindow(r), calls |-> n]
  <2>1. e.request = r /\ e.at = now /\ e.counter = limitWindow(r) /\ e.calls = n
    OBVIOUS
  <2>2. \/ counted' = counted /\ (n = 0 \/ CallsExceeded(limitWindow(r)))
        \/ counted' = counted \cup {e} /\ n # 0
    BY <1>4 DEF LogCalls
  <2> HIDE DEF e
  <2>3. e \notin counted
    BY <1>2, <1>4, <2>1 DEF CountedOnce
  <2>4. limitWindow(r) \in Time
    BY WindowIsCounter
  <2>5. StampsAtMostCalls'
    BY <1>2, <1>4, <2>1, <2>2, <2>3, <2>4, SpentGain
  <2>6. CountedOnce'
    <3>1. counted' = counted \/ (counted' = counted \cup {e} /\ s \in LoggedAt)
      BY <1>4, <2>2
    <3> QED BY <1>2, <1>4, <2>1, <3>1, CountedStep
  <2> QED BY <2>5, <2>6 DEF SpentInv
<1>5. CASE UNCHANGED vars
  <2>1. CountedOnce'
    BY <1>2, <1>5 DEF vars, CountedOnce, LoggedAt
  <2>2. now' >= now /\ UNCHANGED <<limit, now, stamps, counted>>
    BY <1>1, <1>5 DEF vars
  <2> QED BY <1>1, <1>2, <2>1, <2>2, SpentFrame DEF SpentInv
<1>6. CASE Tick
  <2>1. UNCHANGED <<limit, step, stamps, counted>> /\ now' \in Nat /\ now' >= now
    BY <1>1, <1>6 DEF Tick
  <2>2. CountedOnce'
    BY <1>2, <2>1 DEF CountedOnce, LoggedAt
  <2> QED BY <1>1, <1>2, <2>1, <2>2, SpentFrame DEF SpentInv
<1>7. /\ "new" \notin LoggedAt /\ "calls" \notin LoggedAt
      /\ limit.deferred => "settleCalls" \notin LoggedAt
      /\ limit.deferred => LoggedAt = {"settleBytes", "done"}
      /\ ~ limit.deferred => {"bandwidth", "forward", "refused", "settleBytes", "done"} \subseteq LoggedAt
      /\ "done" \in LoggedAt /\ "settleBytes" \in LoggedAt
  BY DEF LoggedAt, Steps
<1>a. ASSUME EntryIncrement # 0 PROVE "bandwidth" \in LoggedAt /\ "refused" \in LoggedAt
  <2>1. ~ limit.deferred
    BY <1>1, <1>a
  <2> QED BY <1>7, <2>1
<1>8. ASSUME NEW r \in Requests, Arrive(r) PROVE SpentInv'
  BY <1>3, <1>7, <1>8 DEF Arrive
<1>9. ASSUME NEW r \in Requests, CallsPass(r) PROVE SpentInv'
  <2>0. /\ step[r] = "calls" /\ step' = [step EXCEPT ![r] = "bandwidth"] /\ UNCHANGED <<limit, now>>
        /\ step[r] \notin LoggedAt
    BY <1>7, <1>9 DEF CallsPass
  <2>1. CASE limit.calls = 0
    <3>1. UNCHANGED <<stamps, counted>>
      BY <1>9, <2>1 DEF CallsPass
    <3> QED BY <1>3, <2>0, <3>1
  <2>2. CASE limit.calls > 0
    <3>1. rateLimit(limitWindow(r), EntryIncrement) /\ LogCalls(r, EntryIncrement)
      BY <1>9, <2>2 DEF CallsPass
    <3> DEFINE s == "bandwidth"
               n == EntryIncrement
    <3>3. n \in Nat /\ step' = [step EXCEPT ![r] = s] /\ (n # 0 => s \in LoggedAt)
      BY <1>1, <1>a, <2>0
    <3>4. rateLimit(limitWindow(r), n) /\ LogCalls(r, n)
      BY <3>1
    <3> HIDE DEF s, n
    <3> QED BY <1>4, <2>0, <2>2, <3>3, <3>4
  <2> QED BY <1>1, <2>1, <2>2
<1>10. ASSUME NEW r \in Requests, CallsRefuse(r) PROVE SpentInv'
  <2>1. /\ step[r] = "calls" /\ step' = [step EXCEPT ![r] = "refused"] /\ UNCHANGED <<limit, now>>
        /\ step[r] \notin LoggedAt /\ limit.calls > 0 /\ rateLimit(limitWindow(r), EntryIncrement)
        /\ CallsExceeded(limitWindow(r)) /\ counted' = counted
    BY <1>7, <1>10 DEF CallsRefuse
  <2> DEFINE s == "refused"
             n == EntryIncrement
  <2>2. n \in Nat /\ step' = [step EXCEPT ![r] = s] /\ (n # 0 => s \in LoggedAt)
    BY <1>1, <1>a, <2>1
  <2>3. rateLimit(limitWindow(r), n)
    BY <2>1
  <2> HIDE DEF s, n
  <2> QED BY <1>4, <2>1, <2>2, <2>3
<1>11. ASSUME NEW r \in Requests, SettleCalls(r) PROVE SpentInv'
  <2>1. limit.deferred
    BY <1>1, <1>11 DEF SettleCalls, Logs
  <2>2. /\ step[r] = "settleCalls" /\ step' = [step EXCEPT ![r] = "settleBytes"]
        /\ UNCHANGED <<limit, now>> /\ step[r] \notin LoggedAt
    BY <1>7, <1>11, <2>1 DEF SettleCalls
  <2>3. CASE limit.calls = 0
    <3>1. UNCHANGED <<stamps, counted>>
      BY <1>11, <2>3 DEF SettleCalls
    <3> QED BY <1>3, <2>2, <3>1
  <2>4. CASE limit.calls > 0
    <3>1. PICK n \in limit.increments : rateLimit(limitWindow(r), n) /\ LogCalls(r, n)
      BY <1>11, <2>4 DEF SettleCalls
    <3>2. n \in Nat
      BY <1>1
    <3> DEFINE s == "settleBytes"
    <3>3. step' = [step EXCEPT ![r] = s] /\ s \in LoggedAt
      BY <1>7, <2>2
    <3> HIDE DEF s
    <3> QED BY <1>4, <2>2, <2>4, <3>1, <3>2, <3>3
  <2> QED BY <1>1, <2>3, <2>4
<1>12. ASSUME NEW r \in Requests, BandwidthPass(r) \/ BandwidthRefuse(r) PROVE SpentInv'
  <2>1. PICK s \in {"forward", "refused"} : step' = [step EXCEPT ![r] = s]
    BY <1>12 DEF BandwidthPass, BandwidthRefuse
  <2>2. step[r] = "bandwidth" /\ UNCHANGED <<limit, now, stamps, counted>>
    BY <1>12 DEF BandwidthPass, BandwidthRefuse
  <2>3. step[r] \in LoggedAt => s \in LoggedAt
    BY <1>1, <1>7, <2>2
  <2> QED BY <1>3, <2>1, <2>2, <2>3
<1>13. ASSUME NEW r \in Requests, Settle(r) PROVE SpentInv'
  <2> DEFINE s == IF limit.deferred THEN "settleCalls" ELSE "done"
  <2>1. /\ step' = [step EXCEPT ![r] = s] /\ step[r] \in {"forward", "refused"}
        /\ UNCHANGED <<limit, now, stamps, counted>>
    BY <1>13 DEF Settle
  <2>2. step[r] \in LoggedAt => s \in LoggedAt
    BY <1>1, <1>7, <2>1
  <2> HIDE DEF s
  <2> QED BY <1>3, <2>1, <2>2
<1>14. ASSUME NEW r \in Requests, SettleNothing(r) \/ SettleBytes(r) PROVE SpentInv'
  BY <1>3, <1>7, <1>14 DEF SettleNothing, SettleBytes
<1> QED BY <1>5, <1>6, <1>8, <1>9, <1>10, <1>11, <1>12, <1>13, <1>14 DEF Next, Serve

\* A 429 of executeLimit means that limit.calls calls were to be counted in
\* the period that ends with it, for every limit that compiles, postponed
\* increments included.
THEOREM RefusalsAreEarned == Spec => RefusedOnlyWhenSpent
<1>1. LimitInv /\ SpentInv /\ [Next]_vars =>
        [\A r \in Requests :
           step[r] = "calls" /\ step'[r] = "refused" =>
               CallsIn({e \in counted : e.counter = limitWindow(r) /\ InPeriod(e, now)})
                   >= limit.calls]_vars
  <2> SUFFICES ASSUME TypeOK, Logs, StampsAtMostCalls, [Next]_vars, NEW r \in Requests,
                      step[r] = "calls", step'[r] = "refused"
               PROVE  CallsIn({e \in counted : e.counter = limitWindow(r) /\ InPeriod(e, now)})
                         >= limit.calls
    BY DEF LimitInv, SpentInv
  <2> DEFINE c == limitWindow(r)
             entries == Entries(counted, c, now)
  <2>1. CallsExceeded(c) /\ limit.calls > 0
    BY WhoRefuses DEF CallsRefuse
  <2>2. c \in Time /\ now \in Nat /\ limit \in Limits /\ limit.calls \in Nat /\ now >= now
    <3>1. now \in Nat
      BY TimeFacts DEF TypeOK
    <3>2. c \in Time /\ limit \in Limits /\ limit.calls \in Nat
      BY WindowIsCounter, LimitFacts DEF TypeOK
    <3> QED BY <3>1, <3>2
  <2>3. Len(KeptCalls(c)) <= CallsIn(entries) /\ Len(KeptCalls(c)) >= limit.calls
    BY <2>1, <2>2 DEF StampsAtMostCalls, KeptCalls, Fresh, CallsExceeded
  <2>4. Len(KeptCalls(c)) \in Nat /\ CallsIn(entries) \in Nat
    <3>1. KeptCalls(c) \in Seq(Time)
      BY <2>2, KeptAgain
    <3>2. IsFiniteSet(entries) /\ \A x \in entries : x.calls \in Nat
      BY EntriesFinite DEF TypeOK, Logs, CallEntry
    <3> HIDE DEF entries
    <3> QED BY <3>1, <3>2, CallsInFacts
  <2>5. {e \in counted : e.counter = c /\ InPeriod(e, now)} = entries
    <3>1. \A e \in counted : e.at \in Nat /\ e.at <= now
      BY TimeFacts DEF TypeOK, Logs, CallEntry
    <3>2. {e \in counted : e.counter = c /\ InPeriod(e, now)} =
            Entries(counted, c, IF now >= now THEN now ELSE now)
      BY <2>2, <3>1, PeriodEntries
    <3> QED BY <2>2, <3>2
  <2> HIDE DEF entries, c
  <2>6. CallsIn(entries) >= limit.calls
    BY <2>2, <2>3, <2>4
  <2> QED BY <2>5, <2>6 DEF c
<1>2. Spec => [](LimitInv /\ SpentInv)
  BY LimitInit, LimitStep, SpentInit, SpentStep, PTL DEF Spec
<1> QED BY <1>1, <1>2, PTL DEF Spec, RefusedOnlyWhenSpent
=============================================================================

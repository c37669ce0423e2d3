--------------------- MODULE ConcurrencyAndTokens_proofs ---------------------
(***************************************************************************)
(* Proofs about two policies whose state is not shared: limit-concurrency, *)
(* for any max-counts and any number of requests, and llm-token-limit, for *)
(* any budgets, estimates, totals and any number of requests.              *)
(*                                                                         *)
(* Of the first, the bound of every semaphore and that no release blocks.  *)
(* Of the second, that a spent budget refuses whatever was made of the     *)
(* window meanwhile, that nobody passes before the promised time, and that *)
(* the quota is what was spent.                                            *)
(***************************************************************************)
EXTENDS LimitConcurrency, TokenLimits, Windows_proofs

LEMMA HoldersFinite ==
    /\ IsFiniteSet(Slots)
    /\ \A s : IsFiniteSet(HoldersOf(s)) /\ Cardinality(HoldersOf(s)) \in Nat
<1>1. IsFiniteSet(1..MaxNested)
  BY FS_Interval, ConcurrencyAssumption
<1>2. IsFiniteSet(Slots)
  BY <1>1, FS_Product, ConcurrencyAssumption DEF Slots
<1>3. ASSUME NEW s PROVE IsFiniteSet(HoldersOf(s)) /\ Cardinality(HoldersOf(s)) \in Nat
  <2>1. HoldersOf(s) \subseteq Slots
    BY DEF HoldersOf
  <2>2. IsFiniteSet(HoldersOf(s))
    BY <1>2, <2>1, FS_Subset
  <2> QED BY <2>2, FS_CardinalityType
<1> QED BY <1>2, <1>3

LEMMA SemaphoreFacts ==
    /\ \A s \in Semaphores : s \in Nat /\ s # None
    /\ made \in 0..MaxSemaphores => \A s \in 1..made : s \in Semaphores
BY ConcurrencyAssumption DEF Semaphores, None

\* Putting channel s into free slot x adds one holder to s and to no other.
LEMMA HolderAdded ==
    ASSUME NEW x \in Slots, NEW s \in Semaphores, TypeOK,
           held[x] = None, held' = [held EXCEPT ![x] = s]
    PROVE  /\ Cardinality(HoldersOf(s))' = Cardinality(HoldersOf(s)) + 1
           /\ \A t \in Semaphores \ {s} : Cardinality(HoldersOf(t))' = Cardinality(HoldersOf(t))
<1>1. \A y \in Slots : held'[y] = IF y = x THEN s ELSE held[y]
  BY DEF TypeOK
<1>2. s # None /\ \A t \in Semaphores \ {s} : t # None /\ t # s
  BY SemaphoreFacts
<1>3. HoldersOf(s)' = HoldersOf(s) \cup {x} /\ x \notin HoldersOf(s)
  BY <1>1, <1>2 DEF HoldersOf
<1>4. Cardinality(HoldersOf(s) \cup {x}) = Cardinality(HoldersOf(s)) + 1
  <2>1. IsFiniteSet(HoldersOf(s))
    BY HoldersFinite
  <2> QED BY <1>3, <2>1, FS_AddElement
<1>5. \A t \in Semaphores \ {s} : HoldersOf(t)' = HoldersOf(t)
  BY <1>1, <1>2 DEF HoldersOf
<1> QED BY <1>3, <1>4, <1>5

\* Clearing slot x takes one holder from its channel and from no other.
LEMMA HolderRemoved ==
    ASSUME NEW x \in Slots, NEW s \in Semaphores, TypeOK,
           held[x] = s, held' = [held EXCEPT ![x] = None]
    PROVE  /\ Cardinality(HoldersOf(s))' = Cardinality(HoldersOf(s)) - 1
           /\ \A t \in Semaphores \ {s} : Cardinality(HoldersOf(t))' = Cardinality(HoldersOf(t))
<1>1. \A y \in Slots : held'[y] = IF y = x THEN None ELSE held[y]
  BY DEF TypeOK
<1>2. s # None /\ \A t \in Semaphores \ {s} : t # None /\ t # s
  BY SemaphoreFacts
<1>3. HoldersOf(s)' = HoldersOf(s) \ {x} /\ x \in HoldersOf(s)
  BY <1>1, <1>2 DEF HoldersOf
<1>4. Cardinality(HoldersOf(s) \ {x}) = Cardinality(HoldersOf(s)) - 1
  <2>1. IsFiniteSet(HoldersOf(s))
    BY HoldersFinite
  <2> QED BY <1>3, <2>1, FS_RemoveElement
<1>5. \A t \in Semaphores \ {s} : HoldersOf(t)' = HoldersOf(t)
  BY <1>1, <1>2 DEF HoldersOf
<1> QED BY <1>3, <1>4, <1>5

\* The slot a request takes next is free.
LEMMA TakingASlot ==
    ASSUME TypeOK, SlotsInOrder, NEW r \in Requests, NEW s \in Semaphores,
           depth[r] < MaxNested, Enter(r, s)
    PROVE  /\ Cardinality(HoldersOf(s))' = Cardinality(HoldersOf(s)) + 1
           /\ \A t \in Semaphores \ {s} : Cardinality(HoldersOf(t))' = Cardinality(HoldersOf(t))
<1>1. PICK i \in 1..MaxNested : i = depth[r] + 1
  BY ConcurrencyAssumption DEF TypeOK
<1>2. <<r, i>> \in Slots
  BY DEF Slots
<1>3. held[<<r, i>>] = None
  BY <1>1 DEF SlotsInOrder, TypeOK
<1>4. held' = [held EXCEPT ![<<r, i>>] = s]
  BY <1>1 DEF Enter
<1> QED BY <1>2, <1>3, <1>4, HolderAdded

LEMMA InvInit == Init => SemaphoreInv
<1> SUFFICES ASSUME Init PROVE SemaphoreInv
  OBVIOUS
<1>1. TypeOK
  BY ConcurrencyAssumption DEF Init, TypeOK, Semaphores, None, Slots
<1>2. \A s \in Semaphores : HoldersOf(s) = {}
  BY DEF Init, HoldersOf, Semaphores, None
<1>3. TokensAreHolders
  BY <1>2, FS_EmptySet DEF Init, TokensAreHolders
<1>4. SlotsInOrder
  BY DEF Init, SlotsInOrder, Slots, None
<1>5. MadeInOrder
  BY ConcurrencyAssumption DEF Init, MadeInOrder, None
<1> QED BY <1>1, <1>3, <1>4, <1>5 DEF SemaphoreInv

\* Entering through channel s, whose token count grows by one.
LEMMA SlotsAfterEnter ==
    ASSUME TypeOK, SlotsInOrder, NEW r \in Requests, NEW s \in Semaphores,
           depth[r] < MaxNested, Enter(r, s)
    PROVE  /\ held' \in [Slots -> {None} \cup Semaphores]
           /\ depth' \in [Requests -> 0..MaxNested]
           /\ step' \in [Requests -> {"outside", "inside", "settling"}]
           /\ SlotsInOrder'
           /\ \A x \in Slots : held'[x] \in {held[x], s}
<1>1. <<r, depth[r] + 1>> \in Slots
  BY ConcurrencyAssumption DEF Slots, TypeOK
<1>2. held' \in [Slots -> {None} \cup Semaphores] /\ \A x \in Slots : held'[x] \in {held[x], s}
  BY <1>1 DEF Enter, TypeOK
<1>3. depth' \in [Requests -> 0..MaxNested] /\ step' \in [Requests -> {"outside", "inside", "settling"}]
  BY ConcurrencyAssumption DEF Enter, TypeOK
<1>4. SlotsInOrder'
  <2> SUFFICES ASSUME NEW q \in Requests, NEW i \in 1..MaxNested
               PROVE  held'[<<q, i>>] # None <=> i <= depth'[q]
    BY DEF SlotsInOrder
  <2>1. <<q, i>> \in Slots
    BY DEF Slots
  <2>2. held[<<q, i>>] # None <=> i <= depth[q]
    BY DEF SlotsInOrder
  <2>3. CASE q = r /\ i = depth[r] + 1
    BY <1>1, <2>1, <2>3 DEF Enter, TypeOK, None, Semaphores
  <2>4. CASE q = r /\ i # depth[r] + 1
    BY <1>1, <2>1, <2>2, <2>4, ConcurrencyAssumption DEF Enter, TypeOK, Slots
  <2>5. CASE q # r
    BY <1>1, <2>1, <2>2, <2>5 DEF Enter, TypeOK, Slots
  <2> QED BY <2>3, <2>4, <2>5
<1> QED BY <1>2, <1>3, <1>4

LEMMA InvAcquire ==
    ASSUME SemaphoreInv, NEW r \in Requests, NEW max \in MaxCounts, Acquire(r, max)
    PROVE  SemaphoreInv'
<1> USE DEF SemaphoreInv
<1>1. current \in Semaphores /\ depth[r] < MaxNested
  BY DEF Acquire, Fits, MayEnter, TypeOK, None
<1>2. PICK s \in Semaphores : s = current
  BY <1>1
<1>3. Enter(r, s) /\ tokens' = [tokens EXCEPT ![s] = @ + 1] /\ tokens[s] < capacity[s]
      /\ UNCHANGED <<current, made, capacity>>
  BY <1>2 DEF Acquire, Fits
<1>4. TypeOK' /\ SlotsInOrder' /\ \A x \in Slots : held'[x] \in {held[x], s}
  BY <1>1, <1>3, SlotsAfterEnter DEF TypeOK
<1>5. TokensAreHolders'
  <2>1. Cardinality(HoldersOf(s))' = Cardinality(HoldersOf(s)) + 1
    BY <1>1, <1>3, TakingASlot
  <2>2. \A t \in Semaphores \ {s} : Cardinality(HoldersOf(t))' = Cardinality(HoldersOf(t))
    BY <1>1, <1>3, TakingASlot
  <2> QED BY <1>3, <2>1, <2>2 DEF TokensAreHolders, TypeOK
<1>6. MadeInOrder'
  <2>1. \A x \in Slots : held'[x] <= made
    BY <1>2, <1>4, SemaphoreFacts DEF MadeInOrder, TypeOK
  <2> QED BY <1>3, <2>1 DEF MadeInOrder
<1> QED BY <1>4, <1>5, <1>6

LEMMA InvAcquireFresh ==
    ASSUME SemaphoreInv, NEW r \in Requests, NEW max \in MaxCounts, AcquireFresh(r, max)
    PROVE  SemaphoreInv'
<1> USE DEF SemaphoreInv
<1>1. made' = made + 1 /\ made' \in Semaphores /\ depth[r] < MaxNested /\ Enter(r, made')
  BY ConcurrencyAssumption DEF AcquireFresh, MayEnter, TypeOK, Semaphores
<1>2. max \in Nat \ {0}
  BY ConcurrencyAssumption
<1>s. PICK s \in Semaphores : s = made'
  BY <1>1
<1>3. SlotsInOrder' /\ held' \in [Slots -> {None} \cup Semaphores]
      /\ depth' \in [Requests -> 0..MaxNested]
      /\ step' \in [Requests -> {"outside", "inside", "settling"}]
      /\ \A x \in Slots : held'[x] \in {held[x], s}
  BY <1>1, <1>s, SlotsAfterEnter
<1>4. TypeOK'
  BY <1>1, <1>s, <1>2, <1>3, ConcurrencyAssumption DEF AcquireFresh, TypeOK, Semaphores, None
<1>5. TokensAreHolders'
  <2>1. HoldersOf(s) = {}
    BY <1>1, <1>s DEF HoldersOf, MadeInOrder, TypeOK, Semaphores, None
  <2>2. Cardinality(HoldersOf(s)) = 0
    BY <2>1, FS_EmptySet
  <2>3. Cardinality(HoldersOf(s))' = 1
    BY <1>1, <1>s, <2>2, TakingASlot
  <2>4. \A t \in Semaphores \ {s} : Cardinality(HoldersOf(t))' = Cardinality(HoldersOf(t))
    BY <1>1, <1>s, TakingASlot
  <2>5. \A t \in Semaphores \ {s} : tokens'[t] = tokens[t] /\ capacity'[t] = capacity[t]
    BY <1>1, <1>s DEF AcquireFresh, TypeOK
  <2>6. tokens'[s] = 1 /\ capacity'[s] = max
    BY <1>1, <1>s DEF AcquireFresh, TypeOK
  <2> QED BY <1>1, <1>s, <1>2, <2>3, <2>4, <2>5, <2>6 DEF TokensAreHolders
<1>6. MadeInOrder'
  <2>1. \A x \in Slots : held'[x] <= made'
    <3> SUFFICES ASSUME NEW x \in Slots PROVE held'[x] <= made'
      OBVIOUS
    <3>1. held[x] <= made /\ held[x] \in {None} \cup Semaphores /\ made \in Nat
      BY ConcurrencyAssumption DEF MadeInOrder, TypeOK
    <3>2. held[x] \in Nat
      BY <3>1, SemaphoreFacts DEF None
    <3>3. held'[x] = held[x] \/ held'[x] = made'
      BY <1>s, <1>3
    <3> QED BY <1>1, <3>1, <3>2, <3>3, SemaphoreFacts
  <2>2. \A t \in 1..made' : capacity'[t] \in MaxCounts
    BY <1>1, SemaphoreFacts DEF AcquireFresh, MadeInOrder, TypeOK, Semaphores
  <2> QED BY <2>1, <2>2 DEF AcquireFresh, MadeInOrder
<1> QED BY <1>3, <1>4, <1>5, <1>6

LEMMA InvRelease ==
    ASSUME SemaphoreInv, NEW r \in Requests, Release(r)
    PROVE  SemaphoreInv'
<1> USE DEF SemaphoreInv
<1>n. PICK n \in 1..MaxNested : n = depth[r]
  BY ConcurrencyAssumption DEF Release, TypeOK
<1> DEFINE x == <<r, n>>
<1>1. x \in Slots /\ depth[r] \in 1..MaxNested
  BY <1>n DEF Slots
<1>2. PICK s \in Semaphores : s = held[x]
  BY <1>1, <1>n DEF SlotsInOrder, TypeOK
<1>3. held' = [held EXCEPT ![x] = None] /\ tokens' = [tokens EXCEPT ![s] = @ - 1]
  BY <1>n, <1>2 DEF Release
<1>4. /\ Cardinality(HoldersOf(s))' = Cardinality(HoldersOf(s)) - 1
      /\ \A t \in Semaphores \ {s} : Cardinality(HoldersOf(t))' = Cardinality(HoldersOf(t))
  BY <1>1, <1>2, <1>3, HolderRemoved
<1>7. TokensAreHolders'
  <2>2. tokens[s] > 0 /\ capacity' = capacity
    BY <1>n, <1>2 DEF Release
  <2> QED BY <1>2, <1>3, <1>4, <2>2 DEF TokensAreHolders, TypeOK
<1>8. TypeOK'
  <2>1. tokens[s] > 0
    BY <1>n, <1>2 DEF Release
  <2>2. tokens' \in [Semaphores -> Nat] /\ held' \in [Slots -> {None} \cup Semaphores]
    BY <1>1, <1>2, <1>3, <2>1 DEF TypeOK
  <2>3. depth' \in [Requests -> 0..MaxNested]
    <3>1. depth' = [depth EXCEPT ![r] = depth[r] - 1]
      BY DEF Release
    <3>2. depth[r] - 1 \in 0..MaxNested
      BY <1>1, ConcurrencyAssumption
    <3> QED BY <3>1, <3>2 DEF TypeOK
  <2> QED BY <2>2, <2>3 DEF Release, TypeOK
<1>9. SlotsInOrder'
  <2> SUFFICES ASSUME NEW q \in Requests, NEW i \in 1..MaxNested
               PROVE  held'[<<q, i>>] # None <=> i <= depth'[q]
    BY DEF SlotsInOrder
  <2>1. <<q, i>> \in Slots
    BY DEF Slots
  <2>2. held[<<q, i>>] # None <=> i <= depth[q]
    BY DEF SlotsInOrder
  <2>3. CASE q = r /\ i = depth[r]
    BY <1>n, <1>1, <1>3, <2>1, <2>3 DEF Release, TypeOK, None
  <2>4. CASE q = r /\ i # depth[r]
    <3>1. depth'[q] = depth[q] - 1 /\ depth[q] \in 0..MaxNested
      BY <2>4 DEF Release, TypeOK
    <3>2. held'[<<q, i>>] = held[<<q, i>>]
      BY <1>n, <1>1, <1>3, <2>1, <2>4 DEF TypeOK
    <3> QED BY <2>2, <2>4, <3>1, <3>2
  <2>5. CASE q # r
    BY <1>n, <1>1, <1>3, <2>1, <2>2, <2>5 DEF Release, TypeOK, Slots
  <2> QED BY <2>3, <2>4, <2>5
<1>10. MadeInOrder'
  BY <1>1, <1>3 DEF Release, MadeInOrder, TypeOK, None, Semaphores
<1> QED BY <1>7, <1>8, <1>9, <1>10

\* Steps that only move a request along.
LEMMA InvMove ==
    ASSUME SemaphoreInv, UNCHANGED <<current, made, capacity, tokens, depth, held>>,
           step' \in [Requests -> {"outside", "inside", "settling"}]
    PROVE  SemaphoreInv'
BY DEF SemaphoreInv, TypeOK, TokensAreHolders, SlotsInOrder, MadeInOrder, HoldersOf

LEMMA InvStep == SemaphoreInv /\ [Next]_vars => SemaphoreInv'
<1> SUFFICES ASSUME SemaphoreInv, [Next]_vars PROVE SemaphoreInv'
  OBVIOUS
<1>1. ASSUME NEW r \in Requests, NEW max \in MaxCounts, Acquire(r, max) PROVE SemaphoreInv'
  BY <1>1, InvAcquire
<1>2. ASSUME NEW r \in Requests, NEW max \in MaxCounts, AcquireFresh(r, max) PROVE SemaphoreInv'
  BY <1>2, InvAcquireFresh
<1>3. ASSUME NEW r \in Requests, NEW max \in MaxCounts, Refuse(r, max) PROVE SemaphoreInv'
  BY <1>3, InvMove DEF Refuse, SemaphoreInv, TypeOK
<1>4. ASSUME NEW r \in Requests, Finish(r) PROVE SemaphoreInv'
  BY <1>4, InvMove DEF Finish, SemaphoreInv, TypeOK
<1>5. ASSUME NEW r \in Requests, Release(r) PROVE SemaphoreInv'
  BY <1>5, InvRelease
<1>6. CASE UNCHANGED vars
  BY <1>6, InvMove DEF vars, SemaphoreInv, TypeOK
<1> QED BY <1>1, <1>2, <1>3, <1>4, <1>5, <1>6 DEF Next, RequestStep

LEMMA InvAlways == Spec => []SemaphoreInv
BY InvInit, InvStep, PTL DEF Spec

\* The variables keep their types: a request's slots are those of channels that
\* were made, and no channel counts below zero, whatever max-counts it meets.
THEOREM TypeCorrect == Spec => []TypeOK
<1>1. SemaphoreInv => TypeOK
  BY DEF SemaphoreInv
<1> QED BY <1>1, InvAlways, PTL

\* Whatever max-counts share the key, no channel of limit-concurrency admits
\* more requests than its capacity.
THEOREM SemaphoresBounded == Spec => []SemaphoreBound
<1>1. SemaphoreInv => SemaphoreBound
  BY SemaphoreFacts DEF SemaphoreInv, SemaphoreBound, TokensAreHolders, TypeOK
<1> QED BY <1>1, InvAlways, PTL

\* No deferred release of ServeHTTP waits for a token.
THEOREM ReleasesNeverBlock == Spec => []ReleaseNeverBlocks
<1>1. SemaphoreInv => ReleaseNeverBlocks
  <2> SUFFICES ASSUME SemaphoreInv, NEW r \in Requests, depth[r] > 0
               PROVE  tokens[held[<<r, depth[r]>>]] > 0
    BY DEF ReleaseNeverBlocks
  <2> DEFINE x == <<r, depth[r]>>
             s == held[x]
  <2>1. x \in Slots /\ s \in Semaphores
    BY DEF SemaphoreInv, TypeOK, SlotsInOrder, Slots
  <2>2. x \in HoldersOf(s)
    BY <2>1 DEF HoldersOf
  <2>3. Cardinality(HoldersOf(s)) # 0
    BY <2>2, HoldersFinite, FS_EmptySet
  <2> QED BY <2>1, <2>3, HoldersFinite DEF SemaphoreInv, TokensAreHolders
<1> QED BY <1>1, InvAlways, PTL

-----------------------------------------------------------------------------
(***************************************************************************)
(* llm-token-limit.  The inductive invariant speaks of the window as every *)
(* later time will see it: a trim drops only what no later time counts, and *)
(* the duplicates that a refusal leaves in the slice only add to the sum.  *)
(* WindowHasSpends and RefusalsLast are therefore stated for all times from *)
(* now on, and kept by every step.                                         *)
(***************************************************************************)
\* What the window weighs at time t, and what answers have cost in the minute
\* before it.
WindowAt(t) == Sum(Select(window, FreshAt(t)))
SpentAt(t) == {e \in spent : e.at > t - Minute}

\* A cost is recorded once, when it is, and before it is charged.
Spends ==
    /\ IsFiniteSet(spent)
    /\ \A e \in spent :
          /\ e.at <= now /\ e.tokens = total[e.request]
          /\ stage[e.request] \in {"charge", "done"}

\* Now and at any later time the window weighs at least what was recorded in
\* the minute before; spends that a refusal left behind twice only add to it.
WindowHasSpends == \A t \in Nat : t >= now => TokensOf(SpentAt(t)) <= WindowAt(t)

\* Until the time a refusal promised, the window weighs the whole budget.
RefusalsLast ==
    /\ TokensPerMinute = 0 => advice = {}
    /\ \A a \in advice, t \in Nat : (now <= t /\ t < a - 1) => TokensPerMinute <= WindowAt(t)

\* A request is billed once, at its end, and a counter is at least what was
\* billed to its period, and that exactly where no prompt is estimated.
Billing ==
    /\ IsFiniteSet(billed)
    /\ \A e \in billed : stage[e.request] = "done"
    /\ \A p \in Time : TokensOf({e \in billed : e.period = p}) <= quotas[p]
    /\ (\A r \in Prompts : estimate[r] = 0) =>
          \A p \in Time : quotas[p] = TokensOf({e \in billed : e.period = p})
    /\ TokenQuota > 0 =>
          \A e \in spent : stage[e.request] = "charge" \/ \E b \in billed :
              b.request = e.request /\ b.tokens = e.tokens /\ b.period >= e.at \div QuotaPeriod

TokensInv == TokensTypeOK /\ Spends /\ WindowHasSpends /\ RefusalsLast /\ Billing

(***************************************************************************)
(* Sums of a window and of a log.                                          *)
(***************************************************************************)
LEMMA TokensTimeFacts ==
    /\ MaxTime \in Nat /\ Time = 0..MaxTime /\ 0 \in Time /\ Time \subseteq Nat
    /\ Minute \in Nat /\ Minute > 0 /\ QuotaPeriod \in Nat /\ QuotaPeriod > 0
    /\ TokensPerMinute \in Nat /\ TokenQuota \in Nat
BY TokenAssumption DEF Time

LEMMA SumFacts ==
    ASSUME NEW s \in Seq(Stamp)
    PROVE  /\ Sum(s) \in Nat /\ Sum(<<>>) = 0
           /\ \A x \in Stamp : Sum(Append(s, x)) = Sum(s) + x.tokens
<1>1. ASSUME NEW z \in Seq(Stamp)
      PROVE  [i \in DOMAIN z |-> z[i].tokens] \in [1..Len(z) -> Nat] /\ IsFiniteSet(1..Len(z))
  <2>1. DOMAIN z = 1..Len(z) /\ \A i \in 1..Len(z) : z[i] \in Stamp
    OBVIOUS
  <2>2. \A i \in 1..Len(z) : z[i].tokens \in Nat
    BY <2>1 DEF Stamp
  <2>3. Len(z) \in Int
    OBVIOUS
  <2> QED BY <2>1, <2>2, <2>3, FS_Interval
<1>2. Sum(s) \in Nat
  BY <1>1, SumType DEF Sum
<1>3. Sum(<<>>) = 0
  <2>1. <<>> \in Seq(Stamp) /\ 1..Len(<<>>) = {}
    OBVIOUS
  <2> QED BY <1>1, <2>1, SumType DEF Sum
<1>4. ASSUME NEW x \in Stamp PROVE Sum(Append(s, x)) = Sum(s) + x.tokens
  <2> DEFINE z == Append(s, x)
             n == Len(s) + 1
             w == [i \in DOMAIN z |-> z[i].tokens]
             u == [i \in DOMAIN s |-> s[i].tokens]
  <2>1. z \in Seq(Stamp) /\ Len(z) = n /\ z[n] = x /\ n \in Nat /\ n > 0 /\ DOMAIN z = 1..n
    OBVIOUS
  <2>2. DOMAIN s = (1..n) \ {n} /\ n \in 1..n /\ 1..Len(s) = (1..n) \ {n}
    <3>1. DOMAIN s = 1..Len(s) /\ Len(s) \in Nat
      OBVIOUS
    <3>2. 1..Len(s) = (1..(Len(s) + 1)) \ {Len(s) + 1}
      BY <3>1
    <3> QED BY <2>1, <3>1, <3>2
  <2>3. w \in [1..n -> Nat] /\ IsFiniteSet(1..n) /\ u \in [(1..n) \ {n} -> Nat]
    <3>1. w \in [1..Len(z) -> Nat] /\ IsFiniteSet(1..Len(z))
      BY <1>1, <2>1
    <3>2. u \in [1..Len(s) -> Nat]
      BY <1>1
    <3> HIDE DEF w, u, z, n
    <3> QED BY <2>1, <2>2, <3>1, <3>2
  <2>4. (\A i \in (1..n) \ {n} : u[i] = w[i]) /\ w[n] = x.tokens
    BY <2>1, <2>2
  <2>5. Sum(z) = SumFunction(w) /\ Sum(s) = SumFunction(u)
    BY DEF Sum
  <2> HIDE DEF w, u, n, z
  <2>6. SumFunction(w) = SumFunction(u) + w[n]
    <3>1. u = [i \in (1..n) \ {n} |-> w[i]]
      BY <2>3, <2>4
    <3>2. SumFunction(w) = SumFunction([i \in (1..n) \ {n} |-> w[i]]) + w[n]
      BY <2>2, <2>3, SumWithout
    <3> QED BY <3>1, <3>2
  <2> QED BY <2>4, <2>5, <2>6 DEF z
<1> QED BY <1>2, <1>3, <1>4

LEMMA TokensOfFacts ==
    ASSUME NEW A, IsFiniteSet(A), \A e \in A : e.tokens \in Nat
    PROVE  /\ TokensOf(A) \in Nat /\ (A = {} => TokensOf(A) = 0)
           /\ \A e \in A : TokensOf(A) = TokensOf(A \ {e}) + e.tokens
<1> DEFINE w == [e \in A |-> e.tokens]
<1>1. w \in [A -> Nat]
  OBVIOUS
<1>2. TokensOf(A) \in Nat /\ (A = {} => TokensOf(A) = 0)
  BY <1>1, SumType DEF TokensOf
<1>3. ASSUME NEW e \in A PROVE TokensOf(A) = TokensOf(A \ {e}) + e.tokens
  <2> DEFINE v == [x \in A \ {e} |-> x.tokens]
  <2>1. v = [y \in A \ {e} |-> w[y]] /\ w[e] = e.tokens
    OBVIOUS
  <2>2. SumFunction(w) = SumFunction(v) + w[e]
    <3> HIDE DEF v, w
    <3> QED BY <1>1, <2>1, SumWithout
  <2> QED BY <2>1, <2>2 DEF TokensOf
<1> QED BY <1>2, <1>3

\* One more entry in a log.
LEMMA TokensGain ==
    ASSUME NEW A, IsFiniteSet(A), \A x \in A : x.tokens \in Nat, NEW e, e \notin A, e.tokens \in Nat
    PROVE  TokensOf(A \cup {e}) = TokensOf(A) + e.tokens
<1> DEFINE B == A \cup {e}
<1>1. IsFiniteSet(B) /\ e \in B /\ B \ {e} = A /\ \A x \in B : x.tokens \in Nat
  BY FS_AddElement
<1> HIDE DEF B
<1>2. TokensOf(B) = TokensOf(B \ {e}) + e.tokens
  BY <1>1, TokensOfFacts
<1> QED BY <1>1, <1>2 DEF B

\* Whatever the slice has behind the kept stamps only adds to the sum.
LEMMA TailOnlyAdds ==
    ASSUME NEW u \in Seq(Stamp), NEW v \in Seq(Stamp), NEW keep
    PROVE  Sum(Select(u, keep)) <= Sum(Select(u \o v, keep))
<1> DEFINE P == {z \in Seq(Stamp) : Sum(Select(u, keep)) <= Sum(Select(u \o z, keep))}
<1>1. <<>> \in P
  <2>1. <<>> \in Seq(Stamp) /\ u \o <<>> = u
    OBVIOUS
  <2>2. Select(u, keep) \in Seq(Stamp)
    BY SelectType
  <2>3. Sum(Select(u, keep)) \in Nat
    BY <2>2, SumFacts
  <2> QED BY <2>1, <2>3
<1>2. ASSUME NEW z \in Seq(Stamp), NEW x \in Stamp, z \in P PROVE Append(z, x) \in P
  <2> DEFINE s == u \o z
  <2>1. s \in Seq(Stamp) /\ Append(z, x) \in Seq(Stamp)
    OBVIOUS
  <2>2. u \o Append(z, x) = Append(s, x)
    OBVIOUS
  <2>3. Sum(Select(u, keep)) <= Sum(Select(s, keep))
    BY <1>2
  <2> HIDE DEF s
  <2>4. Select(Append(s, x), keep) = IF x \in keep THEN Append(Select(s, keep), x) ELSE Select(s, keep)
    BY <2>1, SelectAppend
  <2>5. Select(s, keep) \in Seq(Stamp) /\ Select(u, keep) \in Seq(Stamp)
    BY <2>1, SelectType
  <2>6. /\ Sum(Append(Select(s, keep), x)) = Sum(Select(s, keep)) + x.tokens
        /\ Sum(Select(s, keep)) \in Nat /\ Sum(Select(u, keep)) \in Nat
    BY <2>5, SumFacts
  <2>7. x.tokens \in Nat
    BY DEF Stamp
  <2>8. Sum(Select(u, keep)) <= Sum(Select(Append(s, x), keep))
    BY <2>3, <2>4, <2>6, <2>7
  <2> QED BY <2>1, <2>2, <2>8
<1>3. Seq(Stamp) \subseteq P
  <2> HIDE DEF P
  <2> QED BY <1>1, <1>2, SeqSetInduction
<1> QED BY <1>3

(***************************************************************************)
(* The window: what a trim leaves of it, as later times see it.            *)
(***************************************************************************)
LEMMA FreshLater ==
    ASSUME NEW n \in Nat, NEW t \in Nat, t >= n
    PROVE  FreshAt(t) \subseteq FreshAt(n)
BY TokensTimeFacts DEF FreshAt

LEMMA StampFresh ==
    ASSUME NEW x \in Stamp, NEW t \in Nat
    PROVE  x \in FreshAt(t) <=> x.at > t - Minute
<1>1. x \in [at : Nat, tokens : Nat]
  BY TokensTimeFacts DEF Stamp
<1> QED BY <1>1 DEF FreshAt

\* A trim at time n takes away nothing that counts later.
LEMMA TrimKeeps ==
    ASSUME NEW w \in Seq(Stamp), NEW n \in Nat, NEW t \in Nat, t >= n
    PROVE  /\ Select(w, FreshAt(n)) \in Seq(Stamp)
           /\ Sum(Select(w, FreshAt(t))) \in Nat
           /\ Select(Select(w, FreshAt(n)), FreshAt(t)) = Select(w, FreshAt(t))
<1>1. Select(w, FreshAt(n)) \in Seq(Stamp) /\ Select(w, FreshAt(t)) \in Seq(Stamp)
  BY SelectType
<1>2. Sum(Select(w, FreshAt(t))) \in Nat
  BY <1>1, SumFacts
<1>3. Select(Select(w, FreshAt(n)), FreshAt(t)) = Select(w, FreshAt(t))
  BY FreshLater, SelectTwice
<1> QED BY <1>1, <1>2, <1>3

\* A spend put behind the kept ones adds its tokens while it is fresh.
LEMMA SpendAdds ==
    ASSUME NEW w \in Seq(Stamp), NEW n \in Nat, NEW t \in Nat, t >= n, NEW x \in Stamp
    PROVE  /\ Append(Select(w, FreshAt(n)), x) \in Seq(Stamp)
           /\ Sum(Select(Append(Select(w, FreshAt(n)), x), FreshAt(t))) =
                Sum(Select(w, FreshAt(t))) + (IF x.at > t - Minute THEN x.tokens ELSE 0)
<1> DEFINE k == Select(w, FreshAt(n))
           s == Select(w, FreshAt(t))
<1>1. k \in Seq(Stamp) /\ Sum(s) \in Nat /\ Select(k, FreshAt(t)) = s
  BY TrimKeeps
<1>2. s \in Seq(Stamp)
  BY SelectType
<1> HIDE DEF k, s
<1>3. Select(Append(k, x), FreshAt(t)) = IF x \in FreshAt(t) THEN Append(s, x) ELSE s
  BY <1>1, SelectAppend
<1>4. Sum(Append(s, x)) = Sum(s) + x.tokens
  BY <1>2, SumFacts
<1>5. Append(k, x) \in Seq(Stamp)
  BY <1>1
<1>6. Sum(Select(Append(k, x), FreshAt(t))) = Sum(s) + (IF x.at > t - Minute THEN x.tokens ELSE 0)
  BY <1>1, <1>3, <1>4, StampFresh
<1> QED BY <1>5, <1>6 DEF k, s

\* What trimTokenWindow leaves in a slice that it filters in place, where its
\* result is not stored, counts for at least as much.
LEMMA TrimmedInPlaceFacts ==
    ASSUME window \in Seq(Stamp), now \in Nat, NEW t \in Nat, t >= now
    PROVE  /\ TrimmedInPlace \in Seq(Stamp)
           /\ WindowAt(t) <= Sum(Select(TrimmedInPlace, FreshAt(t)))
<1> DEFINE tail == SubSeq(window, Len(Kept) + 1, Len(window))
<1>1. Kept \in Seq(Stamp) /\ Len(Kept) <= Len(window)
  BY SelectType DEF Kept
<1>2. Len(Kept) \in Nat /\ Len(window) \in Nat
  BY <1>1
<1> HIDE DEF Kept
<1>3. tail \in Seq(Stamp)
  BY <1>1, <1>2
<1> HIDE DEF tail
<1>4. Kept \o tail \in Seq(Stamp)
  BY <1>1, <1>3
<1>5. Select(Kept, FreshAt(t)) = Select(window, FreshAt(t))
  BY TrimKeeps DEF Kept
<1>6. Sum(Select(Kept, FreshAt(t))) <= Sum(Select(Kept \o tail, FreshAt(t)))
  BY <1>1, <1>3, TailOnlyAdds
<1> QED BY <1>4, <1>5, <1>6 DEF TrimmedInPlace, WindowAt, tail

\* The oldest kept spend: all the kept ones still count just before it leaves.
LEMMA OldestFacts ==
    ASSUME window \in Seq(Stamp), now \in Nat, Sum(Kept) > 0
    PROVE  /\ Oldest \in Nat
           /\ \A t \in Nat : (now <= t /\ t < Oldest + Minute) => WindowAt(t) = Sum(Kept)
<1>1. Kept \in Seq(Stamp)
  BY SelectType DEF Kept
<1>2. Kept # <<>>
  <2>1. Sum(<<>>) = 0
    BY <1>1, SumFacts
  <2> QED BY <2>1
<1>3. SpendTimes # {} /\ SpendTimes \subseteq Nat /\ \A i \in 1..Len(Kept) : Kept[i].at \in SpendTimes
  <2>1. DOMAIN Kept = 1..Len(Kept) /\ 1 \in 1..Len(Kept) /\ \A i \in 1..Len(Kept) : Kept[i] \in Stamp
    BY <1>1, <1>2
  <2>2. \A x \in Stamp : x.at \in Nat
    BY TokensTimeFacts DEF Stamp
  <2> QED BY <2>1, <2>2 DEF SpendTimes
<1>4. \E t \in SpendTimes : \A u \in SpendTimes : t <= u
  <2>1. PICK m \in SpendTimes : \A k \in SpendTimes : ~ (<<k, m>> \in OpToRel(<, Nat))
    BY <1>3, NatLessThanWellFounded, WFMin
  <2>2. \A j, k \in Nat : j < k => <<j, k>> \in OpToRel(<, Nat)
    BY DEF OpToRel
  <2>3. m \in SpendTimes /\ \A k \in SpendTimes : ~ (k < m)
    BY <1>3, <2>1, <2>2, Zenon
  <2>4. \A k \in SpendTimes : m <= k
    BY <1>3, <2>3
  <2> QED BY <2>3, <2>4
<1>5. Oldest \in SpendTimes /\ \A u \in SpendTimes : Oldest <= u
  BY <1>4 DEF Oldest
<1>6. Oldest \in Nat
  BY <1>3, <1>5
<1>7. ASSUME NEW t \in Nat, now <= t, t < Oldest + Minute PROVE WindowAt(t) = Sum(Kept)
  <2>1. ASSUME NEW i \in 1..Len(Kept) PROVE Kept[i] \in FreshAt(t)
    <3>1. Kept[i] \in Stamp
      BY <1>1
    <3>2. Kept[i].at \in Nat /\ Oldest <= Kept[i].at
      BY <1>3, <1>5
    <3>3. Kept[i].at > t - Minute
      BY <1>6, <1>7, <3>2, TokensTimeFacts
    <3> QED BY <3>1, <3>3, StampFresh
  <2>2. Kept \in Seq(FreshAt(t))
    BY <1>1, <2>1
  <2>3. Select(Kept, FreshAt(t)) = Kept
    BY <2>2, SelectAll
  <2>4. Select(Kept, FreshAt(t)) = Select(window, FreshAt(t))
    BY <1>7, TrimKeeps DEF Kept
  <2> QED BY <2>3, <2>4 DEF WindowAt
<1> QED BY <1>6, <1>7

LEMMA LogFacts ==
    ASSUME TokensTypeOK, Spends, Billing
    PROVE  /\ \A t \in Nat : /\ IsFiniteSet(SpentAt(t)) /\ TokensOf(SpentAt(t)) \in Nat
                             /\ \A e \in SpentAt(t) : e.tokens \in Nat
           /\ \A p \in Time : /\ IsFiniteSet({e \in billed : e.period = p})
                              /\ TokensOf({e \in billed : e.period = p}) \in Nat
                              /\ \A e \in {b \in billed : b.period = p} : e.tokens \in Nat
<1>1. ASSUME NEW t \in Nat
      PROVE  IsFiniteSet(SpentAt(t)) /\ \A e \in SpentAt(t) : e.tokens \in Nat
  <2>1. SpentAt(t) \in SUBSET spent /\ IsFiniteSet(spent)
    BY DEF SpentAt, Spends
  <2>2. \A e \in spent : e.tokens \in Nat
    BY DEF TokensTypeOK
  <2> QED BY <2>1, <2>2, FS_Subset
<1>2. ASSUME NEW p \in Time
      PROVE  /\ IsFiniteSet({e \in billed : e.period = p})
             /\ \A e \in {b \in billed : b.period = p} : e.tokens \in Nat
  <2>1. {e \in billed : e.period = p} \in SUBSET billed /\ IsFiniteSet(billed)
    BY DEF Billing
  <2>2. \A e \in billed : e.tokens \in Nat
    BY DEF TokensTypeOK
  <2> QED BY <2>1, <2>2, FS_Subset
<1>3. \A t \in Nat : TokensOf(SpentAt(t)) \in Nat
  BY <1>1, TokensOfFacts
<1>4. \A p \in Time : TokensOf({e \in billed : e.period = p}) \in Nat
  BY <1>2, TokensOfFacts
<1> QED BY <1>1, <1>2, <1>3, <1>4

\* The window only grows, as every later time sees it.
LEMMA RateStep ==
    ASSUME TokensTypeOK, NEW r \in Prompts, RatePass(r) \/ RateRefuse(r)
    PROVE  /\ window' \in Seq(Stamp)
           /\ \A t \in Nat : t >= now => WindowAt(t) <= WindowAt(t)'
<1>1. window \in Seq(Stamp) /\ now \in Nat /\ now \in Time /\ estimate[r] \in Nat
  BY TokensTimeFacts, TokenAssumption DEF TokensTypeOK
<1>2. ASSUME NEW t \in Nat PROVE WindowAt(t) \in Nat /\ WindowAt(t)' = Sum(Select(window', FreshAt(t)))
  <2>1. Select(window, FreshAt(t)) \in Seq(Stamp)
    BY <1>1, SelectType
  <2>2. FreshAt(t)' = FreshAt(t)
    BY DEF FreshAt
  <2> QED BY <2>1, <2>2, SumFacts DEF WindowAt, Sum
<1>3. CASE window' = window
  BY <1>1, <1>2, <1>3 DEF WindowAt
<1>4. CASE window' = Kept
  <2>1. Kept \in Seq(Stamp)
    BY <1>1, SelectType DEF Kept
  <2>2. ASSUME NEW t \in Nat, t >= now PROVE WindowAt(t) <= WindowAt(t)'
    <3>1. Select(Kept, FreshAt(t)) = Select(window, FreshAt(t))
      BY <1>1, <2>2, TrimKeeps DEF Kept
    <3> QED BY <1>2, <1>4, <3>1 DEF WindowAt
  <2> QED BY <1>4, <2>1, <2>2
<1>5. CASE window' = Append(Kept, [at |-> now, tokens |-> estimate[r]])
  <2> DEFINE x == [at |-> now, tokens |-> estimate[r]]
  <2>1. x \in Stamp /\ x.tokens \in Nat
    BY <1>1 DEF Stamp
  <2> HIDE DEF x
  <2>2. ASSUME NEW t \in Nat, t >= now
        PROVE  Append(Kept, x) \in Seq(Stamp) /\ WindowAt(t) <= Sum(Select(Append(Kept, x), FreshAt(t)))
    <3>1. /\ Append(Kept, x) \in Seq(Stamp)
          /\ Sum(Select(Append(Kept, x), FreshAt(t))) =
               Sum(Select(window, FreshAt(t))) + (IF x.at > t - Minute THEN x.tokens ELSE 0)
      BY <1>1, <2>1, <2>2, SpendAdds DEF Kept
    <3>2. WindowAt(t) = Sum(Select(window, FreshAt(t))) /\ WindowAt(t) \in Nat
      BY <1>2 DEF WindowAt
    <3> QED BY <2>1, <3>1, <3>2
  <2>3. Append(Kept, x) \in Seq(Stamp)
    BY <1>1, <2>2
  <2> QED BY <1>2, <1>5, <2>2, <2>3 DEF x
<1>6. CASE window' = TrimmedInPlace
  BY <1>1, <1>2, <1>6, TrimmedInPlaceFacts
<1> QED BY <1>3, <1>4, <1>5, <1>6 DEF RatePass, RateRefuse

\* A step that records nothing keeps what the window was found to weigh.
LEMMA WindowFrame ==
    ASSUME TokensInv, UNCHANGED spent, now' \in Nat, now' >= now,
           \A t \in Nat : t >= now => WindowAt(t) <= WindowAt(t)',
           window' \in Seq(Stamp)
    PROVE  /\ WindowHasSpends'
           /\ \A a \in advice, t \in Nat : (now' <= t /\ t < a - 1) => TokensPerMinute <= WindowAt(t)'
<1>1. now \in Nat /\ window \in Seq(Stamp) /\ TokensPerMinute \in Nat
  BY TokensTimeFacts DEF TokensInv, TokensTypeOK
<1>2. ASSUME NEW t \in Nat
      PROVE  /\ WindowAt(t) \in Nat /\ WindowAt(t)' \in Nat
             /\ TokensOf(SpentAt(t)) \in Nat /\ TokensOf(SpentAt(t))' = TokensOf(SpentAt(t))
  <2>1. Select(window, FreshAt(t)) \in Seq(Stamp) /\ Select(window', FreshAt(t)) \in Seq(Stamp)
    BY <1>1, SelectType
  <2>2. WindowAt(t)' = Sum(Select(window', FreshAt(t)))
    <3>1. FreshAt(t)' = FreshAt(t)
      BY DEF FreshAt
    <3> QED BY <3>1 DEF WindowAt, Sum
  <2>3. TokensOf(SpentAt(t))' = TokensOf(SpentAt(t))
    BY DEF SpentAt, TokensOf
  <2> QED BY <2>1, <2>2, <2>3, SumFacts, LogFacts DEF WindowAt, TokensInv
<1>3. ASSUME NEW t \in Nat, t >= now' PROVE t >= now /\ WindowAt(t) <= WindowAt(t)'
  BY <1>1, <1>3
<1>4. ASSUME NEW t \in Nat, t >= now' PROVE TokensOf(SpentAt(t))' <= WindowAt(t)'
  <2>1. TokensOf(SpentAt(t)) <= WindowAt(t)
    BY <1>3, <1>4 DEF TokensInv, WindowHasSpends
  <2> QED BY <1>2, <1>3, <1>4, <2>1
<1>5. ASSUME NEW a \in advice, NEW t \in Nat, now' <= t, t < a - 1 PROVE TokensPerMinute <= WindowAt(t)'
  <2>1. TokensPerMinute <= WindowAt(t)
    BY <1>1, <1>3, <1>5 DEF TokensInv, RefusalsLast
  <2> QED BY <1>1, <1>2, <1>3, <1>5, <2>1
<1>6. WindowHasSpends'
  BY <1>4 DEF WindowHasSpends
<1> QED BY <1>5, <1>6

(***************************************************************************)
(* The steps.                                                              *)
(***************************************************************************)
LEMMA TokensInitInv == TokensInit => TokensInv
<1> SUFFICES ASSUME TokensInit PROVE TokensInv
  OBVIOUS
<1>1. TokensTypeOK
  <2>1. window \in Seq(Stamp)
    BY DEF TokensInit
  <2> QED BY <2>1, TokensTimeFacts DEF TokensInit, TokensTypeOK
<1>2. Spends
  BY FS_EmptySet DEF TokensInit, Spends
<1>3. Billing
  <2>1. \A p \in Time : {e \in billed : e.period = p} = {} /\ quotas[p] = 0
    BY DEF TokensInit
  <2>2. TokensOf({}) = 0 /\ IsFiniteSet({})
    BY FS_EmptySet, TokensOfFacts
  <2> QED BY <2>1, <2>2 DEF TokensInit, Billing
<1>4. WindowHasSpends
  <2>1. ASSUME NEW t \in Nat PROVE TokensOf(SpentAt(t)) <= WindowAt(t)
    <3>1. SpentAt(t) = {}
      BY DEF SpentAt, TokensInit
    <3>2. TokensOf({}) = 0
      BY FS_EmptySet, TokensOfFacts
    <3>3. Select(window, FreshAt(t)) \in Seq(Stamp)
      BY <1>1, SelectType DEF TokensTypeOK
    <3>4. WindowAt(t) \in Nat
      BY <3>3, SumFacts DEF WindowAt
    <3> QED BY <3>1, <3>2, <3>4
  <2> QED BY <2>1 DEF WindowHasSpends
<1>5. RefusalsLast
  BY DEF TokensInit, RefusalsLast
<1> QED BY <1>1, <1>2, <1>3, <1>4, <1>5 DEF TokensInv

\* The logs and what they say of the quotas, in a step that adds nothing to
\* them.
LEMMA LogsKept ==
    ASSUME TokensInv, now' = now \/ (now' \in Nat /\ now' >= now),
           UNCHANGED <<estimate, total, spent, billed>>,
           (\A r \in Prompts : estimate[r] = 0) => quotas' = quotas,
           quotas' \in [Time -> Nat], \A p \in Time : quotas[p] <= quotas'[p],
           \A r \in Prompts : stage[r] \in {"charge", "done"} => stage'[r] = stage[r]
    PROVE  Spends' /\ Billing'
<1>1. /\ now \in Nat /\ \A e \in spent : e.request \in Prompts /\ e.at \in Nat
      /\ \A e \in billed : e.request \in Prompts
  BY TokensTimeFacts DEF TokensInv, TokensTypeOK
<1>2. Spends'
  BY <1>1 DEF TokensInv, Spends
<1>3. Billing'
  <2>1. \A e \in billed : stage'[e.request] = "done"
    BY <1>1 DEF TokensInv, Billing
  <2>2. \A e \in spent : stage[e.request] = "charge" => stage'[e.request] = "charge"
    BY <1>1
  <2>3. \A p \in Time : TokensOf({e \in billed : e.period = p})' = TokensOf({e \in billed : e.period = p})
    BY DEF TokensOf
  <2>4. ASSUME NEW p \in Time PROVE TokensOf({e \in billed : e.period = p}) <= quotas'[p]
    <3>1. /\ TokensOf({e \in billed : e.period = p}) <= quotas[p]
          /\ TokensOf({e \in billed : e.period = p}) \in Nat
      BY LogFacts DEF TokensInv, Billing
    <3>2. quotas[p] \in Nat /\ quotas'[p] \in Nat /\ quotas[p] <= quotas'[p]
      BY DEF TokensInv, TokensTypeOK
    <3> QED BY <3>1, <3>2
  <2> QED BY <2>1, <2>2, <2>3, <2>4 DEF TokensInv, Billing
<1> QED BY <1>2, <1>3

\* A step that changes neither the window nor the logs.
LEMMA QuietStep ==
    ASSUME TokensInv, TokensTypeOK', now' >= now,
           UNCHANGED <<estimate, total, window, spent, billed, advice>>,
           (\A r \in Prompts : estimate[r] = 0) => quotas' = quotas,
           \A p \in Time : quotas[p] <= quotas'[p],
           \A r \in Prompts : stage[r] \in {"charge", "done"} => stage'[r] = stage[r]
    PROVE  TokensInv'
<1>1. window' \in Seq(Stamp) /\ now' \in Nat /\ now \in Nat
  BY TokensTimeFacts DEF TokensInv, TokensTypeOK
<1>2. ASSUME NEW t \in Nat PROVE WindowAt(t) <= WindowAt(t)'
  <2>1. Select(window, FreshAt(t)) \in Seq(Stamp)
    BY SelectType DEF TokensInv, TokensTypeOK
  <2>2. WindowAt(t) \in Nat
    BY <2>1, SumFacts DEF WindowAt
  <2>3. WindowAt(t)' = WindowAt(t)
    BY DEF WindowAt, FreshAt, Sum
  <2> QED BY <2>2, <2>3
<1>3. WindowHasSpends' /\ RefusalsLast'
  BY <1>1, <1>2, WindowFrame DEF TokensInv, RefusalsLast
<1>4. Spends' /\ Billing'
  <2>1. quotas' \in [Time -> Nat]
    BY DEF TokensTypeOK
  <2> QED BY <1>1, <2>1, LogsKept
<1> QED BY <1>3, <1>4 DEF TokensInv

LEMMA TokenLimitStep ==
    ASSUME TokensInv, NEW r \in Prompts, TokenLimit(r)
    PROVE  TokensInv'
<1>1. /\ window' \in Seq(Stamp)
      /\ \A t \in Nat : t >= now => WindowAt(t) <= WindowAt(t)'
  BY RateStep DEF TokenLimit, TokensInv
<1>2. now \in Nat /\ window \in Seq(Stamp) /\ TokensPerMinute \in Nat /\ stage[r] = "new"
  BY TokensTimeFacts DEF TokensInv, TokensTypeOK, TokenLimit, RatePass, RateRefuse
<1>3. UNCHANGED <<now, estimate, total, quotas, spent, billed>>
  BY DEF TokenLimit
<1>4. /\ WindowHasSpends'
      /\ \A a \in advice, t \in Nat : (now' <= t /\ t < a - 1) => TokensPerMinute <= WindowAt(t)'
  BY <1>1, <1>2, <1>3, WindowFrame
<1>5. ASSUME RateRefuse(r)
      PROVE  RefusalsLast' /\ advice' \subseteq Nat /\ allowed' \in [Prompts -> BOOLEAN]
  <2>1. Sum(Kept) >= TokensPerMinute /\ TokensPerMinute > 0
        /\ advice' = advice \cup {Oldest + Minute + 1} /\ allowed' = [allowed EXCEPT ![r] = FALSE]
    BY <1>5 DEF RateRefuse
  <2>2. Sum(Kept) \in Nat
    <3>1. Kept \in Seq(Stamp)
      BY <1>2, SelectType DEF Kept
    <3> QED BY <3>1, SumFacts
  <2>3. /\ Oldest \in Nat
        /\ \A t \in Nat : (now <= t /\ t < Oldest + Minute) => WindowAt(t) = Sum(Kept)
    BY <1>2, <2>1, <2>2, OldestFacts
  <2>4. ASSUME NEW t \in Nat, now <= t, t < (Oldest + Minute + 1) - 1 PROVE TokensPerMinute <= WindowAt(t)'
    <3>1. WindowAt(t) = Sum(Kept)
      BY <2>3, <2>4, TokensTimeFacts
    <3>2. WindowAt(t) <= WindowAt(t)'
      BY <1>1, <2>4
    <3>3. WindowAt(t)' \in Nat
      <4>1. Select(window', FreshAt(t)) \in Seq(Stamp)
        BY <1>1, SelectType
      <4>2. WindowAt(t)' = Sum(Select(window', FreshAt(t)))
        BY DEF WindowAt, FreshAt, Sum
      <4> QED BY <4>1, <4>2, SumFacts
    <3> QED BY <1>2, <2>1, <2>2, <3>1, <3>2, <3>3
  <2>5. RefusalsLast'
    BY <1>2, <1>3, <1>4, <2>1, <2>4 DEF RefusalsLast
  <2>6. advice' \subseteq Nat /\ allowed' \in [Prompts -> BOOLEAN]
    BY <2>1, <2>3, TokensTimeFacts DEF TokensInv, TokensTypeOK
  <2> QED BY <2>5, <2>6
<1>6. ASSUME RatePass(r)
      PROVE  RefusalsLast' /\ advice' \subseteq Nat /\ allowed' \in [Prompts -> BOOLEAN]
  <2>1. UNCHANGED <<allowed, advice>>
    BY <1>6 DEF RatePass
  <2>2. RefusalsLast'
    BY <1>4, <2>1 DEF RefusalsLast, TokensInv
  <2>3. advice' \subseteq Nat /\ allowed' \in [Prompts -> BOOLEAN]
    BY <2>1 DEF TokensInv, TokensTypeOK
  <2> QED BY <2>2, <2>3
<1>7. RefusalsLast' /\ advice' \subseteq Nat /\ allowed' \in [Prompts -> BOOLEAN]
  BY <1>5, <1>6 DEF TokenLimit
<1>8. stage' = [stage EXCEPT ![r] = "quota"] /\ stage \in [Prompts -> {"new", "quota", "forward", "record", "charge", "done"}]
  BY DEF TokenLimit, TokensInv, TokensTypeOK
<1>9. TokensTypeOK'
  <2>1. stage' \in [Prompts -> {"new", "quota", "forward", "record", "charge", "done"}]
    BY <1>8
  <2> QED BY <1>1, <1>3, <1>7, <2>1 DEF TokensInv, TokensTypeOK
<1>10. \A e \in Prompts : stage[e] \in {"charge", "done"} => stage'[e] = stage[e]
  BY <1>2, <1>8
<1>11. Spends' /\ Billing'
  <2>1. quotas' \in [Time -> Nat] /\ \A p \in Time : quotas[p] <= quotas'[p]
    BY <1>3 DEF TokensInv, TokensTypeOK
  <2> QED BY <1>3, <1>10, <2>1, LogsKept
<1> QED BY <1>4, <1>7, <1>9, <1>11 DEF TokensInv

\* Periods of the quota: the one of a moment, and that they follow each other.
LEMMA PeriodFacts ==
    ASSUME NEW a \in Time, NEW b \in Time, a <= b
    PROVE  b \div QuotaPeriod \in Time /\ a \div QuotaPeriod <= b \div QuotaPeriod
<1>1. QuotaPeriod \in Nat /\ QuotaPeriod > 0 /\ a \in Nat /\ b \in Nat /\ MaxTime \in Nat /\ Time = 0..MaxTime
  BY TokensTimeFacts
<1> DEFINE m == a \div QuotaPeriod
           n == b \div QuotaPeriod
<1>2. m \in Nat /\ m * QuotaPeriod <= a /\ a < (m + 1) * QuotaPeriod
  BY <1>1
<1>3. n \in Nat /\ n * QuotaPeriod <= b /\ b < (n + 1) * QuotaPeriod
  BY <1>1
<1> HIDE DEF m, n
<1>4. n <= n * QuotaPeriod
  BY <1>1, <1>3
<1>5. m * QuotaPeriod < (n + 1) * QuotaPeriod
  <2>1. m * QuotaPeriod \in Nat /\ (n + 1) * QuotaPeriod \in Nat
    BY <1>1, <1>2, <1>3
  <2> QED BY <1>1, <1>2, <1>3, <2>1
<1>6. \A i, j \in Nat : i * QuotaPeriod < j * QuotaPeriod => i < j
  BY <1>1
<1>7. m < n + 1
  BY <1>2, <1>3, <1>5, <1>6
<1> QED BY <1>1, <1>2, <1>3, <1>4, <1>7 DEF m, n

LEMMA QuotaStep ==
    ASSUME TokensInv, NEW r \in Prompts, ApplyTokenQuota(r)
    PROVE  TokensInv'
<1> DEFINE p == tokenQuotaWindow
           within == TokenQuota = 0 \/ quotas[p] < TokenQuota
<1>1. /\ stage[r] = "quota"
      /\ quotas' = IF TokenQuota > 0 /\ within THEN [quotas EXCEPT ![p] = @ + estimate[r]] ELSE quotas
      /\ allowed' = [allowed EXCEPT ![r] = allowed[r] /\ within]
      /\ stage' = [stage EXCEPT ![r] = IF allowed[r] /\ within THEN "forward" ELSE "done"]
      /\ UNCHANGED <<now, estimate, total, window, spent, billed, advice>>
  BY DEF ApplyTokenQuota
<1>2. estimate[r] \in Nat /\ now \in Nat /\ p \in Time
  <2>1. estimate[r] \in Nat /\ now \in Nat /\ now \in Time
    BY TokensTimeFacts, TokenAssumption DEF TokensInv, TokensTypeOK
  <2> QED BY <2>1, PeriodFacts DEF tokenQuotaWindow
<1> HIDE DEF p, within
<1>3. quotas' \in [Time -> Nat]
  <2>1. quotas \in [Time -> Nat]
    BY DEF TokensInv, TokensTypeOK
  <2>2. ASSUME NEW q \in Nat PROVE [quotas EXCEPT ![p] = quotas[p] + q] \in [Time -> Nat]
    BY <1>2, <2>1, <2>2
  <2> QED BY <1>1, <1>2, <2>1, <2>2
<1>4. estimate[r] = 0 => quotas' = quotas
  <2>1. quotas \in [Time -> Nat]
    BY DEF TokensInv, TokensTypeOK
  <2> QED BY <1>1, <2>1
<1>5. allowed' \in [Prompts -> BOOLEAN]
  <2>1. allowed \in [Prompts -> BOOLEAN]
    BY DEF TokensInv, TokensTypeOK
  <2>2. (allowed[r] /\ within) \in BOOLEAN
    OBVIOUS
  <2> QED BY <1>1, <2>1, <2>2, Zenon
<1>6. stage \in [Prompts -> {"new", "quota", "forward", "record", "charge", "done"}]
  BY DEF TokensInv, TokensTypeOK
<1>7. stage' \in [Prompts -> {"new", "quota", "forward", "record", "charge", "done"}]
  BY <1>1, <1>6
<1>8. TokensTypeOK'
  BY <1>1, <1>3, <1>5, <1>7 DEF TokensInv, TokensTypeOK
<1>9. \A e \in Prompts : stage[e] \in {"charge", "done"} => stage'[e] = stage[e]
  BY <1>1, <1>6
<1>10. ASSUME NEW q \in Time PROVE quotas[q] <= quotas'[q]
  <2>1. quotas \in [Time -> Nat] /\ quotas[q] \in Nat
    BY DEF TokensInv, TokensTypeOK
  <2>2. quotas'[q] = quotas[q] \/ quotas'[q] = quotas[q] + estimate[r]
    BY <1>1, <1>2, <2>1
  <2> QED BY <1>2, <2>1, <2>2
<1>11. now' >= now
  BY <1>1, <1>2
<1> QED BY <1>1, <1>2, <1>4, <1>8, <1>9, <1>10, <1>11, QuietStep

LEMMA RecordStep ==
    ASSUME TokensInv, NEW r \in Prompts, recordTokens(r)
    PROVE  TokensInv'
<1> DEFINE x == [at |-> now, tokens |-> total[r]]
           e == [request |-> r, at |-> now, tokens |-> total[r]]
           next == IF TokenQuota > 0 THEN "charge" ELSE "done"
<1>1. /\ stage[r] = "record" /\ window' = Append(Kept, x) /\ spent' = spent \cup {e}
      /\ stage' = [stage EXCEPT ![r] = next]
      /\ UNCHANGED <<now, estimate, total, allowed, quotas, billed, advice>>
  BY DEF recordTokens
<1>2. /\ now \in Nat /\ now \in Time /\ total[r] \in Nat /\ window \in Seq(Stamp) /\ TokensPerMinute \in Nat
      /\ stage \in [Prompts -> {"new", "quota", "forward", "record", "charge", "done"}]
  BY TokensTimeFacts, TokenAssumption DEF TokensInv, TokensTypeOK
<1>3. x \in Stamp /\ x.at = now /\ x.tokens = total[r]
  BY <1>2 DEF Stamp
<1>4. e \in [request : Prompts, at : Time, tokens : Nat] /\ e.request = r /\ e.at = now /\ e.tokens = total[r]
  BY <1>2
<1>5. /\ \A d \in spent : d.request \in Prompts /\ d.request # r /\ d.at \in Nat
      /\ \A d \in billed : d.request \in Prompts /\ d.request # r
  BY <1>1, TokensTimeFacts DEF TokensInv, TokensTypeOK, Spends, Billing
<1>6. next \in {"charge", "done"} /\ (TokenQuota > 0 => next = "charge")
  OBVIOUS
<1> HIDE DEF x, e, next
<1>7. stage'[r] = next /\ \A q \in Prompts : q # r => stage'[q] = stage[q]
  BY <1>1, <1>2
<1>8. ASSUME NEW t \in Nat, t >= now
      PROVE  /\ Append(Kept, x) \in Seq(Stamp)
             /\ WindowAt(t) \in Nat
             /\ WindowAt(t)' = WindowAt(t) + (IF now > t - Minute THEN total[r] ELSE 0)
  <2>1. /\ Append(Kept, x) \in Seq(Stamp)
        /\ Sum(Select(Append(Kept, x), FreshAt(t))) =
             Sum(Select(window, FreshAt(t))) + (IF x.at > t - Minute THEN x.tokens ELSE 0)
    BY <1>2, <1>3, <1>8, SpendAdds DEF Kept
  <2>2. Select(window, FreshAt(t)) \in Seq(Stamp)
    BY <1>2, SelectType
  <2>3. WindowAt(t) = Sum(Select(window, FreshAt(t))) /\ WindowAt(t) \in Nat
    BY <2>2, SumFacts DEF WindowAt
  <2>4. WindowAt(t)' = Sum(Select(Append(Kept, x), FreshAt(t)))
    BY <1>1 DEF WindowAt, FreshAt, Sum
  <2> QED BY <1>3, <2>1, <2>3, <2>4
<1>9. window' \in Seq(Stamp)
  BY <1>1, <1>2, <1>8
<1>10. ASSUME NEW t \in Nat, t >= now PROVE TokensOf(SpentAt(t))' <= WindowAt(t)'
  <2>1. /\ TokensOf(SpentAt(t)) <= WindowAt(t) /\ TokensOf(SpentAt(t)) \in Nat
        /\ IsFiniteSet(SpentAt(t)) /\ \A d \in SpentAt(t) : d.tokens \in Nat
    BY <1>10, LogFacts DEF TokensInv, WindowHasSpends
  <2>2. TokensOf(SpentAt(t))' = TokensOf(SpentAt(t)')
    BY DEF TokensOf
  <2>3. CASE now > t - Minute
    <3>1. SpentAt(t)' = SpentAt(t) \cup {e}
      BY <1>1, <1>4, <2>3 DEF SpentAt
    <3>2. e \notin SpentAt(t)
      BY <1>4, <1>5 DEF SpentAt
    <3>3. TokensOf(SpentAt(t) \cup {e}) = TokensOf(SpentAt(t)) + total[r]
      BY <1>2, <1>4, <2>1, <3>2, TokensGain
    <3>4. WindowAt(t)' = WindowAt(t) + total[r] /\ WindowAt(t) \in Nat
      BY <1>8, <1>10, <2>3
    <3>5. TokensOf(SpentAt(t))' = TokensOf(SpentAt(t)) + total[r]
      BY <2>2, <3>1, <3>3
    <3> QED BY <1>2, <2>1, <3>4, <3>5
  <2>4. CASE ~ (now > t - Minute)
    <3>1. SpentAt(t)' = SpentAt(t)
      BY <1>1, <1>4, <2>4 DEF SpentAt
    <3>2. WindowAt(t)' = WindowAt(t)
      BY <1>8, <1>10, <2>4
    <3>3. TokensOf(SpentAt(t))' = TokensOf(SpentAt(t))
      BY <2>2, <3>1
    <3> QED BY <2>1, <3>2, <3>3
  <2> QED BY <2>3, <2>4
<1>11. WindowHasSpends'
  BY <1>1, <1>10 DEF WindowHasSpends
<1>12. RefusalsLast'
  <2>1. ASSUME NEW a \in advice, NEW t \in Nat, now <= t, t < a - 1 PROVE TokensPerMinute <= WindowAt(t)'
    <3>1. TokensPerMinute <= WindowAt(t)
      BY <2>1 DEF TokensInv, RefusalsLast
    <3>2. WindowAt(t) \in Nat /\ WindowAt(t)' = WindowAt(t) + (IF now > t - Minute THEN total[r] ELSE 0)
      BY <1>2, <1>8, <2>1
    <3> QED BY <1>2, <3>1, <3>2
  <2> QED BY <1>1, <2>1 DEF TokensInv, RefusalsLast
<1>13. Spends'
  <2>1. IsFiniteSet(spent \cup {e})
    BY FS_AddElement DEF TokensInv, Spends
  <2>2. ASSUME NEW d \in spent \cup {e}
        PROVE  d.at <= now /\ d.tokens = total[d.request] /\ stage'[d.request] \in {"charge", "done"}
    <3>1. CASE d = e
      BY <1>2, <1>4, <1>6, <1>7, <3>1
    <3>2. CASE d \in spent
      BY <1>5, <1>7, <3>2 DEF TokensInv, Spends
    <3> QED BY <3>1, <3>2
  <2> QED BY <1>1, <2>1, <2>2 DEF Spends
<1>14. Billing'
  <2>1. \A d \in billed : stage'[d.request] = "done"
    BY <1>5, <1>7 DEF TokensInv, Billing
  <2>2. ASSUME TokenQuota > 0, NEW d \in spent \cup {e}
        PROVE  stage'[d.request] = "charge" \/ \E b \in billed :
                 b.request = d.request /\ b.tokens = d.tokens /\ b.period >= d.at \div QuotaPeriod
    <3>1. CASE d = e
      BY <1>4, <1>6, <1>7, <2>2, <3>1
    <3>2. CASE d \in spent
      <4>1. stage'[d.request] = stage[d.request]
        BY <1>5, <1>7, <3>2
      <4> QED BY <2>2, <3>2, <4>1 DEF TokensInv, Billing
    <3> QED BY <2>2, <3>1, <3>2
  <2>3. \A p \in Time : TokensOf({d \in billed : d.period = p})' = TokensOf({d \in billed : d.period = p})
    BY <1>1 DEF TokensOf
  <2> QED BY <1>1, <2>1, <2>2, <2>3 DEF TokensInv, Billing
<1>15. TokensTypeOK'
  <2>1. stage' \in [Prompts -> {"new", "quota", "forward", "record", "charge", "done"}]
    BY <1>1, <1>2, <1>6
  <2>2. spent' \subseteq [request : Prompts, at : Time, tokens : Nat]
    BY <1>1, <1>4 DEF TokensInv, TokensTypeOK
  <2> QED BY <1>1, <1>9, <2>1, <2>2 DEF TokensInv, TokensTypeOK
<1> QED BY <1>11, <1>12, <1>13, <1>14, <1>15 DEF TokensInv

LEMMA ChargeStep ==
    ASSUME TokensInv, NEW r \in Prompts, chargeTokenQuota(r)
    PROVE  TokensInv'
<1> DEFINE p == tokenQuotaWindow
           b == [request |-> r, period |-> p, tokens |-> total[r]]
<1>1. /\ stage[r] = "charge" /\ quotas' = [quotas EXCEPT ![p] = quotas[p] + total[r]]
      /\ billed' = billed \cup {b}
      /\ stage' = [stage EXCEPT ![r] = "done"]
      /\ UNCHANGED <<now, estimate, total, allowed, window, spent, advice>>
  BY DEF chargeTokenQuota
<1>2. /\ now \in Nat /\ now \in Time /\ total[r] \in Nat /\ quotas \in [Time -> Nat] /\ window \in Seq(Stamp)
      /\ stage \in [Prompts -> {"new", "quota", "forward", "record", "charge", "done"}]
  BY TokensTimeFacts, TokenAssumption DEF TokensInv, TokensTypeOK
<1>3. p \in Time /\ p = now \div QuotaPeriod
  BY <1>2, PeriodFacts DEF tokenQuotaWindow
<1>4. /\ b \in [request : Prompts, period : Time, tokens : Nat]
      /\ b.request = r /\ b.period = p /\ b.tokens = total[r]
  BY <1>2, <1>3
<1> HIDE DEF p, b
<1>5. /\ \A d \in spent : d.request \in Prompts /\ d.at \in Time /\ d.at <= now /\ d.tokens = total[d.request]
      /\ \A d \in billed : d.request \in Prompts /\ d.request # r /\ stage[d.request] = "done"
  BY <1>1, TokensTimeFacts DEF TokensInv, TokensTypeOK, Spends, Billing
<1>6. stage'[r] = "done" /\ \A q \in Prompts : q # r => stage'[q] = stage[q]
  BY <1>1, <1>2
<1>7. quotas' \in [Time -> Nat] /\ quotas'[p] = quotas[p] + total[r]
      /\ \A q \in Time : q # p => quotas'[q] = quotas[q]
  BY <1>1, <1>2, <1>3
<1>8. TokensTypeOK'
  <2>1. stage' \in [Prompts -> {"new", "quota", "forward", "record", "charge", "done"}]
    BY <1>1, <1>2
  <2>2. billed' \subseteq [request : Prompts, period : Time, tokens : Nat]
    BY <1>1, <1>4 DEF TokensInv, TokensTypeOK
  <2> QED BY <1>1, <1>7, <2>1, <2>2 DEF TokensInv, TokensTypeOK
<1>9. Spends'
  BY <1>1, <1>5, <1>6 DEF TokensInv, Spends
<1>10. Billing'
  <2>1. IsFiniteSet(billed \cup {b})
    BY FS_AddElement DEF TokensInv, Billing
  <2>2. \A d \in billed \cup {b} : stage'[d.request] = "done"
    BY <1>4, <1>5, <1>6
  <2>3. ASSUME NEW q \in Time
        PROVE  /\ TokensOf({d \in billed \cup {b} : d.period = q}) <= quotas'[q]
               /\ (\A o \in Prompts : estimate[o] = 0) =>
                     quotas'[q] = TokensOf({d \in billed \cup {b} : d.period = q})
    <3> DEFINE A == {d \in billed : d.period = q}
    <3>1. /\ TokensOf(A) <= quotas[q] /\ TokensOf(A) \in Nat
          /\ (\A o \in Prompts : estimate[o] = 0) => quotas[q] = TokensOf(A)
          /\ IsFiniteSet(A) /\ \A d \in A : d.tokens \in Nat
      BY LogFacts DEF TokensInv, Billing
    <3>2. b \notin A
      BY <1>4, <1>5
    <3>3. CASE q = p
      <4>1. {d \in billed \cup {b} : d.period = q} = A \cup {b}
        BY <1>4, <3>3
      <4> HIDE DEF A
      <4>2. TokensOf(A \cup {b}) = TokensOf(A) + total[r]
        BY <1>2, <1>4, <3>1, <3>2, TokensGain
      <4>3. quotas[q] \in Nat /\ quotas'[q] = quotas[q] + total[r]
        BY <1>2, <1>7, <3>3
      <4>4. TokensOf(A) + total[r] <= quotas'[q]
        BY <1>2, <3>1, <4>3
      <4>5. (\A o \in Prompts : estimate[o] = 0) => quotas'[q] = TokensOf(A) + total[r]
        BY <3>1, <4>3
      <4>6. TokensOf({d \in billed \cup {b} : d.period = q}) = TokensOf(A) + total[r]
        BY <4>1, <4>2
      <4> QED BY <4>4, <4>5, <4>6
    <3>4. CASE q # p
      <4>1. {d \in billed \cup {b} : d.period = q} = A
        BY <1>4, <3>4
      <4>2. quotas'[q] = quotas[q]
        BY <1>7, <3>4
      <4> QED BY <3>1, <4>1, <4>2
    <3> QED BY <3>3, <3>4
  <2>4. ASSUME TokenQuota > 0, NEW d \in spent
        PROVE  stage'[d.request] = "charge" \/ \E c \in billed \cup {b} :
                 c.request = d.request /\ c.tokens = d.tokens /\ c.period >= d.at \div QuotaPeriod
    <3>1. CASE d.request = r
      <4>1. d.at \div QuotaPeriod <= now \div QuotaPeriod /\ now \div QuotaPeriod \in Time
        BY <1>2, <1>5, PeriodFacts
      <4>2. d.at \div QuotaPeriod <= b.period
        BY <1>3, <1>4, <4>1
      <4>3. b.period \in Nat /\ d.at \div QuotaPeriod \in Int
        BY <1>3, <1>4, <1>5, TokensTimeFacts
      <4>4. b.period >= d.at \div QuotaPeriod
        BY <4>2, <4>3
      <4> QED BY <1>4, <1>5, <3>1, <4>4
    <3>2. CASE d.request # r
      <4>1. stage'[d.request] = stage[d.request]
        BY <1>5, <1>6, <3>2
      <4> QED BY <2>4, <4>1 DEF TokensInv, Billing
    <3> QED BY <3>1, <3>2
  <2>5. \A q : TokensOf({d \in billed' : d.period = q}) = TokensOf({d \in billed : d.period = q})'
    BY DEF TokensOf
  <2> QED BY <1>1, <2>1, <2>2, <2>3, <2>4, <2>5 DEF Billing
<1>11. ASSUME NEW t \in Nat PROVE WindowAt(t) <= WindowAt(t)'
  <2>1. Select(window, FreshAt(t)) \in Seq(Stamp)
    BY <1>2, SelectType
  <2>2. WindowAt(t) \in Nat
    BY <2>1, SumFacts DEF WindowAt
  <2>3. WindowAt(t)' = WindowAt(t)
    BY <1>1 DEF WindowAt, FreshAt, Sum
  <2> QED BY <2>2, <2>3
<1>12. WindowHasSpends' /\ RefusalsLast'
  BY <1>1, <1>2, <1>11, WindowFrame DEF TokensInv, RefusalsLast
<1> QED BY <1>8, <1>9, <1>10, <1>12 DEF TokensInv

LEMMA TokensStep == TokensInv /\ [TokensNext]_tokensVars => TokensInv'
<1> SUFFICES ASSUME TokensInv, [TokensNext]_tokensVars PROVE TokensInv'
  OBVIOUS
<1>0. /\ now \in Nat /\ now \in Time /\ \A p \in Time : quotas[p] <= quotas[p]
      /\ stage \in [Prompts -> {"new", "quota", "forward", "record", "charge", "done"}]
  BY TokensTimeFacts DEF TokensInv, TokensTypeOK
<1>1. CASE Tick
  <2>1. now' \in Time /\ now' >= now
    BY <1>0, <1>1, TokensTimeFacts DEF Tick
  <2>2. TokensTypeOK'
    BY <1>1, <2>1 DEF Tick, TokensInv, TokensTypeOK
  <2> QED BY <1>0, <1>1, <2>1, <2>2, QuietStep DEF Tick
<1>2. ASSUME NEW r \in Prompts, TokenLimit(r) PROVE TokensInv'
  BY <1>2, TokenLimitStep
<1>3. ASSUME NEW r \in Prompts, ApplyTokenQuota(r) PROVE TokensInv'
  BY <1>3, QuotaStep
<1>4. ASSUME NEW r \in Prompts, Answer(r) PROVE TokensInv'
  <2>1. /\ stage[r] = "forward" /\ stage' = [stage EXCEPT ![r] = IF total[r] > 0 THEN "record" ELSE "done"]
        /\ UNCHANGED <<now, estimate, total, allowed, window, quotas, spent, billed, advice>>
    BY <1>4 DEF Answer
  <2>2. TokensTypeOK'
    <3>1. stage' \in [Prompts -> {"new", "quota", "forward", "record", "charge", "done"}]
      BY <1>0, <2>1
    <3> QED BY <2>1, <3>1 DEF TokensInv, TokensTypeOK
  <2>3. \A q \in Prompts : stage[q] \in {"charge", "done"} => stage'[q] = stage[q]
    BY <1>0, <2>1
  <2>4. now' >= now
    BY <1>0, <2>1
  <2> QED BY <1>0, <2>1, <2>2, <2>3, <2>4, QuietStep
<1>5. ASSUME NEW r \in Prompts, recordTokens(r) PROVE TokensInv'
  BY <1>5, RecordStep
<1>6. ASSUME NEW r \in Prompts, chargeTokenQuota(r) PROVE TokensInv'
  BY <1>6, ChargeStep
<1>7. CASE UNCHANGED tokensVars
  <2>1. UNCHANGED <<now, estimate, total, stage, allowed, window, quotas, spent, billed, advice>>
    BY <1>7 DEF tokensVars
  <2>2. TokensTypeOK'
    BY <2>1 DEF TokensInv, TokensTypeOK
  <2>3. now' >= now
    BY <1>0, <2>1
  <2> QED BY <1>0, <2>1, <2>2, <2>3, QuietStep
<1> QED BY <1>1, <1>2, <1>3, <1>4, <1>5, <1>6, <1>7 DEF TokensNext, Serve

LEMMA TokensAlways == TokensSpec => []TokensInv
BY TokensInitInv, TokensStep, PTL DEF TokensSpec

\* The variables keep their types: in particular no spend is ever recorded for
\* less than nothing, and every refusal by the rate is given a time.
THEOREM TokensTypeCorrect == TokensSpec => []TokensTypeOK
<1>1. TokensInv => TokensTypeOK
  BY DEF TokensInv
<1> QED BY <1>1, TokensAlways, PTL

\* Without prompt estimates a period's quota is what the answers billed to it
\* cost, and what the window was charged for is billed (finishLLMAccounting),
\* in whatever order answers end.
THEOREM QuotasExact == TokensSpec => []QuotaIsWhatWasSpent
<1>1. TokensInv => QuotaIsWhatWasSpent
  <2> SUFFICES ASSUME TokensInv, \A r \in Prompts : stage[r] \in {"new", "done"} /\ estimate[r] = 0
               PROVE  /\ \A p \in Time : quotas[p] = TokensOf({e \in billed : e.period = p})
                      /\ TokenQuota > 0 => \A e \in spent : \E b \in billed :
                            b.request = e.request /\ b.tokens = e.tokens /\ b.period >= e.at \div QuotaPeriod
    BY DEF QuotaIsWhatWasSpent
  <2>1. \A e \in spent : stage[e.request] # "charge"
    BY DEF TokensInv, TokensTypeOK
  <2> QED BY <2>1 DEF TokensInv, Billing
<1> QED BY <1>1, TokensAlways, PTL

\* A request that passes the rate has found the window below the budget.
LEMMA WhoPasses ==
    ASSUME TokensInv, [TokensNext]_tokensVars, NEW r \in Prompts,
           stage[r] = "new", stage'[r] = "quota", allowed'[r]
    PROVE  TokensPerMinute > 0 => WindowAt(now) < TokensPerMinute
<1>1. /\ stage \in [Prompts -> {"new", "quota", "forward", "record", "charge", "done"}]
      /\ allowed \in [Prompts -> BOOLEAN]
  BY DEF TokensInv, TokensTypeOK
<1>2. TokenLimit(r)
  <2>1. CASE Tick \/ UNCHANGED tokensVars
    BY <2>1 DEF Tick, tokensVars
  <2>2. ASSUME NEW q \in Prompts, Serve(q), q # r PROVE FALSE
    <3>1. stage'[r] = stage[r]
      BY <1>1, <2>2 DEF Serve, TokenLimit, ApplyTokenQuota, Answer, recordTokens, chargeTokenQuota
    <3> QED BY <3>1
  <2>3. CASE Serve(r)
    BY <2>3 DEF Serve, ApplyTokenQuota, Answer, recordTokens, chargeTokenQuota
  <2> QED BY <2>1, <2>2, <2>3 DEF TokensNext
<1>3. ~ RateRefuse(r)
  <2>1. RateRefuse(r) => ~ allowed'[r]
    BY <1>1 DEF RateRefuse
  <2> QED BY <2>1
<1>4. RatePass(r)
  BY <1>2, <1>3 DEF TokenLimit
<1> QED BY <1>4 DEF RatePass, WindowAt, Kept

\* No request passes the rate of tokenLimit while the answers recorded in the
\* last minute have cost the budget, whatever refusals, estimates and answers
\* have made of the window meanwhile.
THEOREM SpentBudgetRefuses == TokensSpec => OverspendRefusesNext
<1>1. TokensInv /\ [TokensNext]_tokensVars =>
        [\A r \in Prompts :
           (TokensPerMinute > 0 /\ stage[r] = "new" /\ stage'[r] = "quota" /\ allowed'[r])
               => TokensOf(SpentInMinute) < TokensPerMinute]_tokensVars
  <2> SUFFICES ASSUME TokensInv, [TokensNext]_tokensVars, NEW r \in Prompts,
                      TokensPerMinute > 0, stage[r] = "new", stage'[r] = "quota", allowed'[r]
               PROVE  TokensOf(SpentInMinute) < TokensPerMinute
    OBVIOUS
  <2>1. WindowAt(now) < TokensPerMinute
    BY WhoPasses
  <2>2. now \in Nat /\ window \in Seq(Stamp) /\ TokensPerMinute \in Nat
    BY TokensTimeFacts DEF TokensInv, TokensTypeOK
  <2>3. WindowAt(now) \in Nat
    <3>1. Select(window, FreshAt(now)) \in Seq(Stamp)
      BY <2>2, SelectType
    <3> QED BY <3>1, SumFacts DEF WindowAt
  <2>4. TokensOf(SpentAt(now)) <= WindowAt(now) /\ TokensOf(SpentAt(now)) \in Nat
    BY <2>2, LogFacts DEF TokensInv, WindowHasSpends
  <2>5. SpentInMinute = SpentAt(now)
    BY DEF SpentInMinute, SpentAt
  <2> QED BY <2>1, <2>2, <2>3, <2>4, <2>5
<1> QED BY <1>1, TokensAlways, PTL DEF TokensSpec, OverspendRefusesNext

\* Until the time that tokenLimit promised, its rounding aside, nobody passes
\* the rate: a refusal keeps the window at the budget until its oldest spend
\* leaves.
THEOREM RetryAfterHolds == TokensSpec => NoPassBeforeRetryAfter
<1>1. TokensInv /\ [TokensNext]_tokensVars =>
        [\A r \in Prompts :
           (stage[r] = "new" /\ stage'[r] = "quota" /\ allowed'[r])
               => \A t \in advice : now >= t - 1]_tokensVars
  <2> SUFFICES ASSUME TokensInv, [TokensNext]_tokensVars, NEW r \in Prompts,
                      stage[r] = "new", stage'[r] = "quota", allowed'[r], NEW t \in advice
               PROVE  now >= t - 1
    OBVIOUS
  <2>1. TokensPerMinute > 0 => WindowAt(now) < TokensPerMinute
    BY WhoPasses
  <2>2. now \in Nat /\ window \in Seq(Stamp) /\ TokensPerMinute \in Nat /\ t \in Nat
    BY TokensTimeFacts DEF TokensInv, TokensTypeOK
  <2>3. WindowAt(now) \in Nat
    <3>1. Select(window, FreshAt(now)) \in Seq(Stamp)
      BY <2>2, SelectType
    <3> QED BY <3>1, SumFacts DEF WindowAt
  <2>4. TokensPerMinute > 0
    BY <2>2 DEF TokensInv, RefusalsLast
  <2>5. now < t - 1 => TokensPerMinute <= WindowAt(now)
    BY <2>2 DEF TokensInv, RefusalsLast
  <2> QED BY <2>1, <2>2, <2>3, <2>4, <2>5
<1> QED BY <1>1, TokensAlways, PTL DEF TokensSpec, NoPassBeforeRetryAfter

\* Of the quota as of the rate: executeLLMTokenLimit forwards no request while
\* the answers billed to the current period have cost the quota, with or
\* without estimates and in whatever order answers ended.
THEOREM SpentQuotaRefuses ==
    TokensSpec =>
        [][\A r \in Prompts :
             (TokenQuota > 0 /\ stage[r] = "quota" /\ stage'[r] = "forward")
                 => TokensOf({e \in billed : e.period = tokenQuotaWindow}) < TokenQuota]_tokensVars
<1>1. TokensInv /\ [TokensNext]_tokensVars =>
        [\A r \in Prompts :
           (TokenQuota > 0 /\ stage[r] = "quota" /\ stage'[r] = "forward")
               => TokensOf({e \in billed : e.period = tokenQuotaWindow}) < TokenQuota]_tokensVars
  <2> SUFFICES ASSUME TokensInv, [TokensNext]_tokensVars, NEW r \in Prompts,
                      TokenQuota > 0, stage[r] = "quota", stage'[r] = "forward"
               PROVE  TokensOf({e \in billed : e.period = tokenQuotaWindow}) < TokenQuota
    OBVIOUS
  <2>1. stage \in [Prompts -> {"new", "quota", "forward", "record", "charge", "done"}]
    BY DEF TokensInv, TokensTypeOK
  <2>2. ApplyTokenQuota(r)
    <3>1. CASE Tick \/ UNCHANGED tokensVars
      BY <3>1 DEF Tick, tokensVars
    <3>2. ASSUME NEW q \in Prompts, Serve(q), q # r PROVE FALSE
      <4>1. stage'[r] = stage[r]
        BY <2>1, <3>2 DEF Serve, TokenLimit, ApplyTokenQuota, Answer, recordTokens, chargeTokenQuota
      <4> QED BY <4>1
    <3>3. CASE Serve(r)
      BY <3>3 DEF Serve, TokenLimit, RatePass, RateRefuse, Answer, recordTokens, chargeTokenQuota
    <3> QED BY <3>1, <3>2, <3>3 DEF TokensNext
  <2>3. quotas[tokenQuotaWindow] < TokenQuota
    <3>1. stage' = [stage EXCEPT ![r] =
             IF allowed[r] /\ (TokenQuota = 0 \/ quotas[tokenQuotaWindow] < TokenQuota) THEN "forward" ELSE "done"]
      BY <2>2 DEF ApplyTokenQuota
    <3> QED BY <2>1, <3>1, TokensTimeFacts
  <2>4. tokenQuotaWindow \in Time
    <3>1. now \in Time /\ now <= now
      BY TokensTimeFacts DEF TokensInv, TokensTypeOK
    <3> QED BY <3>1, PeriodFacts DEF tokenQuotaWindow
  <2>5. /\ TokensOf({e \in billed : e.period = tokenQuotaWindow}) <= quotas[tokenQuotaWindow]
        /\ TokensOf({e \in billed : e.period = tokenQuotaWindow}) \in Nat
        /\ quotas[tokenQuotaWindow] \in Nat
    BY <2>4, LogFacts DEF TokensInv, TokensTypeOK, Billing
  <2> HIDE DEF tokenQuotaWindow
  <2> QED BY <2>3, <2>5, TokensTimeFacts
<1> QED BY <1>1, TokensAlways, PTL DEF TokensSpec
=============================================================================

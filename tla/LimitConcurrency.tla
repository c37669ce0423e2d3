-------------------------- MODULE LimitConcurrency --------------------------
(***************************************************************************)
(* limit-concurrency policies that share one key.  A semaphore is a Go     *)
(* channel with the policy's max-count as its capacity.  A request that    *)
(* finds no channel, or one of another capacity, installs a new channel;   *)
(* the requests inside keep the channel they entered by.                   *)
(*                                                                         *)
(* A request may pass several such policies.  It keeps every slot until    *)
(* its response is settled and then gives them back, last one first.       *)
(***************************************************************************)
EXTENDS Naturals, FiniteSets

CONSTANTS
    Requests,
    MaxCounts,      \* the max-count values of the policies with this key
    MaxNested,      \* bound: policies with this key that one request passes
    MaxSemaphores   \* bound: channels made in a behaviour

ASSUME ConcurrencyAssumption ==
    /\ IsFiniteSet(Requests)
    /\ MaxCounts \subseteq Nat \ {0}
    /\ MaxNested \in Nat /\ MaxSemaphores \in Nat

None == 0
Semaphores == 1..MaxSemaphores

VARIABLES
    current,   \* Runtime.concurrency[key]
    made,      \* how many channels were made so far
    capacity,  \* cap() of each channel
    tokens,    \* len() of each channel
    step,      \* where each request is
    depth,     \* len(State.ConcurrencyReleases)
    held       \* the channel behind each release function

vars == <<current, made, capacity, tokens, step, depth, held>>

Slots == Requests \X (1..MaxNested)

TypeOK ==
    /\ current \in {None} \cup Semaphores
    /\ made \in 0..MaxSemaphores
    /\ capacity \in [Semaphores -> Nat]
    /\ tokens \in [Semaphores -> Nat]
    /\ step \in [Requests -> {"outside", "inside", "settling"}]
    /\ depth \in [Requests -> 0..MaxNested]
    /\ held \in [Slots -> {None} \cup Semaphores]

Init ==
    /\ current = None
    /\ made = 0
    /\ capacity = [s \in Semaphores |-> 0]
    /\ tokens = [s \in Semaphores |-> 0]
    /\ step = [r \in Requests |-> "outside"]
    /\ depth = [r \in Requests |-> 0]
    /\ held = [x \in Slots |-> None]

Enter(r, s) ==
    /\ held' = [held EXCEPT ![<<r, depth[r] + 1>>] = s]
    /\ depth' = [depth EXCEPT ![r] = @ + 1]
    /\ step' = [step EXCEPT ![r] = "inside"]

MayEnter(r) == step[r] # "settling" /\ depth[r] < MaxNested

Fits(max) == current # None /\ capacity[current] = max

\* Mutant: a full channel lets the request in without taking a token.
AcquireFull(r, max) ==
    /\ MayEnter(r)
    /\ Fits(max)
    /\ tokens' = IF tokens[current] < max THEN [tokens EXCEPT ![current] = @ + 1] ELSE tokens
    /\ Enter(r, current)
    /\ UNCHANGED <<current, made, capacity>>

\* acquireConcurrency: the installed channel has the policy's capacity and a
\* free place.
Acquire(r, max) ==
    /\ MayEnter(r)
    /\ Fits(max)
    /\ tokens[current] < max
    /\ tokens' = [tokens EXCEPT ![current] = @ + 1]
    /\ Enter(r, current)
    /\ UNCHANGED <<current, made, capacity>>

\* acquireConcurrency: a new channel, and the first token into it.
AcquireFresh(r, max) ==
    /\ MayEnter(r)
    /\ ~ Fits(max)
    /\ made < MaxSemaphores
    /\ made' = made + 1
    /\ current' = made'
    /\ capacity' = [capacity EXCEPT ![made'] = max]
    /\ tokens' = [tokens EXCEPT ![made'] = 1]
    /\ Enter(r, made')

\* Mutant: a refused request returns without its earlier slots.
RefuseAndForget(r, max) ==
    /\ MayEnter(r)
    /\ Fits(max)
    /\ tokens[current] >= max
    /\ step' = [step EXCEPT ![r] = "outside"]
    /\ UNCHANGED <<current, made, capacity, tokens, depth, held>>

\* The channel is full: 429, the response is settled without entering.
Refuse(r, max) ==
    /\ MayEnter(r)
    /\ Fits(max)
    /\ tokens[current] >= max
    /\ step' = [step EXCEPT ![r] = IF depth[r] = 0 THEN "outside" ELSE "settling"]
    /\ UNCHANGED <<current, made, capacity, tokens, depth, held>>

\* The pipeline ends, by any return of ServeHTTP.
Finish(r) ==
    /\ step[r] = "inside"
    /\ step' = [step EXCEPT ![r] = "settling"]
    /\ UNCHANGED <<current, made, capacity, tokens, depth, held>>

\* Mutant: the token goes back to whichever channel is installed now.
ReleaseCurrent(r) ==
    /\ step[r] = "settling"
    /\ depth[r] > 0
    /\ tokens[current] > 0
    /\ tokens' = [tokens EXCEPT ![current] = @ - 1]
    /\ held' = [held EXCEPT ![<<r, depth[r]>>] = None]
    /\ depth' = [depth EXCEPT ![r] = @ - 1]
    /\ step' = [step EXCEPT ![r] = IF depth[r] = 1 THEN "outside" ELSE @]
    /\ UNCHANGED <<current, made, capacity>>

\* Mutant: a release function that is not guarded by sync.Once runs twice.
ReleaseTwice(r) ==
    LET s == held[<<r, depth[r]>>]
    IN  /\ step[r] = "settling"
        /\ depth[r] > 0
        /\ tokens[s] > 0
        /\ tokens' = [tokens EXCEPT ![s] = @ - 2]
        /\ held' = [held EXCEPT ![<<r, depth[r]>>] = None]
        /\ depth' = [depth EXCEPT ![r] = @ - 1]
        /\ step' = [step EXCEPT ![r] = IF depth[r] = 1 THEN "outside" ELSE @]
        /\ UNCHANGED <<current, made, capacity>>

\* One release function: a receive from the channel it was made with, which
\* would block on an empty channel.
Release(r) ==
    LET s == held[<<r, depth[r]>>]
    IN  /\ step[r] = "settling"
        /\ depth[r] > 0
        /\ tokens[s] > 0
        /\ tokens' = [tokens EXCEPT ![s] = @ - 1]
        /\ held' = [held EXCEPT ![<<r, depth[r]>>] = None]
        /\ depth' = [depth EXCEPT ![r] = @ - 1]
        /\ step' = [step EXCEPT ![r] = IF depth[r] = 1 THEN "outside" ELSE @]
        /\ UNCHANGED <<current, made, capacity>>

RequestStep(r) ==
    \/ \E max \in MaxCounts : Acquire(r, max) \/ AcquireFresh(r, max) \/ Refuse(r, max)
    \/ Finish(r)
    \/ Release(r)

Next == \E r \in Requests : RequestStep(r)

\* The backend answers or the caller hangs up, and net/http runs the handler
\* to its end.
Fairness == \A r \in Requests : WF_vars(Finish(r)) /\ WF_vars(Release(r))

Spec == Init /\ [][Next]_vars
FairSpec == Spec /\ Fairness

-----------------------------------------------------------------------------
HoldersOf(s) == {x \in Slots : held[x] = s}

\* No channel ever admits more requests than its capacity, across every
\* replacement of the installed channel.
SemaphoreBound ==
    \A s \in 1..made : Cardinality(HoldersOf(s)) <= capacity[s]

\* A release finds a token to take: no handler hangs in its deferred
\* releases.
ReleaseNeverBlocks ==
    \A r \in Requests : depth[r] > 0 => tokens[held[<<r, depth[r]>>]] > 0

\* Every slot that was taken is given back.
SlotsComeBack ==
    \A r \in Requests : (depth[r] > 0) ~> (depth[r] = 0)

-----------------------------------------------------------------------------
(***************************************************************************)
(* The inductive invariant: a channel holds one token per slot taken       *)
(* through it, slots are taken in order, and every channel in use was      *)
(* made.                                                                   *)
(***************************************************************************)
TokensAreHolders ==
    \A s \in Semaphores :
        /\ tokens[s] = Cardinality(HoldersOf(s))
        /\ tokens[s] <= capacity[s]

SlotsInOrder ==
    \A r \in Requests : \A i \in 1..MaxNested : held[<<r, i>>] # None <=> i <= depth[r]

MadeInOrder ==
    /\ current = made
    /\ \A x \in Slots : held[x] <= made
    /\ \A s \in 1..made : capacity[s] \in MaxCounts

SemaphoreInv == TypeOK /\ TokensAreHolders /\ SlotsInOrder /\ MadeInOrder
=============================================================================

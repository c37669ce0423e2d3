----------------------------- MODULE Activation -----------------------------
(***************************************************************************)
(* Management writes and the configuration they activate.                  *)
(*                                                                         *)
(* Every mutating request follows the same path: write one row of the      *)
(* store, then rebuild the whole runtime from the store (Runtime.Activate) *)
(* and publish it, or leave the runtime alone and answer an error.  The    *)
(* row stays written either way.  ARM requests hold Handler.mutationMu     *)
(* from before their checks until after their answer.  The operator        *)
(* portal's handlers call the same store and the same Activate and hold    *)
(* nothing.  Reading the store is one query per table on a single          *)
(* connection, so a rebuild is a sequence of atomic reads.                 *)
(*                                                                         *)
(* A crash loses the runtime and keeps the store.  Startup (server.New)    *)
(* rebuilds with Runtime.Restore, which adopts documents that do not       *)
(* compile instead of refusing them.                                       *)
(***************************************************************************)
EXTENDS ConfigData, Sequences

CONSTANTS
    ArmWriters,      \* management clients
    PortalWriters,   \* operator portal clients
    ArmRequests,     \* the writes ARM clients may ask for
    PortalRequests,  \* the writes the portal may ask for
    InitialStores,   \* what the data directory may hold at first start
    MaxRequests,     \* bound: requests issued over a behaviour
    NoOne            \* mutationMu is free

Writers == ArmWriters \cup PortalWriters

\* A request names a row and its new content; Absent is a DELETE.
RequestSpace == UNION {[table : {t}, key : KeysOf[t], row : {Absent} \cup RowsOf[t]] : t \in Tables}

ASSUME WriterAssumption ==
    /\ ArmWriters \cap PortalWriters = {}
    /\ NoOne \notin Writers
    /\ ArmRequests \subseteq RequestSpace
    /\ PortalRequests \subseteq RequestSpace
    /\ \A q \in PortalRequests : q.row # Absent
    /\ InitialStores \subseteq {d \in Database : validateBackendCertificates(d)}
    /\ MaxRequests \in Nat

VARIABLES
    store,    \* the committed tables
    snap,     \* Runtime.current: the tables the published snapshot was built from
    failing,  \* Runtime.failing: scopes failing at the last activation that took
    up,       \* the process is serving
    mutex,    \* Handler.mutationMu
    pc,       \* where each writer's handler is
    req,      \* the row each writer is writing
    read,     \* the tables each writer's activation has read so far
    loaded,   \* how many tables that is
    verdict,  \* what each writer's handler is about to answer
    before,   \* history: scopes that failed in the store just before the write
    issued    \* requests issued so far

vars == <<store, snap, failing, up, mutex, pc, req, read, loaded, verdict, before, issued>>
local == <<req, read, loaded, verdict, before>>

Steps == {"idle", "lock", "check", "commit", "load", "judge", "swap", "record", "reply"}
Verdicts == {"none", "refused", "rejected", "accepted"}

\* RuntimeData ends with the policies; the per-service lists follow it.
LoadOrder == <<"policies", "named_values", "backends", "certificates", "policy_fragments">>

TypeOK ==
    /\ store \in Database
    /\ snap \in Database
    /\ failing \subseteq Scopes
    /\ up \in BOOLEAN
    /\ mutex \in ArmWriters \cup {NoOne}
    /\ pc \in [Writers -> Steps]
    /\ req \in [Writers -> {Absent} \cup RequestSpace]
    /\ read \in [Writers -> Database]
    /\ loaded \in [Writers -> 0..Len(LoadOrder)]
    /\ verdict \in [Writers -> Verdicts]
    /\ before \in [Writers -> SUBSET Scopes]
    /\ issued \in 0..MaxRequests

\* server.New has opened a data directory, possibly an older build's, and
\* restored it.
Init ==
    /\ store \in InitialStores
    /\ snap = store
    /\ failing = Failures(store)
    /\ up = TRUE
    /\ mutex = NoOne
    /\ pc = [w \in Writers |-> "idle"]
    /\ req = [w \in Writers |-> Absent]
    /\ read = [w \in Writers |-> EmptyDatabase]
    /\ loaded = [w \in Writers |-> 0]
    /\ verdict = [w \in Writers |-> "none"]
    /\ before = [w \in Writers |-> {}]
    /\ issued = 0

Issue(w, q, step) ==
    /\ up
    /\ pc[w] = "idle"
    /\ issued < MaxRequests
    /\ issued' = issued + 1
    /\ req' = [req EXCEPT ![w] = q]
    /\ pc' = [pc EXCEPT ![w] = step]
    /\ UNCHANGED <<store, snap, failing, up, mutex, read, loaded, verdict, before>>

\* An ARM request for one row of table t arrives and waits for the lock.
Submit(w, t, rows) ==
    /\ w \in ArmWriters
    /\ \E q \in ArmRequests : q.table = t /\ q.row \in rows /\ Issue(w, q, "lock")

\* PUT of a policy.  There is no DELETE; the document goes with its API.
policyResource(w) == Submit(w, "policies", Docs)
deleteAPI(w) == Submit(w, "policies", {Absent})
\* PUT, PATCH and DELETE of the resources documents depend on.
policyFragment(w) == Submit(w, "policy_fragments", {Absent} \cup RowsOf["policy_fragments"])
namedValue(w) == Submit(w, "named_values", {Absent} \cup RowsOf["named_values"])
backend(w) == Submit(w, "backends", {Absent} \cup RowsOf["backends"])
certificate(w) == Submit(w, "certificates", {Absent} \cup RowsOf["certificates"])

ArmRequest(w) ==
    \/ policyResource(w) \/ deleteAPI(w) \/ policyFragment(w)
    \/ namedValue(w) \/ backend(w) \/ certificate(w)

\* The portal's handlers read the row they edit (404 when it is gone) and
\* write the edited row later.  The policy form does not read first.
portalPolicy(w, q) == q.table = "policies" /\ Issue(w, q, "commit")
portalNamedValue(w, q) ==
    q.table = "named_values" /\ store[q.table][q.key] # Absent /\ Issue(w, q, "commit")
\* The backend form keeps the certificate references it read.
portalBackend(w, q) ==
    q.table = "backends" /\ q.row = store[q.table][q.key] /\ Issue(w, q, "commit")
portalCertificate(w, q) ==
    q.table = "certificates" /\ q.row = store[q.table][q.key] /\ Issue(w, q, "commit")

PortalRequest(w) ==
    /\ w \in PortalWriters
    /\ \E q \in PortalRequests :
          \/ portalPolicy(w, q) \/ portalNamedValue(w, q)
          \/ portalBackend(w, q) \/ portalCertificate(w, q)

\* Handler.ServeHTTP takes the mutation lock; the portal handlers never do.
Lock(w) ==
    /\ w \in ArmWriters
    /\ pc[w] = "lock"
    /\ mutex = NoOne
    /\ mutex' = w
    /\ pc' = [pc EXCEPT ![w] = "check"]
    /\ UNCHANGED <<store, snap, failing, up, local, issued>>

\* policyFragment DELETE answers 409 while a stored policy includes it.
InUse(q) ==
    /\ q.table = "policy_fragments"
    /\ q.row = Absent
    /\ ListPolicyFragmentReferences(q.key, store) # {}

Check(w) ==
    /\ pc[w] = "check"
    /\ pc' = [pc EXCEPT ![w] = IF InUse(req[w]) THEN "reply" ELSE "commit"]
    /\ verdict' = [verdict EXCEPT ![w] = IF InUse(req[w]) THEN "refused" ELSE "none"]
    /\ UNCHANGED <<store, snap, failing, up, mutex, req, read, loaded, before, issued>>

\* Mutant: DELETE leaves an empty row behind.
CommitTombstone(w) ==
    /\ pc[w] = "commit"
    /\ store' = [store EXCEPT ![req[w].table] =
                    [@ EXCEPT ![req[w].key] = IF req[w].row = Absent THEN {} ELSE req[w].row]]
    /\ before' = [before EXCEPT ![w] = Failures(store)]
    /\ loaded' = [loaded EXCEPT ![w] = 0]
    /\ pc' = [pc EXCEPT ![w] = "load"]
    /\ UNCHANGED <<snap, failing, up, mutex, req, read, verdict, issued>>

\* Mutant: a handler that answers after its write without activating it.
CommitWithoutActivating(w) ==
    /\ pc[w] = "commit"
    /\ store' = [store EXCEPT ![req[w].table] = [@ EXCEPT ![req[w].key] = req[w].row]]
    /\ verdict' = [verdict EXCEPT ![w] = "accepted"]
    /\ pc' = [pc EXCEPT ![w] = "reply"]
    /\ UNCHANGED <<snap, failing, up, mutex, req, read, loaded, before, issued>>

\* The Upsert or Delete transaction of the handler.
Commit(w) ==
    /\ pc[w] = "commit"
    /\ store' = [store EXCEPT ![req[w].table] = [@ EXCEPT ![req[w].key] = req[w].row]]
    /\ before' = [before EXCEPT ![w] = Failures(store)]
    /\ loaded' = [loaded EXCEPT ![w] = 0]
    /\ pc' = [pc EXCEPT ![w] = "load"]
    /\ UNCHANGED <<snap, failing, up, mutex, req, read, verdict, issued>>

\* One query of Runtime.activate.
LoadTable(w) ==
    LET t == LoadOrder[loaded[w] + 1]
    IN  /\ pc[w] = "load"
        /\ loaded[w] < Len(LoadOrder)
        /\ read' = [read EXCEPT ![w] = [@ EXCEPT ![t] = store[t]]]
        /\ loaded' = [loaded EXCEPT ![w] = @ + 1]

\* Mutant: activation ends at the certificate check, before the fragments.
LoadSkipsFragments(w) ==
    /\ LoadTable(w)
    /\ loaded'[w] = 4 => validateBackendCertificates(read'[w])
    /\ pc' = [pc EXCEPT ![w] = IF loaded'[w] = 4 THEN "judge" ELSE "load"]
    /\ UNCHANGED <<store, snap, failing, up, mutex, req, verdict, before, issued>>

\* Mutant: activation does not look up the certificates backends name.
LoadUnchecked(w) ==
    /\ LoadTable(w)
    /\ pc' = [pc EXCEPT ![w] = IF loaded'[w] = Len(LoadOrder) THEN "judge" ELSE "load"]
    /\ UNCHANGED <<store, snap, failing, up, mutex, req, verdict, before, issued>>

\* The query succeeds and activation goes on to the next table.
Load(w) ==
    /\ LoadTable(w)
    /\ loaded'[w] = 4 => validateBackendCertificates(read'[w])
    /\ pc' = [pc EXCEPT ![w] = IF loaded'[w] = Len(LoadOrder) THEN "judge" ELSE "load"]
    /\ UNCHANGED <<store, snap, failing, up, mutex, req, verdict, before, issued>>

\* A backend names a certificate that is gone: activate returns the error.
LoadFails(w) ==
    /\ LoadTable(w)
    /\ loaded'[w] = 4
    /\ ~ validateBackendCertificates(read'[w])
    /\ pc' = [pc EXCEPT ![w] = "reply"]
    /\ verdict' = [verdict EXCEPT ![w] = "rejected"]
    /\ UNCHANGED <<store, snap, failing, up, mutex, req, before, issued>>

\* Mutant: every failing document is adopted, as Restore does.
NewFailuresIgnored(w) == {}

\* Documents that fail now and were not failing at the last activation that took.
NewFailures(w) == Failures(read[w]) \ failing

Judge(w) ==
    /\ pc[w] = "judge"
    /\ pc' = [pc EXCEPT ![w] = IF NewFailures(w) = {} THEN "swap" ELSE "reply"]
    /\ verdict' = [verdict EXCEPT ![w] = IF NewFailures(w) = {} THEN "none" ELSE "rejected"]
    /\ UNCHANGED <<store, snap, failing, up, mutex, req, read, loaded, before, issued>>

\* r.current.Store(snapshot)
Swap(w) ==
    /\ pc[w] = "swap"
    /\ snap' = read[w]
    /\ pc' = [pc EXCEPT ![w] = "record"]
    /\ UNCHANGED <<store, failing, up, mutex, local, issued>>

\* Mutant: scopes that were repaired stay recorded as failing.
RecordAccumulates(w) ==
    /\ pc[w] = "record"
    /\ failing' = failing \cup Failures(read[w])
    /\ pc' = [pc EXCEPT ![w] = "reply"]
    /\ verdict' = [verdict EXCEPT ![w] = "accepted"]
    /\ UNCHANGED <<store, snap, up, mutex, req, read, loaded, before, issued>>

\* r.recordFailing(failures)
Record(w) ==
    /\ pc[w] = "record"
    /\ failing' = Failures(read[w])
    /\ pc' = [pc EXCEPT ![w] = "reply"]
    /\ verdict' = [verdict EXCEPT ![w] = "accepted"]
    /\ UNCHANGED <<store, snap, up, mutex, req, read, loaded, before, issued>>

\* Mutant: an error return that skips the unlock.
ReplyKeepsLock(w) ==
    /\ pc[w] = "reply"
    /\ mutex' = IF mutex = w /\ verdict[w] = "accepted" THEN NoOne ELSE mutex
    /\ pc' = [pc EXCEPT ![w] = "idle"]
    /\ req' = [req EXCEPT ![w] = Absent]
    /\ read' = [read EXCEPT ![w] = EmptyDatabase]
    /\ loaded' = [loaded EXCEPT ![w] = 0]
    /\ verdict' = [verdict EXCEPT ![w] = "none"]
    /\ before' = [before EXCEPT ![w] = {}]
    /\ UNCHANGED <<store, snap, failing, up, issued>>

\* The handler answers and returns, which releases the mutation lock and
\* ends its local variables.
Reply(w) ==
    /\ pc[w] = "reply"
    /\ mutex' = IF mutex = w THEN NoOne ELSE mutex
    /\ pc' = [pc EXCEPT ![w] = "idle"]
    /\ req' = [req EXCEPT ![w] = Absent]
    /\ read' = [read EXCEPT ![w] = EmptyDatabase]
    /\ loaded' = [loaded EXCEPT ![w] = 0]
    /\ verdict' = [verdict EXCEPT ![w] = "none"]
    /\ before' = [before EXCEPT ![w] = {}]
    /\ UNCHANGED <<store, snap, failing, up, issued>>

\* The process dies at any point: only the committed store survives.
Crash ==
    /\ up
    /\ up' = FALSE
    /\ mutex' = NoOne
    /\ pc' = [w \in Writers |-> "idle"]
    /\ snap' = EmptyDatabase
    /\ failing' = {}
    /\ req' = [w \in Writers |-> Absent]
    /\ read' = [w \in Writers |-> EmptyDatabase]
    /\ loaded' = [w \in Writers |-> 0]
    /\ verdict' = [w \in Writers |-> "none"]
    /\ before' = [w \in Writers |-> {}]
    /\ UNCHANGED <<store, issued>>

\* Mutant: the process serves before it has read the store.
RestoreEmpty ==
    /\ ~ up
    /\ validateBackendCertificates(store)
    /\ up' = TRUE
    /\ snap' = EmptyDatabase
    /\ failing' = {}
    /\ UNCHANGED <<store, mutex, pc, local, issued>>

\* server.New: Restore runs before anything is served.
Restore ==
    /\ ~ up
    /\ validateBackendCertificates(store)
    /\ up' = TRUE
    /\ snap' = store
    /\ failing' = Failures(store)
    /\ UNCHANGED <<store, mutex, pc, local, issued>>

\* Restore returns an error: New closes the store and the process exits.
RestoreFails ==
    /\ ~ up
    /\ ~ validateBackendCertificates(store)
    /\ UNCHANGED vars

HandlerStep(w) ==
    \/ Lock(w) \/ Check(w) \/ Commit(w) \/ Load(w) \/ LoadFails(w)
    \/ Judge(w) \/ Swap(w) \/ Record(w) \/ Reply(w)

Next ==
    \/ \E w \in Writers : ArmRequest(w) \/ PortalRequest(w) \/ HandlerStep(w)
    \/ Crash
    \/ Restore
    \/ RestoreFails

(***************************************************************************)
(* Handlers run to completion.  sync.Mutex hands the lock over in arrival  *)
(* order once a waiter has waited a millisecond, so no waiter starves.     *)
(***************************************************************************)
Fairness ==
    /\ \A w \in Writers : WF_vars(HandlerStep(w)) /\ SF_vars(Lock(w))
    /\ WF_vars(Restore)

Spec == Init /\ [][Next]_vars

FairSpec == Spec /\ Fairness

-----------------------------------------------------------------------------
(***************************************************************************)
(* Properties                                                              *)
(***************************************************************************)
\* The answer 2xx means what it says: when a handler that activated is about
\* to answer success, the published snapshot is the store, its own write and
\* every earlier one included.
AcceptedWriteIsServed ==
    \A w \in Writers : pc[w] = "reply" /\ verdict[w] = "accepted" => snap = store

\* Once every handler has returned, a stored configuration that has nothing
\* new to object to is the one being served: no write is left behind in the
\* store by an activation that published an older read.
QuietStoreIsServed ==
    (/\ up
     /\ \A w \in Writers : pc[w] = "idle"
     /\ Failures(store) \subseteq failing
     /\ validateBackendCertificates(store)) => snap = store

\* Whatever the interleaving, a published snapshot has the certificate of
\* every backend in it: the check is made on the tables that are published.
SnapshotIsLoadable == up => validateBackendCertificates(snap)

\* Runtime.failing and the published snapshot describe the same activation,
\* except between the two assignments that publish one.
FailingDescribesSnapshot ==
    (up /\ \A w \in Writers : pc[w] # "record") => failing = Failures(snap)

\* An activation never takes a scope whose document works out of service:
\* only a restart may turn a working scope into an InvalidPlan.
NoWorkingScopeBreaks ==
    [][(up /\ up') => Failures(snap') \subseteq Failures(snap)]_vars

\* With the mutation lock around every writer, activation implements the
\* publisher that commits rows and publishes whole stores.
Publisher == INSTANCE ConfigPublisher WITH store <- store, snap <- snap, up <- up
ImplementsPublisher == Publisher!PubSpec

\* Every management request is answered, or lost to a crash.
EveryRequestIsAnswered ==
    \A w \in Writers : (pc[w] # "idle") ~> (pc[w] = "idle")

\* Activate "does not reject [a document] the store already carried": a write
\* that is rejected for failing documents introduced one of them.
RejectedForItsOwnDocument ==
    \A w \in Writers :
        (pc[w] = "reply" /\ verdict[w] = "rejected" /\ loaded[w] = Len(LoadOrder))
            => ~ (NewFailures(w) \subseteq before[w])

-----------------------------------------------------------------------------
(***************************************************************************)
(* The inductive invariant behind the properties of lock-only management   *)
(* (PortalWriters = {}).                                                   *)
(***************************************************************************)
Reading == {"load", "judge", "swap", "record"}

RequestHeld ==
    \A w \in Writers : pc[w] \in {"lock", "check", "commit"} => req[w] \in RequestSpace

LockHeld == \A w \in Writers : pc[w] \notin {"idle", "lock"} => mutex = w

DownIsIdle == ~ up => mutex = NoOne /\ \A w \in Writers : pc[w] = "idle"

\* The store does not move under a reader that holds the lock.
ReadIsStore ==
    \A w \in Writers :
        /\ pc[w] \in Reading =>
              \A i \in 1..loaded[w] : read[w][LoadOrder[i]] = store[LoadOrder[i]]
        /\ pc[w] \in Reading \ {"load"} => loaded[w] = Len(LoadOrder)

Judged ==
    \A w \in Writers :
        /\ pc[w] = "swap" => Failures(read[w]) \subseteq failing
        /\ pc[w] = "record" => snap = read[w]

Settled ==
    (/\ up
     /\ \A w \in Writers : pc[w] \notin Reading
     /\ Failures(store) \subseteq failing
     /\ validateBackendCertificates(store)) => snap = store

LockedInv ==
    /\ TypeOK
    /\ RequestHeld
    /\ LockHeld
    /\ DownIsIdle
    /\ ReadIsStore
    /\ Judged
    /\ FailingDescribesSnapshot
    /\ AcceptedWriteIsServed
    /\ Settled
=============================================================================

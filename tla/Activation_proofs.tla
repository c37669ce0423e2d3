-------------------------- MODULE Activation_proofs --------------------------
(***************************************************************************)
(* Proofs about Activation, for any set of scopes, names, documents and    *)
(* writers.                                                                *)
(***************************************************************************)
EXTENDS Activation, TLAPS

(***************************************************************************)
(* Facts about databases.                                                  *)
(***************************************************************************)
\* A database has one function per table, and is determined by them.
LEMMA DatabaseFunction ==
    ASSUME NEW d \in Database
    PROVE  /\ d = [t \in Tables |-> d[t]]
           /\ \A t \in Tables : d[t] \in TableOf(t)
BY DEF Database

\* Writing one row of one table keeps a database a database.
LEMMA WriteRow ==
    ASSUME NEW d \in Database, NEW t \in Tables, NEW k \in KeysOf[t],
           NEW row \in {Absent} \cup RowsOf[t]
    PROVE  [d EXCEPT ![t] = [@ EXCEPT ![k] = row]] \in Database
<1> DEFINE e == [d EXCEPT ![t] = [@ EXCEPT ![k] = row]]
<1>1. /\ d \in [Tables -> UNION {TableOf(u) : u \in Tables}]
      /\ \A u \in Tables : d[u] \in TableOf(u)
  BY DEF Database
<1>2. [d[t] EXCEPT ![k] = row] \in TableOf(t)
  <2>1. d[t] \in [KeysOf[t] -> {Absent} \cup RowsOf[t]]
    BY <1>1 DEF TableOf
  <2>2. [d[t] EXCEPT ![k] = row] \in [KeysOf[t] -> {Absent} \cup RowsOf[t]]
    BY <2>1
  <2>3. QED  BY <2>2 DEF TableOf
<1>3. e \in [Tables -> UNION {TableOf(u) : u \in Tables}]
  BY <1>1, <1>2
<1>4. \A u \in Tables : e[u] \in TableOf(u)
  BY <1>1, <1>2
<1>5. QED  BY <1>3, <1>4 DEF Database

\* Copying one table from one database to another gives a database.
LEMMA CopyTable ==
    ASSUME NEW d \in Database, NEW e \in Database, NEW t \in Tables
    PROVE  [d EXCEPT ![t] = e[t]] \in Database
BY DEF Database

LEMMA EmptyDatabaseType == EmptyDatabase \in Database
<1>1. \A t \in Tables : EmptyDatabase[t] \in TableOf(t)
  BY DEF EmptyDatabase, TableOf
<1>2. EmptyDatabase \in [Tables -> UNION {TableOf(t) : t \in Tables}]
  BY <1>1 DEF EmptyDatabase
<1>3. QED  BY <1>1, <1>2 DEF Database

LEMMA FailuresType == ASSUME NEW d PROVE Failures(d) \subseteq Scopes
BY DEF Failures

\* The activation queries every table, each once.
LEMMA LoadOrderFacts ==
    /\ Len(LoadOrder) = 5
    /\ \A i \in 1..5 : LoadOrder[i] \in Tables
    /\ \A t \in Tables : \E i \in 1..5 : LoadOrder[i] = t
    /\ \A i, j \in 1..5 : LoadOrder[i] = LoadOrder[j] => i = j
BY DEF LoadOrder, Tables

LEMMA RequestFacts ==
    ASSUME NEW q \in RequestSpace
    PROVE  /\ q.table \in Tables
           /\ q.key \in KeysOf[q.table]
           /\ q.row \in {Absent} \cup RowsOf[q.table]
BY DEF RequestSpace

(***************************************************************************)
(* Type correctness, for ARM and portal writers alike.                     *)
(***************************************************************************)
TypeInv == TypeOK /\ RequestHeld

\* An ARM handler starts with one of the submitted requests and waits for
\* the lock; a portal handler goes straight to its write.
LEMMA Arrival ==
    ASSUME NEW w \in Writers, ArmRequest(w) \/ PortalRequest(w)
    PROVE  \E q \in RequestSpace :
              \/ w \in ArmWriters /\ Issue(w, q, "lock")
              \/ w \in PortalWriters /\ Issue(w, q, "commit")
<1>1. CASE ArmRequest(w)
  BY <1>1, WriterAssumption
  DEF ArmRequest, policyResource, deleteAPI, policyFragment, namedValue, backend, certificate, Submit
<1>2. CASE PortalRequest(w)
  BY <1>2, WriterAssumption
  DEF PortalRequest, portalPolicy, portalNamedValue, portalBackend, portalCertificate
<1>3. QED  BY <1>1, <1>2

LEMMA TypeInit == Init => TypeInv
<1> SUFFICES ASSUME Init PROVE TypeInv
  OBVIOUS
<1>1. store \in Database
  BY WriterAssumption DEF Init
<1>2. Failures(store) \subseteq Scopes
  BY FailuresType
<1>3. QED
  BY <1>1, <1>2, EmptyDatabaseType, WriterAssumption, LoadOrderFacts
  DEF Init, TypeInv, TypeOK, RequestHeld, Steps, Verdicts

\* A handler step of one writer, and the arrival of a request.
LEMMA TypeWriter ==
    ASSUME TypeInv, NEW w \in Writers, ArmRequest(w) \/ PortalRequest(w) \/ HandlerStep(w)
    PROVE  TypeInv'
<1> USE DEF TypeInv, TypeOK, RequestHeld
<1>1. ASSUME NEW q \in RequestSpace, NEW step \in {"lock", "commit"}, Issue(w, q, step)
      PROVE  TypeInv'
  BY <1>1, WriterAssumption DEF Issue, Steps
<1>2. CASE ArmRequest(w) \/ PortalRequest(w)
  BY <1>1, <1>2, Arrival
<1>4. CASE Lock(w)
  BY <1>4 DEF Lock, Steps, local
<1>5. CASE Check(w)
  BY <1>5 DEF Check, Steps, Verdicts
<1>6. CASE Commit(w)
  <2>1. store' \in Database
    BY <1>6, WriteRow, RequestFacts DEF Commit
  <2>2. QED
    BY <1>6, <2>1, FailuresType, LoadOrderFacts DEF Commit, Steps
<1>7. ASSUME LoadTable(w)
      PROVE  /\ read' \in [Writers -> Database]
             /\ loaded' \in [Writers -> 0..Len(LoadOrder)]
  <2>1. loaded[w] + 1 \in 1..5
    BY <1>7, LoadOrderFacts DEF LoadTable
  <2>2. [read[w] EXCEPT ![LoadOrder[loaded[w] + 1]] = store[LoadOrder[loaded[w] + 1]]] \in Database
    BY <2>1, LoadOrderFacts, CopyTable
  <2>3. QED
    BY <1>7, <2>1, <2>2, LoadOrderFacts DEF LoadTable
<1>8. CASE Load(w)
  BY <1>7, <1>8 DEF Load, LoadTable, Steps
<1>9. CASE LoadFails(w)
  BY <1>7, <1>9 DEF LoadFails, LoadTable, Steps, Verdicts
<1>10. CASE Judge(w)
  BY <1>10 DEF Judge, Steps, Verdicts
<1>11. CASE Swap(w)
  BY <1>11 DEF Swap, Steps, local
<1>12. CASE Record(w)
  BY <1>12, FailuresType DEF Record, Steps, Verdicts
<1>13. CASE Reply(w)
  BY <1>13, EmptyDatabaseType, LoadOrderFacts DEF Reply, Steps, Verdicts
<1>14. QED
  BY <1>2, <1>4, <1>5, <1>6, <1>8, <1>9, <1>10, <1>11, <1>12, <1>13 DEF HandlerStep

LEMMA TypeRestart ==
    ASSUME TypeInv, Crash \/ Restore \/ RestoreFails PROVE TypeInv'
<1> USE DEF TypeInv, TypeOK, RequestHeld
<1>1. CASE Crash
  <2>1. loaded' \in [Writers -> 0..Len(LoadOrder)]
    BY <1>1, LoadOrderFacts DEF Crash
  <2>2. read' \in [Writers -> Database] /\ snap' \in Database
    BY <1>1, EmptyDatabaseType DEF Crash
  <2>3. /\ pc' \in [Writers -> Steps] /\ verdict' \in [Writers -> Verdicts]
        /\ before' \in [Writers -> SUBSET Scopes] /\ RequestHeld'
        /\ req' \in [Writers -> {Absent} \cup RequestSpace]
    BY <1>1 DEF Crash, Steps, Verdicts
  <2>4. QED  BY <1>1, <2>1, <2>2, <2>3 DEF Crash
<1>2. CASE Restore
  BY <1>2, FailuresType DEF Restore, local
<1>3. CASE RestoreFails
  BY <1>3 DEF RestoreFails, vars
<1>4. QED  BY <1>1, <1>2, <1>3

LEMMA TypeStep == TypeInv /\ [Next]_vars => TypeInv'
<1> SUFFICES ASSUME TypeInv, [Next]_vars PROVE TypeInv'
  OBVIOUS
<1>1. CASE UNCHANGED vars
  BY <1>1 DEF TypeInv, TypeOK, RequestHeld, vars
<1>2. CASE Next
  BY <1>2, TypeWriter, TypeRestart DEF Next
<1>3. QED  BY <1>1, <1>2

\* The variables keep their types along every behaviour, whatever mix of
\* ARM and portal handlers, crashes and restarts it has.
THEOREM TypeCorrect == Spec => []TypeOK
<1>1. Spec => []TypeInv
  BY TypeInit, TypeStep, PTL DEF Spec
<1>2. TypeInv => TypeOK
  BY DEF TypeInv
<1>3. QED  BY <1>1, <1>2, PTL

(***************************************************************************)
(* Snapshots load, with or without a portal.  What an activation has read  *)
(* passed the certificate check once its fourth table was in, and the      *)
(* fifth table does not matter to that check.                              *)
(***************************************************************************)
Checked ==
    \A w \in Writers :
        (pc[w] \in {"judge", "swap"} \/ (pc[w] = "load" /\ loaded[w] >= 4))
            => validateBackendCertificates(read[w])

LoadableInv == TypeInv /\ Checked /\ SnapshotIsLoadable

\* Only the backends and certificates tables decide whether a database loads.
LEMMA CertificateTables ==
    ASSUME NEW d, NEW e, d["backends"] = e["backends"], d["certificates"] = e["certificates"]
    PROVE  validateBackendCertificates(d) = validateBackendCertificates(e)
BY DEF validateBackendCertificates

LEMMA LoadableInit == Init => LoadableInv
BY TypeInit, WriterAssumption DEF LoadableInv, Init, Checked, SnapshotIsLoadable

LEMMA LoadableWriter ==
    ASSUME LoadableInv, NEW w \in Writers, ArmRequest(w) \/ PortalRequest(w) \/ HandlerStep(w)
    PROVE  LoadableInv'
<1>0. TypeInv'
  BY TypeWriter DEF LoadableInv
<1> SUFFICES (Checked /\ SnapshotIsLoadable)'
  BY <1>0 DEF LoadableInv
<1> USE DEF LoadableInv, TypeInv, TypeOK, Checked, SnapshotIsLoadable
<1>1. ASSUME NEW q, NEW step \in {"lock", "commit"}, Issue(w, q, step)
      PROVE  (Checked /\ SnapshotIsLoadable)'
  BY <1>1 DEF Issue
<1>2. CASE ArmRequest(w) \/ PortalRequest(w)
  BY <1>1, <1>2, Arrival
<1>3. CASE Lock(w)
  BY <1>3 DEF Lock, local
<1>4. CASE Check(w)
  BY <1>4 DEF Check
<1>5. CASE Commit(w)
  BY <1>5 DEF Commit
<1>6. CASE Load(w)
  <2>1. /\ loaded[w] \in 0..4 /\ loaded'[w] = loaded[w] + 1 /\ pc[w] = "load"
        /\ \A x \in Writers \ {w} : /\ read'[x] = read[x] /\ loaded'[x] = loaded[x]
                                    /\ pc'[x] = pc[x]
    BY <1>6, LoadOrderFacts DEF Load, LoadTable
  <2>2. loaded'[w] >= 4 => validateBackendCertificates(read'[w])
    <3>1. CASE loaded[w] = 4
      <4>1. LoadOrder[loaded[w] + 1] = "policy_fragments"
        BY <3>1 DEF LoadOrder
      <4>2. read'[w] = [read[w] EXCEPT !["policy_fragments"] = store["policy_fragments"]]
        BY <1>6, <4>1 DEF Load, LoadTable
      <4>3. read[w] = [t \in Tables |-> read[w][t]]
        BY DatabaseFunction
      <4>4. /\ read'[w]["backends"] = read[w]["backends"]
            /\ read'[w]["certificates"] = read[w]["certificates"]
        BY <4>2, <4>3 DEF Tables
      <4> QED BY <2>1, <3>1, <4>4 DEF validateBackendCertificates
    <3>2. CASE loaded[w] # 4
      BY <1>6, <2>1, <3>2 DEF Load
    <3> QED BY <3>1, <3>2
  <2>3. pc'[w] = "judge" => loaded'[w] = 5
    BY <1>6, LoadOrderFacts DEF Load, LoadTable
  <2>4. pc'[w] \in {"load", "judge"}
    BY <1>6 DEF Load, LoadTable
  <2>5. Checked'
    BY <2>1, <2>2, <2>3, <2>4
  <2> QED BY <1>6, <2>5 DEF Load
<1>7. CASE LoadFails(w)
  BY <1>7 DEF LoadFails, LoadTable
<1>8. CASE Judge(w)
  BY <1>8 DEF Judge
<1>9. CASE Swap(w)
  BY <1>9 DEF Swap, local
<1>10. CASE Record(w)
  BY <1>10 DEF Record
<1>11. CASE Reply(w)
  BY <1>11 DEF Reply
<1> QED
  BY <1>2, <1>3, <1>4, <1>5, <1>6, <1>7, <1>8, <1>9, <1>10, <1>11 DEF HandlerStep

LEMMA LoadableRestart ==
    ASSUME LoadableInv, Crash \/ Restore \/ RestoreFails PROVE LoadableInv'
<1>0. TypeInv'
  BY TypeRestart DEF LoadableInv
<1> USE DEF LoadableInv, Checked, SnapshotIsLoadable
<1>1. CASE Crash
  BY <1>0, <1>1 DEF Crash
<1>2. CASE Restore
  BY <1>0, <1>2 DEF Restore, local
<1>3. CASE RestoreFails
  BY <1>0, <1>3 DEF RestoreFails, vars
<1> QED BY <1>1, <1>2, <1>3

LEMMA LoadableStep == LoadableInv /\ [Next]_vars => LoadableInv'
<1> SUFFICES ASSUME LoadableInv, [Next]_vars PROVE LoadableInv'
  OBVIOUS
<1>1. CASE UNCHANGED vars
  BY <1>1 DEF LoadableInv, TypeInv, TypeOK, RequestHeld, Checked, SnapshotIsLoadable, vars
<1>2. CASE Next
  BY <1>2, LoadableWriter, LoadableRestart DEF Next
<1> QED BY <1>1, <1>2

\* Every snapshot the gateway publishes, from an ARM handler, a portal handler
\* that read the store while others wrote it, or a restart, has the certificate
\* of each backend in it.
THEOREM SnapshotsLoad == Spec => []SnapshotIsLoadable
<1>1. Spec => []LoadableInv
  BY LoadableInit, LoadableStep, PTL DEF Spec
<1>2. LoadableInv => SnapshotIsLoadable
  BY DEF LoadableInv
<1> QED BY <1>1, <1>2, PTL

(***************************************************************************)
(* Lock-only management: no portal writer.                                 *)
(***************************************************************************)
\* Two databases that agree on every table are equal.
LEMMA SameTables ==
    ASSUME NEW d \in Database, NEW e \in Database,
           \A i \in 1..5 : d[LoadOrder[i]] = e[LoadOrder[i]]
    PROVE  d = e
<1>1. \A t \in Tables : d[t] = e[t]
  BY LoadOrderFacts
<1>2. QED  BY <1>1, DatabaseFunction DEF Database

LEMMA LockedInit == Init => LockedInv
<1> SUFFICES ASSUME Init PROVE LockedInv
  OBVIOUS
<1>1. TypeOK /\ RequestHeld
  BY TypeInit DEF TypeInv
<1>2. LockHeld /\ DownIsIdle /\ ReadIsStore /\ Judged
  BY DEF Init, LockHeld, DownIsIdle, ReadIsStore, Judged, Reading
<1>3. FailingDescribesSnapshot /\ AcceptedWriteIsServed /\ Settled
  BY DEF Init, FailingDescribesSnapshot, AcceptedWriteIsServed, Settled
<1>4. QED  BY <1>1, <1>2, <1>3 DEF LockedInv

\* With no portal, the holder of the lock is the only writer past it.
LEMMA OneHolder ==
    ASSUME LockedInv, NEW w \in Writers, pc[w] \notin {"idle", "lock"}
    PROVE  /\ mutex = w
           /\ \A x \in Writers \ {w} : pc[x] \in {"idle", "lock"}
BY DEF LockedInv, LockHeld, TypeOK

LEMMA LockedWriter ==
    ASSUME PortalWriters = {}, LockedInv, NEW w \in Writers,
           ArmRequest(w) \/ PortalRequest(w) \/ HandlerStep(w)
    PROVE  LockedInv'
<1> DEFINE Parts == /\ LockHeld /\ DownIsIdle /\ ReadIsStore /\ Judged
                    /\ FailingDescribesSnapshot /\ AcceptedWriteIsServed /\ Settled
<1>0. (TypeOK /\ RequestHeld)'
  BY TypeWriter DEF TypeInv, LockedInv
<1> SUFFICES Parts'
  BY <1>0 DEF LockedInv
<1>a. pc[w] \notin {"idle", "lock"} =>
        mutex = w /\ \A x \in Writers \ {w} : pc[x] \in {"idle", "lock"}
  BY OneHolder
\* Once every table is read, what was read is the store.
<1>b. ASSUME pc[w] \in {"judge", "swap", "record"} PROVE read[w] = store
  <2>1. loaded[w] = 5
    BY <1>b, LoadOrderFacts DEF LockedInv, ReadIsStore, Reading
  <2>2. \A i \in 1..5 : read[w][LoadOrder[i]] = store[LoadOrder[i]]
    BY <1>b, <2>1 DEF LockedInv, ReadIsStore, Reading
  <2>3. read[w] \in Database /\ store \in Database
    BY DEF LockedInv, TypeOK
  <2>4. QED  BY <2>2, <2>3, SameTables
<1> USE DEF LockedInv, TypeOK, LockHeld, DownIsIdle, ReadIsStore, Judged, Reading,
            FailingDescribesSnapshot, AcceptedWriteIsServed, Settled
<1>1. ASSUME NEW q, Issue(w, q, "lock") PROVE Parts'
  BY <1>1 DEF Issue
<1>2. CASE ArmRequest(w) \/ PortalRequest(w)
  BY <1>1, <1>2, Arrival
<1>4. CASE Lock(w)
  BY <1>4, WriterAssumption DEF Lock, local, Writers
<1>5. CASE Check(w)
  BY <1>5, <1>a DEF Check
<1>6. CASE Commit(w)
  <2>1. /\ pc'[w] = "load" /\ loaded'[w] = 0
        /\ \A x \in Writers \ {w} : pc'[x] \in {"idle", "lock"}
    BY <1>6, <1>a DEF Commit
  <2>2. ReadIsStore' /\ Judged' /\ AcceptedWriteIsServed' /\ Settled'
    <3>1. 1..loaded'[w] = {}
      BY <2>1
    <3>2. ReadIsStore'
      BY <2>1, <3>1
    <3>3. QED  BY <2>1, <3>2
  <2>3. LockHeld' /\ DownIsIdle' /\ FailingDescribesSnapshot'
    <3>1. LockHeld' /\ DownIsIdle'
      BY <1>6, <1>a, <2>1 DEF Commit
    <3>2. \A x \in Writers : pc[x] # "record"
      BY <1>6, <1>a DEF Commit
    <3>3. FailingDescribesSnapshot'
      BY <1>6, <3>2 DEF Commit
    <3>4. QED  BY <3>1, <3>3
  <2>4. QED  BY <2>2, <2>3
\* The table just read joins the ones that already agree with the store.
<1>7. ASSUME LoadTable(w), pc[w] = "load", UNCHANGED store
      PROVE  \A i \in 1..loaded'[w] : read'[w][LoadOrder[i]] = store'[LoadOrder[i]]
  <2>1. loaded[w] \in 0..4 /\ loaded'[w] = loaded[w] + 1
    BY <1>7, LoadOrderFacts DEF LoadTable
  <2>2. SUFFICES ASSUME NEW i \in 1..loaded'[w]
                 PROVE  read'[w][LoadOrder[i]] = store[LoadOrder[i]]
    BY <1>7
  <2>3. /\ LoadOrder[i] \in Tables /\ LoadOrder[loaded[w] + 1] \in Tables
        /\ LoadOrder[i] = LoadOrder[loaded[w] + 1] => i = loaded[w] + 1
    BY <2>1, LoadOrderFacts
  <2>4. i # loaded[w] + 1 => i \in 1..loaded[w]
    BY <2>1
  <2>5. read'[w] = [read[w] EXCEPT ![LoadOrder[loaded[w] + 1]] = store[LoadOrder[loaded[w] + 1]]]
    BY <1>7 DEF LoadTable
  <2>6. read[w] = [t \in Tables |-> read[w][t]]
    BY DatabaseFunction
  <2>7. CASE i = loaded[w] + 1
    BY <2>3, <2>5, <2>6, <2>7
  <2>8. CASE i # loaded[w] + 1
    BY <1>7, <2>3, <2>4, <2>5, <2>6, <2>8
  <2>9. QED  BY <2>7, <2>8
<1>8. CASE Load(w)
  <2>1. /\ pc[w] = "load" /\ pc'[w] \in {"load", "judge"}
        /\ pc'[w] = "judge" => loaded'[w] = Len(LoadOrder)
        /\ \A x \in Writers \ {w} : pc'[x] \in {"idle", "lock"}
    BY <1>8, <1>a DEF Load, LoadTable
  <2>2. ReadIsStore'
    BY <1>7, <1>8, <2>1 DEF Load
  <2>3. Judged' /\ AcceptedWriteIsServed' /\ Settled'
    BY <2>1, <1>0
  <2>4. LockHeld' /\ DownIsIdle' /\ FailingDescribesSnapshot'
    BY <1>8, <1>a, <2>1 DEF Load
  <2>5. QED  BY <2>2, <2>3, <2>4
<1>9. CASE LoadFails(w)
  <2>1. /\ pc[w] = "load" /\ pc'[w] = "reply" /\ verdict'[w] = "rejected"
        /\ loaded'[w] = 4
        /\ \A x \in Writers \ {w} : pc'[x] \in {"idle", "lock"}
    BY <1>9, <1>a DEF LoadFails, LoadTable
  <2>2. ReadIsStore' /\ Judged' /\ AcceptedWriteIsServed'
    BY <2>1, <1>0
  <2>3. LockHeld' /\ DownIsIdle' /\ FailingDescribesSnapshot'
    BY <1>9, <1>a, <2>1 DEF LoadFails
  <2>4. ~ validateBackendCertificates(store')
    <3>1. \A i \in 1..4 : read'[w][LoadOrder[i]] = store'[LoadOrder[i]]
      BY <1>7, <1>9, <2>1 DEF LoadFails
    <3>2. LoadOrder[3] = "backends" /\ LoadOrder[4] = "certificates"
      BY DEF LoadOrder
    <3>3. /\ read'[w]["backends"] = store'["backends"]
          /\ read'[w]["certificates"] = store'["certificates"]
      BY <3>1, <3>2
    <3>4. QED  BY <1>9, <3>3, CertificateTables DEF LoadFails
  <2>5. Settled'
    BY <2>4
  <2>6. QED  BY <2>2, <2>3, <2>5
<1>10. CASE Judge(w)
  <2>1. /\ pc[w] = "judge" /\ pc'[w] \in {"swap", "reply"}
        /\ pc'[w] = "swap" => Failures(read[w]) \subseteq failing
        /\ pc'[w] = "reply" => /\ verdict'[w] = "rejected"
                                /\ ~ (Failures(read[w]) \subseteq failing)
        /\ \A x \in Writers \ {w} : pc'[x] \in {"idle", "lock"}
    BY <1>10, <1>a DEF Judge, NewFailures
  <2>2. ReadIsStore'
    BY <1>10, <2>1 DEF Judge
  <2>3. Judged' /\ AcceptedWriteIsServed'
    BY <1>10, <2>1, <1>0 DEF Judge
  <2>4. LockHeld' /\ DownIsIdle' /\ FailingDescribesSnapshot'
    BY <1>10, <1>a, <2>1 DEF Judge
  <2>5. Settled'
    BY <1>10, <1>b, <2>1 DEF Judge
  <2>6. QED  BY <2>2, <2>3, <2>4, <2>5
<1>11. CASE Swap(w)
  BY <1>11, <1>a DEF Swap, local
<1>12. CASE Record(w)
  <2>1. /\ pc[w] = "record" /\ pc'[w] = "reply" /\ snap' = store' /\ failing' = Failures(snap')
        /\ \A x \in Writers \ {w} : pc'[x] \in {"idle", "lock"}
    BY <1>12, <1>a, <1>b DEF Record
  <2>2. ReadIsStore' /\ Judged' /\ AcceptedWriteIsServed' /\ Settled' /\ FailingDescribesSnapshot'
    BY <2>1, <1>0
  <2>3. LockHeld' /\ DownIsIdle'
    BY <1>12, <1>a, <2>1 DEF Record
  <2>4. QED  BY <2>2, <2>3
<1>13. CASE Reply(w)
  BY <1>13, <1>a DEF Reply
<1>14. QED
  BY <1>2, <1>4, <1>5, <1>6, <1>8, <1>9, <1>10, <1>11, <1>12, <1>13 DEF HandlerStep

LEMMA LockedRestart ==
    ASSUME LockedInv, Crash \/ Restore \/ RestoreFails PROVE LockedInv'
<1>0. (TypeOK /\ RequestHeld)'
  BY TypeRestart DEF TypeInv, LockedInv
<1> USE DEF LockedInv, LockHeld, DownIsIdle, ReadIsStore, Judged, Reading,
            FailingDescribesSnapshot, AcceptedWriteIsServed, Settled
<1>1. CASE Crash
  BY <1>0, <1>1 DEF Crash
<1>2. CASE Restore
  BY <1>0, <1>2 DEF Restore, local
<1>3. CASE RestoreFails
  BY <1>3 DEF RestoreFails, vars, TypeOK, RequestHeld
<1>4. QED  BY <1>1, <1>2, <1>3

LEMMA LockedStep ==
    ASSUME PortalWriters = {} PROVE LockedInv /\ [Next]_vars => LockedInv'
<1> SUFFICES ASSUME LockedInv, [Next]_vars PROVE LockedInv'
  OBVIOUS
<1>1. CASE UNCHANGED vars
  BY <1>1 DEF LockedInv, TypeOK, RequestHeld, LockHeld, DownIsIdle, ReadIsStore, Judged,
              FailingDescribesSnapshot, AcceptedWriteIsServed, Settled, vars
<1>2. CASE Next
  BY <1>2, LockedWriter, LockedRestart DEF Next
<1>3. QED  BY <1>1, <1>2

LEMMA LockedInvariant ==
    ASSUME PortalWriters = {} PROVE Spec => []LockedInv
BY LockedInit, LockedStep, PTL DEF Spec

\* Under the mutation lock alone, a handler that answers success has
\* published exactly the store, for any configuration and number of clients.
THEOREM AcceptedWritesServed ==
    ASSUME PortalWriters = {} PROVE Spec => []AcceptedWriteIsServed
<1>1. LockedInv => AcceptedWriteIsServed
  BY DEF LockedInv
<1>2. QED  BY <1>1, LockedInvariant, PTL

\* Under the mutation lock alone, the quiet system serves the stored
\* configuration unless the store holds something activation refused.
THEOREM QuietServed ==
    ASSUME PortalWriters = {} PROVE Spec => []QuietStoreIsServed
<1>1. LockedInv => QuietStoreIsServed
  BY DEF LockedInv, Settled, QuietStoreIsServed, Reading
<1>2. QED  BY <1>1, LockedInvariant, PTL

\* Under the mutation lock alone, Runtime.failing always describes the
\* published snapshot.
THEOREM FailingDescribes ==
    ASSUME PortalWriters = {} PROVE Spec => []FailingDescribesSnapshot
<1>1. LockedInv => FailingDescribesSnapshot
  BY DEF LockedInv
<1>2. QED  BY <1>1, LockedInvariant, PTL

(***************************************************************************)
(* What a step may do, and the refinement.                                 *)
(***************************************************************************)
\* A step under the lock leaves the snapshot alone, publishes the whole
\* store without breaking a working document, or is a crash or a restart.
LEMMA SnapshotStep ==
    ASSUME PortalWriters = {}, LockedInv, Next
    PROVE  \/ snap' = snap /\ up' = up
           \/ /\ snap' = store /\ UNCHANGED <<store, up>> /\ up
              /\ Failures(store) \subseteq Failures(snap)
           \/ Crash
           \/ Restore
<1>1. ASSUME NEW w \in Writers, Swap(w)
      PROVE  /\ snap' = store /\ UNCHANGED <<store, up>> /\ up
             /\ Failures(store) \subseteq Failures(snap)
  <2>1. pc[w] = "swap" /\ snap' = read[w] /\ UNCHANGED <<store, up>>
    BY <1>1 DEF Swap
  <2>2. read[w] = store
    <3>1. \A i \in 1..5 : read[w][LoadOrder[i]] = store[LoadOrder[i]]
      BY <2>1, LoadOrderFacts DEF LockedInv, ReadIsStore, Reading
    <3>2. read[w] \in Database /\ store \in Database
      BY DEF LockedInv, TypeOK
    <3>3. QED  BY <3>1, <3>2, SameTables
  <2>3. up
    BY <2>1 DEF LockedInv, DownIsIdle
  <2>4. \A x \in Writers : pc[x] # "record"
    BY <2>1, OneHolder
  <2>5. failing = Failures(snap)
    BY <2>3, <2>4 DEF LockedInv, FailingDescribesSnapshot
  <2>6. Failures(read[w]) \subseteq failing
    BY <2>1 DEF LockedInv, Judged
  <2>7. QED  BY <2>1, <2>2, <2>3, <2>5, <2>6
<1>2. ASSUME NEW w \in Writers,
             ArmRequest(w) \/ PortalRequest(w) \/ HandlerStep(w), ~ Swap(w)
      PROVE  snap' = snap /\ up' = up
  BY <1>2, Arrival DEF Issue, HandlerStep, Lock, Check, Commit,
              Load, LoadFails, Judge, Record, Reply
<1>3. ASSUME RestoreFails PROVE snap' = snap /\ up' = up
  BY <1>3 DEF RestoreFails, vars
<1>4. QED  BY <1>1, <1>2, <1>3 DEF Next

\* Under the mutation lock alone, only a restart can take a scope whose
\* document works out of service.
THEOREM WorkingScopesKept ==
    ASSUME PortalWriters = {} PROVE Spec => NoWorkingScopeBreaks
<1>1. ASSUME LockedInv, [Next]_vars
      PROVE  [(up /\ up') => Failures(snap') \subseteq Failures(snap)]_vars
  <2>1. CASE UNCHANGED vars
    BY <2>1
  <2>2. CASE Next
    BY <1>1, <2>2, SnapshotStep DEF Crash, Restore
  <2>3. QED  BY <1>1, <2>1, <2>2
<1>2. QED  BY <1>1, LockedInvariant, PTL DEF Spec, NoWorkingScopeBreaks

\* The publisher's data definitions are the ones used here.
LEMMA SameData ==
    /\ Publisher!Tables = Tables
    /\ Publisher!KeysOf = KeysOf
    /\ Publisher!RowsOf = RowsOf
    /\ Publisher!EmptyDatabase = EmptyDatabase
    /\ \A d : Publisher!Failures(d) = Failures(d)
<1>1. Publisher!Tables = Tables
  BY DEF Publisher!Tables, Tables
<1>2. Publisher!KeysOf = KeysOf
  BY <1>1 DEF Publisher!KeysOf, KeysOf
<1>3. Publisher!RowsOf = RowsOf
  BY <1>1 DEF Publisher!RowsOf, RowsOf
<1>4. Publisher!EmptyDatabase = EmptyDatabase
  BY <1>1, <1>2 DEF Publisher!EmptyDatabase, EmptyDatabase
<1>5. ASSUME NEW doc, NEW d PROVE Publisher!Compiles(doc, d) = Compiles(doc, d)
  BY DEF Publisher!Compiles, Compiles, Publisher!resolveNamedValues, resolveNamedValues,
         Publisher!expandNodes, expandNodes,
         Publisher!resolveBackendReferences, resolveBackendReferences
<1>6. ASSUME NEW d PROVE Publisher!Failures(d) = Failures(d)
  BY <1>4, <1>5 DEF Publisher!Failures, Failures, Publisher!serviceIDFromScope, serviceIDFromScope
<1>7. QED  BY <1>1, <1>2, <1>3, <1>4, <1>6

\* Under the mutation lock alone, activation implements the publisher that
\* commits single rows and publishes whole stores.
THEOREM Refinement ==
    ASSUME PortalWriters = {} PROVE Spec => ImplementsPublisher
<1>1. Init => Publisher!PubInit
  BY DEF Init, Publisher!PubInit
<1>2. ASSUME LockedInv, [Next]_vars PROVE [Publisher!PubNext]_(Publisher!pubVars)
  <2>1. CASE UNCHANGED vars
    BY <2>1 DEF vars, Publisher!pubVars
  <2>2. ASSUME NEW w \in Writers, Commit(w) PROVE Publisher!CommitRow
    <3>1. req[w] \in RequestSpace /\ up
      BY <1>2, <2>2 DEF Commit, LockedInv, RequestHeld, DownIsIdle
    <3>2. QED
      BY <2>2, <3>1, RequestFacts, SameData DEF Commit, Publisher!CommitRow
  <2>3. ASSUME Next, ~ (\E w \in Writers : Commit(w)) PROVE UNCHANGED store
    <3>1. ASSUME NEW w \in Writers,
                 ArmRequest(w) \/ PortalRequest(w) \/ HandlerStep(w), ~ Commit(w)
          PROVE  UNCHANGED store
      BY <3>1, Arrival DEF Issue, HandlerStep, Lock, Check, Load,
                  LoadFails, LoadTable, Judge, Swap, Record, Reply
    <3>2. QED  BY <2>3, <3>1 DEF Next, Crash, Restore, RestoreFails, vars
  <2>4. CASE Crash
    BY <2>4, SameData DEF Crash, Publisher!PubNext, Publisher!Stop
  <2>5. CASE Restore
    BY <2>5 DEF Restore, Publisher!PubNext, Publisher!Start
  <2>6. CASE Next
    BY <1>2, <2>2, <2>3, <2>4, <2>5, <2>6, SnapshotStep, SameData
    DEF Publisher!PubNext, Publisher!Publish, Publisher!pubVars
  <2>7. QED  BY <1>2, <2>1, <2>6
<1>3. QED  BY <1>1, <1>2, LockedInvariant, PTL DEF Spec, ImplementsPublisher, Publisher!PubSpec
=============================================================================

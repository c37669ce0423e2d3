--------------------------- MODULE ConfigPublisher ---------------------------
(***************************************************************************)
(* What the management plane promises the gateway (docs/03-architecture,   *)
(* "Runtime snapshots"), with no handlers, locks or queries: rows are      *)
(* committed one at a time, the snapshot is only ever replaced by the      *)
(* whole current store, and publishing never takes a working document out  *)
(* of service.  A crash keeps the store; starting again serves exactly     *)
(* what was stored.                                                        *)
(***************************************************************************)
EXTENDS ConfigData

CONSTANT InitialStores

VARIABLES store, snap, up

pubVars == <<store, snap, up>>

PubInit ==
    /\ store \in InitialStores
    /\ snap = store
    /\ up = TRUE

CommitRow ==
    /\ up
    /\ \E t \in Tables : \E k \in KeysOf[t] : \E row \in {Absent} \cup RowsOf[t] :
          store' = [store EXCEPT ![t] = [@ EXCEPT ![k] = row]]
    /\ UNCHANGED <<snap, up>>

Publish ==
    /\ up
    /\ snap' = store
    /\ Failures(store) \subseteq Failures(snap)
    /\ UNCHANGED <<store, up>>

Stop ==
    /\ up
    /\ up' = FALSE
    /\ snap' = EmptyDatabase
    /\ UNCHANGED store

Start ==
    /\ ~ up
    /\ up' = TRUE
    /\ snap' = store
    /\ UNCHANGED store

PubNext == CommitRow \/ Publish \/ Stop \/ Start

PubSpec == PubInit /\ [][PubNext]_pubVars
=============================================================================

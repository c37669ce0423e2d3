------------------------ MODULE ArmResources_proofs ------------------------
(***************************************************************************)
(* ArmResources for every set of handler rules, every number of clients,   *)
(* values and writes: the types, the conditional requests, the references  *)
(* between rows, regenerated keys and what a PATCH leaves alone.           *)
(*                                                                         *)
(* The argument is mutual exclusion.  On the routes that take mutationMu a *)
(* client between its probe and its answer holds the lock (LockHeld), so   *)
(* what it read and decided still holds when it writes.  The portal takes  *)
(* no lock: it only ever puts rows (FormSteps), so it cannot take away a   *)
(* row that is referred to, and where it refers to rows a foreign key      *)
(* looks at the store in the statement itself.                             *)
(***************************************************************************)
EXTENDS ArmResources, TLAPS

Busy == {"probe", "load", "write", "activate", "swap"}

\* A client past its lock holds it.
LockHeld == rule.locked => \A c \in Clients : pc[c] \in Busy => mutex = c

\* Only families with a form have one open, and it has read a row; a form
\* activates for them and for the rows that a form refers to.
FormSteps ==
    /\ form.step = "write" => rule.portal /\ form.row # NoRow
    /\ form.step # "idle" => rule.portal \/ rule.guarded # "no"

\* A PATCH or a POST writes over a row it read.
HeldRow == \A c \in Clients : pc[c] = "write" /\ req[c].op \in {"PATCH", "POST"} => held[c] # NoRow

\* References exist only where something looks for them, and what the handlers
\* of a checked reference found in Load still holds at the write.
References ==
    /\ rule.guarded # "no" => rule.locked
    /\ referred => rule.guarded # "no"
    /\ \A c \in Clients :
          /\ req[c].op \in {"REFER", "UNREFER"} => rule.guarded # "no"
          /\ pc[c] = "write" /\ req[c].op = "DELETE" /\ rule.guarded = "checked" => ~referred
          /\ pc[c] = "write" /\ req[c].op = "REFER" /\ rule.guarded = "checked" => row # NoRow

IInv == TypeOK /\ LockHeld /\ FormSteps /\ HeldRow /\ References
           /\ ConditionHoldsAtWrite /\ NoDanglingReference

\* The row a service is born with, if any, is a row.
LEMMA InitIInv == Init => IInv
<1> SUFFICES ASSUME Init PROVE IInv
  OBVIOUS
<1> USE RuleAssumption DEF Init
<1>1. rule \in Rule /\ (rule.guarded # "no" => rule.locked)
  OBVIOUS
<1>2. row \in Row \cup {NoRow} /\ writes \in 0..MaxWrites
  BY <1>1 DEF Row, Tags, Columns, Keys, Bodies, Rule
<1>3. TypeOK
  BY <1>1, <1>2 DEF TypeOK, Tags, Request, NoRequest, Operations, Verbs, Conditions, Bodies, Columns
<1>4. LockHeld /\ FormSteps /\ HeldRow /\ References
  BY <1>1 DEF LockHeld, FormSteps, HeldRow, References, NoRequest, Busy
<1>5. ConditionHoldsAtWrite /\ NoDanglingReference
  BY DEF ConditionHoldsAtWrite, NoDanglingReference
<1> QED
  BY <1>3, <1>4, <1>5 DEF IInv

\* Two clients past the lock are the same client.
LEMMA Exclusion ==
  ASSUME IInv, rule.locked, NEW c \in Clients, NEW d \in Clients, pc[c] \in Busy, pc[d] \in Busy
  PROVE  c = d
  BY DEF IInv, LockHeld

\* Answering leaves the types alone and lets go of the lock.
LEMMA FinishTypes ==
  ASSUME TypeOK, NEW c \in Clients, Finish(c)
  PROVE  /\ pc' = [pc EXCEPT ![c] = "idle"]
         /\ pc' \in [Clients -> {"idle", "lock", "probe", "load", "write", "activate", "swap"}]
         /\ req' = [req EXCEPT ![c] = NoRequest] /\ req' \in [Clients -> Request]
         /\ held' \in [Clients -> Row \cup {NoRow}]
         /\ mutex' \in Clients \cup {NoOne}
         /\ \A d \in Clients \ {c} : held'[d] = held[d] /\ (mutex = d => mutex' = d)
<1>1. NoRequest \in Request
  BY DEF NoRequest, Request, Operations, Verbs, Bodies, Conditions, Tags
<1> QED
  BY <1>1 DEF TypeOK, Finish

\* A request arrives with one of the operations its route offers.
LEMMA SubmitStep ==
  ASSUME IInv, NEW c \in Clients, Submit(c)
  PROVE  IInv'
<1> USE RuleAssumption DEF Submit
<1>1. PICK q \in Request : q.op \in Offered /\ req' = [req EXCEPT ![c] = q]
  <2>1. PICK op \in Offered, b \in Bodies, k \in Conditions :
           \E t \in IF k = "tag" THEN 1..writes ELSE {0} :
              req' = [req EXCEPT ![c] = [op |-> op, body |-> b, cond |-> k, tag |-> t]]
    OBVIOUS
  <2>2. PICK t \in IF k = "tag" THEN 1..writes ELSE {0} :
           req' = [req EXCEPT ![c] = [op |-> op, body |-> b, cond |-> k, tag |-> t]]
    BY <2>1
  <2>3. t \in Tags \cup {0}
    BY <2>2 DEF IInv, TypeOK, Tags
  <2>4. op \in Operations
    <3>1. rule.verbs \subseteq Verbs
      BY DEF IInv, TypeOK, Rule
    <3> QED
      BY <2>1, <3>1 DEF Offered, Operations
  <2> DEFINE q == [op |-> op, body |-> b, cond |-> k, tag |-> t]
  <2>5. q \in Request /\ q.op \in Offered
    BY <2>3, <2>4 DEF Request
  <2> QED
    BY <2>2, <2>5
<1>2. TypeOK'
  BY <1>1 DEF IInv, TypeOK
<1>3. pc'[c] \in {"lock", "load"} /\ (rule.locked => pc'[c] = "lock")
  BY DEF IInv, TypeOK
<1>4. \A d \in Clients \ {c} : pc'[d] = pc[d] /\ req'[d] = req[d]
  BY <1>1 DEF IInv, TypeOK
<1>5. LockHeld'
  BY <1>3, <1>4 DEF IInv, LockHeld, Busy
<1>6. FormSteps' /\ NoDanglingReference'
  BY DEF IInv, FormSteps, NoDanglingReference
<1>7. HeldRow'
  BY <1>3, <1>4 DEF IInv, HeldRow
<1>8. q.op \in {"REFER", "UNREFER"} => rule.guarded # "no"
  BY <1>1 DEF Offered, IInv, TypeOK, Rule, Verbs
<1>9. References'
  BY <1>1, <1>3, <1>4, <1>8 DEF IInv, TypeOK, References
<1>10. ConditionHoldsAtWrite'
  <2> SUFFICES ASSUME NEW d \in Clients, ArmOnly', pc'[d] \in {"load", "write"}
               PROVE  Matches(req[d], row)'
    BY DEF ConditionHoldsAtWrite
  <2>1. d # c
    BY <1>3 DEF ArmOnly
  <2> QED
    BY <1>4, <2>1 DEF IInv, ConditionHoldsAtWrite, ArmOnly, Matches
<1> QED
  BY <1>2, <1>5, <1>6, <1>7, <1>9, <1>10 DEF IInv

\* Taking the lock, and passing or failing the probe.
LEMMA LockStep ==
  ASSUME IInv, NEW c \in Clients, Lock(c)
  PROVE  IInv'
<1> USE RuleAssumption DEF Lock
<1>1. TypeOK'
  BY DEF IInv, TypeOK
<1>2. pc'[c] = "probe" /\ \A d \in Clients \ {c} : pc'[d] = pc[d]
  BY DEF IInv, TypeOK
<1>3. LockHeld'
  BY <1>2 DEF IInv, LockHeld, Busy
<1>4. FormSteps' /\ NoDanglingReference'
  BY DEF IInv, FormSteps, NoDanglingReference
<1>5. HeldRow' /\ References'
  BY <1>2 DEF IInv, HeldRow, References
<1>6. ConditionHoldsAtWrite'
  BY <1>2 DEF IInv, ConditionHoldsAtWrite, ArmOnly, Matches
<1> QED
  BY <1>1, <1>3, <1>4, <1>5, <1>6 DEF IInv

\* Leaving: every invariant about the other clients stays as it is.
LEMMA FinishStep ==
  ASSUME IInv, NEW c \in Clients, Finish(c), UNCHANGED <<rule, row, referred, writes, revoked, form>>,
         served' \in Row \cup {NoRow}
  PROVE  IInv'
<1>1. TypeOK'
  BY FinishTypes DEF IInv, TypeOK
<1>2. /\ pc'[c] = "idle" /\ req'[c] = NoRequest
      /\ \A d \in Clients \ {c} : pc'[d] = pc[d] /\ req'[d] = req[d] /\ held'[d] = held[d] /\ (mutex = d => mutex' = d)
  BY FinishTypes DEF IInv, TypeOK
<1>3. LockHeld'
  BY <1>2 DEF IInv, LockHeld, Busy
<1>4. FormSteps' /\ NoDanglingReference'
  BY DEF IInv, FormSteps, NoDanglingReference
<1>5. HeldRow'
  BY <1>2 DEF IInv, HeldRow
<1>6. References'
  BY <1>2 DEF IInv, References, NoRequest
<1>7. ConditionHoldsAtWrite'
  BY <1>2 DEF IInv, ConditionHoldsAtWrite, ArmOnly, Matches
<1> QED
  BY <1>1, <1>3, <1>4, <1>5, <1>6, <1>7 DEF IInv

LEMMA ProbeStep ==
  ASSUME IInv, NEW c \in Clients, Probe(c)
  PROVE  IInv'
<1>1. CASE Finish(c)
  BY <1>1, FinishStep DEF Probe, IInv, TypeOK
<1>2. CASE Matches(req[c], row) /\ pc' = [pc EXCEPT ![c] = "load"] /\ UNCHANGED <<req, held, mutex>>
  <2> USE <1>2 DEF Probe
  <2>1. pc'[c] = "load" /\ \A d \in Clients \ {c} : pc'[d] = pc[d]
    BY DEF IInv, TypeOK
  <2>2. TypeOK'
    BY DEF IInv, TypeOK
  <2>3. LockHeld'
    BY <2>1 DEF IInv, LockHeld, Busy
  <2>4. FormSteps' /\ NoDanglingReference'
    BY DEF IInv, FormSteps, NoDanglingReference
  <2>5. HeldRow' /\ References'
    BY <2>1 DEF IInv, HeldRow, References
  <2>6. ConditionHoldsAtWrite'
    BY <2>1 DEF IInv, ConditionHoldsAtWrite, ArmOnly, Matches
  <2> QED
    BY <2>2, <2>3, <2>4, <2>5, <2>6 DEF IInv
<1> QED
  BY <1>1, <1>2 DEF Probe

\* A client that goes on to write has seen the row it needs, and no reference
\* to a row it deletes.
LEMMA LoadStep ==
  ASSUME IInv, NEW c \in Clients, Load(c)
  PROVE  IInv'
<1>1. CASE Finish(c)
  BY <1>1, FinishStep DEF Load, IInv, TypeOK
<1>2. CASE /\ pc' = [pc EXCEPT ![c] = "write"] /\ held' = [held EXCEPT ![c] = row] /\ UNCHANGED <<req, mutex>>
           /\ req[c].op \in {"PATCH", "POST"} => row # NoRow
           /\ req[c].op = "REFER" /\ rule.guarded = "checked" => row # NoRow
           /\ req[c].op = "DELETE" /\ rule.guarded = "checked" => ~referred
  <2> USE <1>2 DEF Load
  <2>1. /\ pc'[c] = "write" /\ held'[c] = row
        /\ \A d \in Clients \ {c} : pc'[d] = pc[d] /\ held'[d] = held[d]
    BY DEF IInv, TypeOK
  <2>2. TypeOK'
    BY DEF IInv, TypeOK
  <2>3. LockHeld'
    BY <2>1 DEF IInv, LockHeld, Busy
  <2>4. FormSteps' /\ NoDanglingReference'
    BY DEF IInv, FormSteps, NoDanglingReference
  <2>5. HeldRow'
    BY <2>1 DEF IInv, HeldRow
  <2>6. References'
    BY <2>1 DEF IInv, References
  <2>7. ConditionHoldsAtWrite'
    BY <2>1 DEF IInv, ConditionHoldsAtWrite, ArmOnly, Matches
  <2> QED
    BY <2>2, <2>3, <2>4, <2>5, <2>6, <2>7 DEF IInv
<1> QED
  BY <1>1, <1>2 DEF Load

\* What the store keeps of any column is a column.
LEMMA ColumnTypes ==
  ASSUME TypeOK, NEW op \in Operations, NEW old \in Row \cup {NoRow}, NEW body \in Bodies,
         op = "PATCH" => old # NoRow
  PROVE  Column(op, old, body) \in Columns /\ Document(op, old, body) \in Bodies
<1>1. Fresh \in Columns
  BY DEF Fresh, Columns
<1>2. old # NoRow => old.col \in Columns /\ old.doc \in Bodies
  BY DEF Row
<1>3. Column(op, old, body) \in Columns
  BY <1>1, <1>2 DEF Column, Columns
<1>4. Document(op, old, body) \in Bodies
  BY <1>2 DEF Document, mergeObject, Bodies
<1> QED
  BY <1>3, <1>4

LEMMA StoredTypes ==
  ASSUME NEW col \in Columns, NEW n \in Tags
  PROVE  Stored(col, n) \in Columns /\ refreshSecret(col, n) \subseteq Columns
  BY DEF Stored, refreshSecret, Columns, Keys, Tags

\* Whatever a handler writes is a row, or nothing.
LEMMA WriteTypes ==
  ASSUME IInv, NEW c \in Clients, Write(c)
  PROVE  /\ row' \in Row \cup {NoRow} /\ writes' \in 0..MaxWrites /\ referred' \in BOOLEAN
         /\ revoked' \subseteq Columns
         /\ req[c].op \in {"PUT", "PATCH"} => row' # NoRow
<1> USE RuleAssumption DEF Write
<1>1. writes + 1 \in Tags /\ writes \in 0..MaxWrites /\ writes + 1 \in 0..MaxWrites
  BY DEF IInv, TypeOK, Room, Tags
<1>2. req[c] \in Request /\ held[c] \in Row \cup {NoRow}
  BY DEF IInv, TypeOK
<1>3. CASE req[c].op \in {"PUT", "PATCH"}
  <2> USE <1>3
  <2>1. /\ row' \in NewRows(req[c], held[c], writes + 1) /\ writes' = writes + 1
        /\ revoked' \subseteq revoked /\ UNCHANGED referred
    OBVIOUS
  <2>2. /\ Column(req[c].op, held[c], req[c].body) \in Columns
        /\ Document(req[c].op, held[c], req[c].body) \in Bodies
    BY <1>2, ColumnTypes DEF IInv, HeldRow, Request
  <2>3. \A col \in refreshSecret(Column(req[c].op, held[c], req[c].body), writes + 1) :
           Stored(col, writes + 1) \in Columns
    BY <1>1, <2>2, StoredTypes
  <2>4. row' \in Row
    BY <1>1, <2>1, <2>2, <2>3 DEF NewRows, Row
  <2> QED
    BY <1>1, <2>1, <2>4 DEF IInv, TypeOK
<1>4. CASE req[c].op = "POST"
  <2> USE <1>4
  <2> DEFINE old == IF rule.rekeyed = "update" THEN row ELSE held[c]
  <2>1. /\ row' \in IF old = NoRow THEN {NoRow} ELSE RekeyedRows(old, writes + 1)
        /\ revoked' = IF old = NoRow \/ rule.rekeyed = "vault" THEN revoked ELSE revoked \cup {old.col}
        /\ writes' = writes + 1 /\ UNCHANGED referred
    OBVIOUS
  <2>2. old \in Row \cup {NoRow}
    BY <1>2 DEF IInv, TypeOK
  <2>3. CASE old = NoRow
    BY <1>1, <2>1, <2>3 DEF IInv, TypeOK
  <2>4. CASE old # NoRow
    <3> HIDE DEF old
    <3>1. old.col \in Columns /\ old.doc \in Bodies
      BY <2>2, <2>4 DEF Row
    <3>2. refreshSecret(old.col, writes + 1) \subseteq Columns /\ writes + 1 \in Columns
      BY <1>1, <3>1, StoredTypes DEF Columns, Keys, Tags
    <3>3. row' \in Row
      BY <1>1, <2>1, <2>4, <3>1, <3>2 DEF RekeyedRows, Row
    <3> QED
      BY <1>1, <2>1, <2>4, <3>1, <3>3 DEF IInv, TypeOK
  <2> QED
    BY <2>3, <2>4
<1>5. CASE req[c].op \in {"DELETE", "REFER", "UNREFER"}
  BY <1>5 DEF IInv, TypeOK
<1> QED
  BY <1>2, <1>3, <1>4, <1>5 DEF Request, Operations, Verbs

\* The write itself: other clients past the lock there are none, and without
\* the lock there are no references and no promises.
LEMMA WriteStep ==
  ASSUME IInv, NEW c \in Clients, Write(c)
  PROVE  IInv'
<1> USE RuleAssumption
<1>1. UNCHANGED <<rule, served, form>> /\ pc[c] = "write"
  BY DEF Write
<1>2. \/ Finish(c)
      \/ pc' = [pc EXCEPT ![c] = "activate"] /\ UNCHANGED <<req, held, mutex>>
  BY DEF Write
<1>3. /\ pc'[c] \in {"idle", "activate"} /\ (pc'[c] = "activate" => mutex' = mutex)
      /\ req'[c] \in {req[c], NoRequest}
      /\ \A d \in Clients \ {c} : pc'[d] = pc[d] /\ req'[d] = req[d] /\ held'[d] = held[d] /\ (mutex = d => mutex' = d)
  BY <1>2, FinishTypes DEF IInv, TypeOK
<1>4. TypeOK'
  BY <1>1, <1>2, WriteTypes, FinishTypes DEF IInv, TypeOK
<1>5. LockHeld'
  BY <1>1, <1>3 DEF IInv, LockHeld, Busy
<1>6. FormSteps'
  BY <1>1 DEF IInv, FormSteps
<1>7. HeldRow'
  BY <1>3 DEF IInv, HeldRow
<1>8. rule.locked => \A d \in Clients \ {c} : pc'[d] \notin Busy
  BY <1>1, <1>3, Exclusion DEF Busy
<1>9. ConditionHoldsAtWrite'
  BY <1>1, <1>3, <1>8 DEF ConditionHoldsAtWrite, ArmOnly, Busy
<1>10. /\ referred' => rule.guarded # "no"
       /\ rule.guarded \in {"checked", "constrained"} /\ referred' => row' # NoRow
  <2>1. CASE req[c].op \in {"PUT", "PATCH"}
    BY <2>1, WriteTypes DEF IInv, References, Write
  <2>2. CASE req[c].op = "POST"
    <3>1. referred' = referred
      BY <2>2 DEF Write
    <3> SUFFICES ASSUME rule.guarded \in {"checked", "constrained"}, referred PROVE row' # NoRow
      BY <3>1 DEF IInv, References
    <3>2. row # NoRow /\ held[c] # NoRow
      BY <1>1, <2>2 DEF IInv, NoDanglingReference, HeldRow
    <3> DEFINE old == IF rule.rekeyed = "update" THEN row ELSE held[c]
    <3>3. row' \in RekeyedRows(old, writes + 1)
      BY <2>2, <3>2 DEF Write
    <3>4. NoRow \notin RekeyedRows(old, writes + 1)
      <4>1. old \in Row
        BY <3>2 DEF IInv, TypeOK
      <4> HIDE DEF old
      <4>2. writes + 1 \in Tags
        BY DEF Write, Room, IInv, TypeOK, Tags
      <4>3. refreshSecret(old.col, writes + 1) \subseteq Columns /\ writes + 1 \in Columns
        BY <4>1, <4>2, StoredTypes DEF Columns, Keys, Tags, Row
      <4>4. RekeyedRows(old, writes + 1) \subseteq Row
        BY <4>1, <4>2, <4>3 DEF RekeyedRows, Row
      <4> QED
        BY <4>4
    <3> QED
      BY <3>3, <3>4
  <2>3. CASE req[c].op = "DELETE"
    <3>1. referred' = referred
      BY <2>3 DEF Write
    <3>2. rule.guarded \in {"checked", "constrained"} => ~referred
      BY <1>1, <2>3 DEF Write, Constrained, IInv, References
    <3> QED
      BY <3>1, <3>2 DEF IInv, References
  <2>4. CASE req[c].op \in {"REFER", "UNREFER"}
    <3>1. row' = row /\ referred' = (req[c].op = "REFER")
      BY <2>4 DEF Write
    <3>2. rule.guarded \in {"checked", "constrained"} /\ req[c].op = "REFER" => row # NoRow
      BY <1>1 DEF Write, Constrained, IInv, References
    <3>3. rule.guarded # "no"
      BY <2>4 DEF IInv, References
    <3> QED
      BY <3>1, <3>2, <3>3
  <2> QED
    BY <2>1, <2>2, <2>3, <2>4 DEF IInv, TypeOK, Request, Operations, Verbs
<1>11. NoDanglingReference'
  BY <1>1, <1>10 DEF NoDanglingReference
<1>12. References'
  <2>1. (rule.guarded # "no" => rule.locked)' /\ (referred => rule.guarded # "no")'
    BY <1>1, <1>10 DEF IInv, References
  <2>2. ASSUME NEW d \in Clients, d # c
        PROVE  /\ req'[d].op \in {"REFER", "UNREFER"} => rule'.guarded # "no"
               /\ pc'[d] = "write" => rule.guarded = "no"
    BY <1>1, <1>3, <1>8, <2>2 DEF IInv, References, Busy
  <2>3. /\ req'[c].op \in {"REFER", "UNREFER"} => rule'.guarded # "no"
        /\ pc'[c] # "write"
    BY <1>1, <1>3 DEF IInv, References, NoRequest
  <2> QED
    BY <1>1, <2>1, <2>2, <2>3 DEF References
<1> QED
  BY <1>4, <1>5, <1>6, <1>7, <1>9, <1>11, <1>12 DEF IInv

\* The portal puts rows and takes none away.
LEMMA FormStep ==
  ASSUME IInv, FormRead \/ FormWrite \/ FormRefuse \/ FormRefer \/ FormActivate \/ FormSwap
  PROVE  IInv'
<1> USE RuleAssumption DEF FormRead, FormWrite, FormRefuse, FormRefer, FormActivate, FormSwap
<1>0. /\ form \in [step : {"idle", "write", "activate", "swap"}, row : Row \cup {NoRow}]
      /\ row \in Row \cup {NoRow}
  BY DEF IInv, TypeOK
<1>1. UNCHANGED <<rule, revoked, mutex, pc, req, held>>
  OBVIOUS
<1>2. row' \in Row \cup {NoRow} /\ writes' \in 0..MaxWrites /\ (row # NoRow => row' # NoRow)
  <2>1. CASE FormWrite
    <3> USE <2>1
    <3>1. form.row \in Row \cup {NoRow} /\ writes + 1 \in Tags /\ writes + 1 \in 0..MaxWrites
      BY DEF IInv, TypeOK, Room, Tags
    <3>2. PICK v \in Values \cup {form.row.col} :
             row' = [doc |-> form.row.doc, col |-> Stored(v, writes + 1), tag |-> writes + 1]
      OBVIOUS
    <3>3. form.row \in Row
      BY <3>1 DEF IInv, FormSteps
    <3>4. v \in Columns
      BY <3>2, <3>3 DEF Row, Columns
    <3>5. row' \in Row
      BY <3>1, <3>2, <3>3, <3>4, StoredTypes DEF Row
    <3> QED
      BY <3>1, <3>5
  <2>2. CASE FormRead \/ FormRefuse \/ FormRefer \/ FormActivate \/ FormSwap
    BY <2>2 DEF IInv, TypeOK
  <2> QED
    BY <2>1, <2>2
<1>3. served' \in Row \cup {NoRow}
  BY DEF IInv, TypeOK, Row
<1>4. form' \in [step : {"idle", "write", "activate", "swap"}, row : Row \cup {NoRow}]
  <2>1. CASE FormRead \/ FormRefuse \/ FormRefer \/ FormActivate \/ FormSwap
    <3>1. PICK t \in {"idle", "write", "activate", "swap"}, x \in Row \cup {NoRow} : form' = [step |-> t, row |-> x]
      BY <1>0, <2>1
    <3> QED
      BY <3>1
  <2>2. CASE FormWrite
    BY <1>0, <2>2
  <2> QED
    BY <2>1, <2>2
<1>a. /\ referred' \in BOOLEAN
      /\ referred' = referred \/ rule.guarded = "searched"
           \/ (rule.guarded = "constrained" /\ (referred' => row # NoRow))
  BY DEF IInv, TypeOK
<1>5. TypeOK'
  BY <1>1, <1>2, <1>3, <1>4, <1>a DEF IInv, TypeOK
<1>6. FormSteps'
  <2>1. CASE FormRead
    BY <1>1, <2>1 DEF FormSteps
  <2>2. CASE FormWrite
    <3>1. form'.step = "activate" /\ form.step = "write"
      BY <1>0, <2>2
    <3> QED
      BY <1>1, <3>1 DEF IInv, FormSteps
  <2>3. CASE FormRefuse \/ FormSwap
    BY <1>1, <2>3 DEF FormSteps
  <2>4. CASE FormRefer
    BY <1>1, <2>4 DEF FormSteps
  <2>5. CASE FormActivate
    BY <1>1, <2>5 DEF IInv, FormSteps
  <2> QED
    BY <2>1, <2>2, <2>3, <2>4, <2>5
<1>7. LockHeld' /\ HeldRow'
  BY <1>1 DEF IInv, LockHeld, HeldRow
<1>8. References' /\ NoDanglingReference'
  BY <1>1, <1>2, <1>a DEF IInv, References, NoDanglingReference
<1>9. ConditionHoldsAtWrite'
  <2>1. CASE rule.portal
    BY <1>1, <2>1 DEF ConditionHoldsAtWrite, ArmOnly
  <2>2. CASE ~rule.portal
    <3>1. row' = row
      BY <2>2 DEF IInv, FormSteps
    <3> QED
      BY <1>1, <3>1 DEF IInv, ConditionHoldsAtWrite, ArmOnly, Matches
  <2> QED
    BY <2>1, <2>2
<1> QED
  BY <1>5, <1>6, <1>7, <1>8, <1>9 DEF IInv

\* The statement the foreign key refuses, the two halves of an activation.
LEMMA RefusedStep ==
  ASSUME IInv, NEW c \in Clients, WriteRefused(c)
  PROVE  IInv'
  BY FinishStep DEF WriteRefused, IInv, TypeOK

LEMMA ActivateStep ==
  ASSUME IInv, NEW c \in Clients, Activate(c)
  PROVE  IInv'
<1> USE DEF Activate
<1>1. /\ pc'[c] = "swap" /\ pc[c] = "activate"
      /\ \A d \in Clients \ {c} : pc'[d] = pc[d] /\ held'[d] = held[d]
  BY DEF IInv, TypeOK
<1>2. TypeOK'
  BY DEF IInv, TypeOK
<1>3. LockHeld'
  BY <1>1 DEF IInv, LockHeld, Busy
<1>4. FormSteps' /\ NoDanglingReference'
  BY DEF IInv, FormSteps, NoDanglingReference
<1>5. HeldRow' /\ References'
  BY <1>1 DEF IInv, HeldRow, References
<1>6. ConditionHoldsAtWrite'
  BY <1>1 DEF IInv, ConditionHoldsAtWrite, ArmOnly, Matches
<1> QED
  BY <1>2, <1>3, <1>4, <1>5, <1>6 DEF IInv

LEMMA SwapStep ==
  ASSUME IInv, NEW c \in Clients, Swap(c)
  PROVE  IInv'
<1>1. held[c] \in Row \cup {NoRow}
  BY DEF IInv, TypeOK
<1> QED
  BY <1>1, FinishStep DEF Swap

\* Every step of every client and of the portal keeps the invariant.
LEMMA NextIInv == IInv /\ [Next]_vars => IInv'
<1> SUFFICES ASSUME IInv, [Next]_vars PROVE IInv'
  OBVIOUS
<1>2. CASE UNCHANGED vars
  BY <1>2 DEF vars, IInv, TypeOK, LockHeld, FormSteps, HeldRow, References,
              ConditionHoldsAtWrite, ArmOnly, Matches, NoDanglingReference
<1> QED
  BY <1>2, SubmitStep, LockStep, ProbeStep, LoadStep, RefusedStep, WriteStep, ActivateStep, SwapStep,
     FormStep DEF Next, Handler

LEMMA Inductive == Spec => []IInv
  BY InitIInv, NextIInv, PTL DEF Spec

\* Whatever the handlers' rules, no sequence of requests, regenerations,
\* refreshed secrets and portal edits leaves the types of the store.
THEOREM TypeCorrect == Spec => []TypeOK
<1>1. IInv => TypeOK
  BY DEF IInv
<1> QED
  BY Inductive, <1>1, PTL

\* A conditional write is decided by the row it replaces, for every family
\* whose routes take mutationMu and that the portal does not edit.
THEOREM ConditionsHold == Spec => []ConditionHoldsAtWrite
<1>1. IInv => ConditionHoldsAtWrite
  BY DEF IInv
<1> QED
  BY Inductive, <1>1, PTL

\* No interleaving of deletions, new references and portal edits leaves a
\* diagnostic without its logger, nor an API without its version set.
THEOREM ReferencesHold == Spec => []NoDanglingReference
<1>1. IInv => NoDanglingReference
  BY DEF IInv
<1> QED
  BY Inductive, <1>1, PTL

(***************************************************************************)
(* Keys and the properties a request does not name.                        *)
(*                                                                         *)
(* Every row in the store, in a handler's hands or in a portal form has    *)
(* the shape its family's rule gives it (Shapes).  Where only ARM writes,  *)
(* the row a handler is about to write over is the row it read             *)
(* (HeldIsRow), and keys are named by the write that made them, so a new   *)
(* key is none of the old ones (KeysKnown).  Where every method activates, *)
(* too, the snapshot about to be published is built from the stored row,   *)
(* and a quiet gateway serves it (QuietServes).                            *)
(***************************************************************************)
\* A row as the family's rule lets the store keep it.
Shape(x) ==
    x # NoRow =>
        /\ rule.stripped => x.doc = Missing
        /\ ~rule.stored => x.col = Empty
        /\ rule.filled # "no" => x.col # Empty

Shapes == Shape(row) /\ Shape(form.row) /\ \A c \in Clients : Shape(held[c])

\* A request in flight is one the family's routes accept.
Asked ==
    \A c \in Clients :
        /\ pc[c] # "idle" /\ req[c].op \in Verbs => req[c].op \in rule.verbs
        /\ pc[c] # "idle" /\ req[c].op = "POST" => rule.rekeyed # "no"
        /\ pc[c] = "write" /\ req[c].op = "PUT" /\ ~rule.creates => held[c] # NoRow

HeldIsRow == ArmOnly => \A c \in Clients : pc[c] = "write" => held[c] = row

\* Keys are regenerated by handlers of two kinds only.
Regenerates == revoked # {} => rule.rekeyed \in {"upsert", "update"}

\* A key in the row or regenerated away was made by a write that has been.
KeysKnown ==
    ArmOnly =>
        /\ \A k \in revoked : k \in Nat => k <= writes
        /\ row # NoRow => (row.col \in Nat => row.col <= writes)

KeyHolds == ArmOnly /\ row # NoRow => row.col \notin revoked

Activating == \E c \in Clients : pc[c] \in {"activate", "swap"}

QuietServes ==
    ArmOnly /\ "POST" \in rule.activates /\ rule.rekeyed \in {"upsert", "update"}
        => /\ ~Activating => served = NoRow \/ served = row
           /\ \A c \in Clients : pc[c] = "swap" => held[c] = row

KeyInv == IInv /\ rule \in Rules /\ Asked /\ Shapes /\ HeldIsRow
             /\ Regenerates /\ KeysKnown /\ KeyHolds /\ QuietServes

LEMMA InitKeyInv == Init => KeyInv
<1> SUFFICES ASSUME Init PROVE KeyInv
  OBVIOUS
<1>1. IInv
  BY InitIInv
<1> USE DEF Init
<1>2. rule \in Rules /\ rule \in Rule
  BY RuleAssumption
<1>3. Shapes
  BY <1>2, FamilyAssumption, RuleAssumption DEF Shapes, Shape
<1>4. Asked /\ HeldIsRow /\ Regenerates
  BY DEF Asked, HeldIsRow, Regenerates
<1>5. KeysKnown /\ KeyHolds
  BY RuleAssumption DEF KeysKnown, KeyHolds
<1>6. QuietServes
  BY DEF QuietServes
<1> QED
  BY <1>1, <1>2, <1>3, <1>4, <1>5, <1>6 DEF KeyInv

\* What the store keeps has the family's shape.
LEMMA StoredShape ==
  ASSUME TypeOK, rule \in Rules, NEW col \in Columns, NEW n \in Tags, NEW x \in Row,
         x.col = Stored(col, n), rule.stripped => x.doc = Missing
  PROVE  Shape(x)
<1>1. n # Empty /\ Preset # Empty
  BY RuleAssumption DEF Tags
<1> QED
  BY <1>1, FamilyAssumption DEF Shape, Stored, TypeOK, Rule

\* Steps that change neither the store nor what a handler holds, other than
\* to let go of it.
LEMMA SameRows ==
  ASSUME KeyInv, IInv', UNCHANGED <<rule, row, writes, revoked>>, Asked', QuietServes',
         \/ form' = form
         \/ form'.row = NoRow \/ form'.row = row,
         \A c \in Clients :
            /\ held'[c] = held[c] \/ held'[c] = NoRow \/ held'[c] = row
            /\ pc'[c] = "write" => (pc[c] = "write" /\ held'[c] = held[c]) \/ held'[c] = row
  PROVE  KeyInv'
<1>1. Shapes'
  BY DEF KeyInv, Shapes, Shape
<1>2. HeldIsRow'
  BY DEF KeyInv, HeldIsRow, ArmOnly
<1>3. Regenerates' /\ KeysKnown' /\ KeyHolds'
  BY DEF KeyInv, Regenerates, KeysKnown, KeyHolds, ArmOnly
<1> QED
  BY <1>1, <1>2, <1>3 DEF KeyInv

\* A request arrives, takes the lock and passes its probe.
LEMMA ArriveKeyInv ==
  ASSUME KeyInv, NEW c \in Clients, Submit(c) \/ Lock(c) \/ Probe(c)
  PROVE  KeyInv'
<1>1. IInv'
  BY SubmitStep, LockStep, ProbeStep DEF KeyInv
<1>2. UNCHANGED <<rule, row, served, writes, revoked, form>>
  BY DEF Submit, Lock, Probe
<1>3. /\ pc'[c] \notin {"write", "activate", "swap"} /\ pc[c] \notin {"write", "activate", "swap"}
      /\ held'[c] \in {held[c], NoRow}
      /\ \A d \in Clients \ {c} : pc'[d] = pc[d] /\ req'[d] = req[d] /\ held'[d] = held[d]
  BY FinishTypes DEF Submit, Lock, Probe, Finish, KeyInv, IInv, TypeOK
<1>4. Asked'
  <2>1. CASE Submit(c)
    <3>1. PICK op \in Offered : req'[c].op = op
      BY <2>1 DEF Submit, KeyInv, IInv, TypeOK
    <3>2. /\ req'[c].op \in Verbs => req'[c].op \in rule.verbs
          /\ req'[c].op = "POST" => rule.rekeyed # "no"
      BY <3>1 DEF Offered, Verbs, KeyInv, IInv, TypeOK, Rule
    <3> QED
      BY <1>2, <1>3, <3>2 DEF KeyInv, Asked
  <2>2. CASE Lock(c) \/ Probe(c)
    <3>1. pc'[c] = "idle" \/ (pc[c] # "idle" /\ req'[c] = req[c])
      BY <2>2 DEF Lock, Probe, Finish, KeyInv, IInv, TypeOK
    <3> QED
      BY <1>2, <1>3, <3>1 DEF KeyInv, Asked
  <2> QED
    BY <2>1, <2>2
<1>5. QuietServes'
  BY <1>2, <1>3 DEF KeyInv, QuietServes, Activating, ArmOnly
<1> QED
  BY <1>1, <1>2, <1>3, <1>4, <1>5, SameRows

\* The handler reads the row it will write over, or answers.
LEMMA LoadKeyInv ==
  ASSUME KeyInv, NEW c \in Clients, Load(c)
  PROVE  KeyInv'
<1>1. IInv'
  BY LoadStep DEF KeyInv
<1>2. UNCHANGED <<rule, row, served, writes, revoked, form>> /\ pc[c] = "load"
  BY DEF Load
<1>3. \/ Finish(c)
      \/ /\ pc' = [pc EXCEPT ![c] = "write"] /\ held' = [held EXCEPT ![c] = row]
         /\ UNCHANGED <<req, mutex>> /\ (req[c].op = "PUT" /\ ~rule.creates => row # NoRow)
  BY DEF Load
<1>a. /\ \/ pc'[c] = "idle" /\ held'[c] = NoRow
         \/ /\ pc'[c] = "write" /\ held'[c] = row /\ req' = req
            /\ req[c].op = "PUT" /\ ~rule.creates => row # NoRow
      /\ \A d \in Clients \ {c} : pc'[d] = pc[d] /\ req'[d] = req[d] /\ held'[d] = held[d]
  BY <1>3 DEF Finish, KeyInv, IInv, TypeOK
<1>4. Asked'
  BY <1>2, <1>a DEF KeyInv, Asked
<1>5. QuietServes'
  BY <1>2, <1>a DEF KeyInv, QuietServes, Activating, ArmOnly
<1> QED
  BY <1>1, <1>2, <1>a, <1>4, <1>5, SameRows

\* A foreign key refuses the statement.
LEMMA RefusedKeyInv ==
  ASSUME KeyInv, NEW c \in Clients, WriteRefused(c)
  PROVE  KeyInv'
<1>1. IInv'
  BY RefusedStep DEF KeyInv
<1>2. UNCHANGED <<rule, row, served, writes, revoked, form>> /\ pc[c] = "write"
  BY DEF WriteRefused
<1>3. /\ pc'[c] = "idle" /\ held'[c] = NoRow
      /\ \A d \in Clients \ {c} : pc'[d] = pc[d] /\ req'[d] = req[d] /\ held'[d] = held[d]
  BY DEF WriteRefused, Finish, KeyInv, IInv, TypeOK
<1>4. Asked'
  BY <1>2, <1>3 DEF KeyInv, Asked
<1>5. QuietServes'
  BY <1>2, <1>3 DEF KeyInv, QuietServes, Activating, ArmOnly
<1> QED
  BY <1>1, <1>2, <1>3, <1>4, <1>5, SameRows

\* A new snapshot is built from the store.
LEMMA ActivateKeyInv ==
  ASSUME KeyInv, NEW c \in Clients, Activate(c)
  PROVE  KeyInv'
<1>1. IInv'
  BY ActivateStep DEF KeyInv
<1>2. UNCHANGED <<rule, row, served, writes, revoked, form, req>>
  BY DEF Activate
<1>3. /\ pc'[c] = "swap" /\ pc[c] = "activate" /\ held'[c] = row
      /\ \A d \in Clients \ {c} : pc'[d] = pc[d] /\ held'[d] = held[d]
  BY DEF Activate, KeyInv, IInv, TypeOK
<1>4. Asked'
  BY <1>2, <1>3 DEF KeyInv, Asked
<1>5. QuietServes'
  BY <1>2, <1>3 DEF KeyInv, QuietServes, Activating, ArmOnly
<1> QED
  BY <1>1, <1>2, <1>3, <1>4, <1>5, SameRows

\* It is published.
LEMMA SwapKeyInv ==
  ASSUME KeyInv, NEW c \in Clients, Swap(c)
  PROVE  KeyInv'
<1>1. IInv'
  BY SwapStep DEF KeyInv
<1>2. UNCHANGED <<rule, row, writes, revoked, form>> /\ served' = held[c] /\ pc[c] = "swap"
  BY DEF Swap
<1>3. /\ pc'[c] = "idle" /\ held'[c] = NoRow
      /\ \A d \in Clients \ {c} : pc'[d] = pc[d] /\ req'[d] = req[d] /\ held'[d] = held[d]
  BY DEF Swap, Finish, KeyInv, IInv, TypeOK
<1>4. Asked'
  BY <1>2, <1>3 DEF KeyInv, Asked
<1>5. QuietServes'
  BY <1>2, <1>3 DEF KeyInv, QuietServes, Activating, ArmOnly
<1> QED
  BY <1>1, <1>2, <1>3, <1>4, <1>5, SameRows

\* A column the handler hands to the store is the client's, a default, or the
\* one it read.
LEMMA ColumnSource ==
  ASSUME TypeOK, NEW op \in Operations, NEW old \in Row \cup {NoRow}, NEW b \in Bodies,
         op = "PATCH" => old # NoRow
  PROVE  \/ Column(op, old, b) \in Values \cup {Empty, Preset}
         \/ old # NoRow /\ Column(op, old, b) = old.col
  BY DEF Column, Fresh

\* The row a write leaves has the family's shape.
LEMMA WriteShape ==
  ASSUME KeyInv, NEW c \in Clients, Write(c)
  PROVE  Shape(row')
<1> DEFINE n == writes + 1
<1>0. /\ n \in Tags /\ req[c] \in Request /\ pc[c] = "write"
      /\ held[c] \in Row \cup {NoRow} /\ row \in Row \cup {NoRow} /\ rule \in Rule
  <2>1. pc[c] = "write" /\ writes < MaxWrites
    BY DEF Write, Room
  <2>2. n \in Tags
    BY <2>1, RuleAssumption DEF KeyInv, IInv, TypeOK, Tags
  <2> QED
    BY <2>1, <2>2 DEF KeyInv, IInv, TypeOK
<1>1. /\ n \in Tags /\ n # Empty /\ req[c] \in Request /\ pc[c] = "write"
      /\ held[c] \in Row \cup {NoRow} /\ row \in Row \cup {NoRow} /\ rule \in Rule
  BY <1>0, RuleAssumption DEF Tags
<1>2. CASE req[c].op \in {"PUT", "PATCH"}
  <2>1. row' \in NewRows(req[c], held[c], n)
    BY <1>2 DEF Write
  <2>2. /\ Column(req[c].op, held[c], req[c].body) \in Columns
        /\ Document(req[c].op, held[c], req[c].body) \in Bodies
    BY <1>1, <1>2, ColumnTypes DEF KeyInv, IInv, HeldRow, Request
  <2>3. PICK col \in refreshSecret(Column(req[c].op, held[c], req[c].body), n) :
           row' = [doc |-> Document(req[c].op, held[c], req[c].body), tag |-> n, col |-> Stored(col, n)]
    BY <2>1 DEF NewRows
  <2>4. col \in Columns /\ Stored(col, n) \in Columns
    BY <1>1, <2>2, StoredTypes
  <2>5. row' \in Row
    BY <1>1, <2>2, <2>3, <2>4 DEF Row
  <2>6. rule.stripped => row'.doc = Missing
    BY <2>3 DEF Document
  <2> QED
    BY <1>1, <2>3, <2>4, <2>5, <2>6, StoredShape DEF KeyInv, IInv
<1>3. CASE req[c].op = "POST"
  <2> DEFINE old == IF rule.rekeyed = "update" THEN row ELSE held[c]
  <2>1. row' \in IF old = NoRow THEN {NoRow} ELSE RekeyedRows(old, n)
    BY <1>3 DEF Write
  <2>2. rule.stored /\ Shape(old)
    BY <1>1, <1>3, FamilyAssumption DEF KeyInv, Asked, Shapes
  <2> HIDE DEF old
  <2>3. CASE old = NoRow
    BY <2>1, <2>3 DEF Shape
  <2>4. CASE old # NoRow
    <3>1. row'.doc = old.doc /\ row'.col \in {old.col, n}
      BY <2>1, <2>4 DEF RekeyedRows, refreshSecret
    <3> QED
      BY <1>1, <2>2, <2>4, <3>1 DEF Shape
  <2> QED
    BY <2>3, <2>4
<1>4. CASE req[c].op \in {"DELETE", "REFER", "UNREFER"}
  BY <1>4 DEF Write, KeyInv, Shapes, Shape
<1> QED
  BY <1>1, <1>2, <1>3, <1>4 DEF Request, Operations, Verbs

\* Where only ARM writes, a write leaves no key that was regenerated away.
LEMMA WriteKeys ==
  ASSUME KeyInv, NEW c \in Clients, Write(c), ArmOnly
  PROVE  /\ \A k \in revoked' : k \in Nat => k <= writes'
         /\ row' # NoRow => (row'.col \in Nat => row'.col <= writes') /\ row'.col \notin revoked'
<1> DEFINE n == writes + 1
<1>1. /\ n \in Tags /\ n \in Nat /\ writes \in Nat /\ req[c] \in Request /\ pc[c] = "write"
      /\ held[c] = row /\ row \in Row \cup {NoRow} /\ rule \in Rule /\ rule \in Rules
  BY RuleAssumption DEF Write, Room, KeyInv, IInv, TypeOK, Tags, HeldIsRow
<1>2. /\ \A k \in revoked : k \in Nat => k <= writes
      /\ row # NoRow => (row.col \in Nat => row.col <= writes) /\ row.col \notin revoked
  BY DEF KeyInv, KeysKnown, KeyHolds
<1>3. n \notin revoked
  BY <1>1, <1>2
<1>4. CASE req[c].op \in {"PUT", "PATCH"}
  <2> DEFINE new == Column(req[c].op, row, req[c].body)
  <2>1. /\ row' \in NewRows(req[c], row, n) /\ writes' = n
        /\ revoked' = IF rule.applied THEN revoked \ {req[c].body} ELSE revoked
    BY <1>1, <1>4 DEF Write
  <2>2. PICK col \in refreshSecret(new, n) : row'.col = Stored(col, n)
    BY <2>1 DEF NewRows
  <2>3. \/ new \in Values \cup {Empty, Preset}
        \/ row # NoRow /\ new = row.col
    <3>1. /\ TypeOK /\ req[c].op \in Operations /\ req[c].body \in Bodies
          /\ req[c].op = "PATCH" => row # NoRow
      BY <1>1 DEF KeyInv, IInv, HeldRow, Request
    <3> QED
      BY <1>1, <3>1, ColumnSource
  <2>4. row'.col \in {new, n, Empty, Preset}
    BY <2>2 DEF Stored, refreshSecret
  <2>5. row'.col \in Nat => row'.col <= n
    BY <1>1, <1>2, <2>3, <2>4, RuleAssumption
  <2>6. row'.col \notin revoked'
    <3>1. CASE rule.rekeyed \notin {"upsert", "update"}
      BY <2>1, <3>1 DEF KeyInv, Regenerates
    <3>2. CASE rule.rekeyed \in {"upsert", "update"}
      <4>1. /\ rule.stored /\ rule.keeps /\ rule.nulled = {} /\ ~rule.replaced /\ ~rule.preset
            /\ rule.filled = IF rule.creates THEN "key" ELSE "no"
        BY <1>1, <3>2, FamilyAssumption
      <4>2. row'.col = Stored(new, n)
        BY <2>2, <3>2 DEF refreshSecret
      <4>3. CASE req[c].body \in Values /\ rule.applied
        <5>1. new = req[c].body /\ new # Empty
          BY <4>3, RuleAssumption DEF Column
        <5> QED
          BY <2>1, <4>1, <4>2, <4>3, <5>1 DEF Stored
      <4>4. CASE ~(req[c].body \in Values /\ rule.applied) /\ row # NoRow
        <5>1. new = row.col
          BY <4>1, <4>4 DEF Column
        <5>2. row'.col \in {row.col, n}
          BY <4>1, <4>2, <5>1 DEF Stored
        <5> QED
          BY <1>2, <1>3, <2>1, <4>4, <5>2
      <4>5. CASE ~(req[c].body \in Values /\ rule.applied) /\ row = NoRow
        <5>1. req[c].op = "PUT" /\ rule.creates
          BY <1>1, <1>4, <4>5 DEF KeyInv, IInv, HeldRow, Asked
        <5>2. new = Empty
          BY <4>1, <4>5, <5>1 DEF Column, Fresh
        <5>3. row'.col = n
          BY <4>1, <4>2, <5>1, <5>2 DEF Stored
        <5> QED
          BY <1>3, <2>1, <5>3
      <4> QED
        BY <4>3, <4>4, <4>5
    <3> QED
      BY <3>1, <3>2
  <2>7. revoked' \subseteq revoked
    BY <2>1
  <2> QED
    BY <1>1, <1>2, <2>1, <2>5, <2>6, <2>7
<1>5. CASE req[c].op = "POST"
  <2>1. row # NoRow
    BY <1>1, <1>5 DEF KeyInv, IInv, HeldRow
  <2>2. /\ row' \in RekeyedRows(row, n) /\ writes' = n
        /\ revoked' = IF rule.rekeyed = "vault" THEN revoked ELSE revoked \cup {row.col}
    BY <1>1, <1>5, <2>1 DEF Write
  <2>3. CASE rule.rekeyed = "vault"
    <3>1. revoked' = {} /\ row'.col \in {row.col, n}
      BY <2>2, <2>3 DEF RekeyedRows, refreshSecret, KeyInv, Regenerates
    <3> QED
      BY <1>1, <1>2, <2>1, <2>2, <3>1
  <2>4. CASE rule.rekeyed # "vault"
    <3>1. row'.col = n /\ revoked' = revoked \cup {row.col}
      BY <2>2, <2>4 DEF RekeyedRows
    <3> QED
      BY <1>1, <1>2, <1>3, <2>1, <2>2, <3>1
  <2> QED
    BY <2>3, <2>4
<1>6. CASE req[c].op \in {"DELETE", "REFER", "UNREFER"}
  BY <1>2, <1>6 DEF Write
<1> QED
  BY <1>1, <1>4, <1>5, <1>6 DEF Request, Operations, Verbs

LEMMA WriteKeyInv ==
  ASSUME KeyInv, NEW c \in Clients, Write(c)
  PROVE  KeyInv'
<1>1. IInv'
  BY WriteStep DEF KeyInv
<1>2. UNCHANGED <<rule, served, form>> /\ pc[c] = "write" /\ req[c] \in Request /\ rule \in Rule /\ rule \in Rules
  BY DEF Write, KeyInv, IInv, TypeOK
<1>3. \/ Finish(c) /\ req[c].op \notin rule.activates
      \/ pc' = [pc EXCEPT ![c] = "activate"] /\ UNCHANGED <<req, held, mutex>>
  BY DEF Write
<1>4. /\ pc'[c] = "idle" \/ (pc'[c] = "activate" /\ req'[c] = req[c])
      /\ req[c].op \in rule.activates => pc'[c] = "activate"
      /\ held'[c] \in {held[c], NoRow}
      /\ \A d \in Clients \ {c} : pc'[d] = pc[d] /\ req'[d] = req[d] /\ held'[d] = held[d]
  BY <1>3 DEF Finish, KeyInv, IInv, TypeOK
<1>5. Asked'
  BY <1>2, <1>4 DEF KeyInv, Asked
<1>6. Shapes'
  BY <1>2, <1>4, WriteShape DEF KeyInv, Shapes, Shape
<1>7. HeldIsRow'
  <2>1. rule.locked => \A d \in Clients \ {c} : pc[d] # "write"
    BY <1>2, Exclusion DEF Busy, KeyInv
  <2> QED
    BY <1>2, <1>4, <2>1 DEF HeldIsRow, ArmOnly
<1>8. KeysKnown' /\ KeyHolds'
  BY <1>2, WriteKeys DEF KeysKnown, KeyHolds, ArmOnly
<1>9. Regenerates'
  <2>1. revoked' \subseteq revoked \/ (req[c].op = "POST" /\ rule.rekeyed # "vault")
    BY DEF Write
  <2>2. req[c].op = "POST" => rule.rekeyed # "no"
    BY <1>2 DEF KeyInv, Asked
  <2> QED
    BY <1>2, <2>1, <2>2 DEF KeyInv, Regenerates, Rule
<1>10. QuietServes'
  <2> SUFFICES ASSUME ArmOnly, "POST" \in rule.activates, rule.rekeyed \in {"upsert", "update"}
               PROVE  Activating' /\ \A d \in Clients : pc'[d] # "swap"
    BY <1>2 DEF QuietServes, ArmOnly
  <2>1. req[c].op \notin {"REFER", "UNREFER"}
    BY <1>2, FamilyAssumption DEF KeyInv, IInv, References
  <2>2. req[c].op \in Verbs \cup {"POST"}
    BY <1>2, <2>1 DEF Request, Operations
  <2>3. pc'[c] = "activate"
    BY <1>2, <1>4, <2>2, FamilyAssumption DEF KeyInv, Asked
  <2>4. \A d \in Clients \ {c} : pc[d] \notin Busy
    BY <1>2, Exclusion DEF KeyInv, ArmOnly, Busy
  <2> QED
    BY <1>4, <2>3, <2>4 DEF Activating, Busy
<1> QED
  BY <1>1, <1>2, <1>5, <1>6, <1>7, <1>8, <1>9, <1>10 DEF KeyInv

\* The portal writes rows back as it read them; where it does, nothing is
\* promised of old keys in the row.
LEMMA FormKeyInv ==
  ASSUME KeyInv, FormRead \/ FormWrite \/ FormRefuse \/ FormRefer \/ FormActivate \/ FormSwap
  PROVE  KeyInv'
<1>1. IInv'
  BY FormStep DEF KeyInv
<1>2. UNCHANGED <<rule, revoked, mutex, pc, req, held>>
  BY DEF FormRead, FormWrite, FormRefuse, FormRefer, FormActivate, FormSwap
<1>3. Asked'
  BY <1>2 DEF KeyInv, Asked
<1>4. CASE FormWrite
  <2>1. /\ form.row \in Row /\ writes + 1 \in Tags /\ TypeOK /\ rule \in Rules /\ rule.portal
        /\ form.step = "write"
    BY <1>4, RuleAssumption DEF FormWrite, KeyInv, IInv, TypeOK, FormSteps, Room, Tags
  <2>2. PICK v \in Values \cup {form.row.col} :
           row' = [doc |-> form.row.doc, col |-> Stored(v, writes + 1), tag |-> writes + 1]
    BY <1>4 DEF FormWrite
  <2>3. v \in Columns /\ row' \in Row
    <3>1. v \in Columns
      BY <2>1, <2>2 DEF Row, Columns
    <3> QED
      BY <2>1, <2>2, <3>1, StoredTypes DEF Row
  <2>4. Shape(row')
    <3>1. rule.stripped => row'.doc = Missing
      BY <2>1, <2>2, RuleAssumption DEF KeyInv, Shapes, Shape
    <3>2. row'.col = Stored(v, writes + 1)
      BY <2>2
    <3> QED
      BY <2>1, <2>3, <3>1, <3>2, StoredShape
  <2>5. form'.step = "activate" /\ form'.row = form.row
    BY <1>4 DEF FormWrite, KeyInv, IInv, TypeOK
  <2>6. Shapes'
    BY <1>2, <2>4, <2>5 DEF KeyInv, Shapes, Shape
  <2>7. HeldIsRow' /\ KeysKnown' /\ KeyHolds' /\ Regenerates' /\ QuietServes'
    BY <1>2, <2>1, <2>5 DEF HeldIsRow, KeysKnown, KeyHolds, ArmOnly, KeyInv, Regenerates, QuietServes, Activating
  <2> QED
    BY <1>1, <1>2, <1>3, <2>6, <2>7 DEF KeyInv
<1>5. CASE FormRead \/ FormRefuse \/ FormRefer \/ FormActivate \/ FormSwap
  <2>1. /\ UNCHANGED <<row, writes>> /\ form'.row \in {NoRow, row}
        /\ served' = served \/ form.step # "idle"
    <3>1. CASE FormRead
      BY <3>1 DEF FormRead
    <3>2. CASE FormRefuse
      BY <3>2 DEF FormRefuse
    <3>3. CASE FormRefer
      BY <3>3 DEF FormRefer
    <3>4. CASE FormActivate
      BY <3>4 DEF FormActivate
    <3>5. CASE FormSwap
      BY <3>5 DEF FormSwap
    <3> QED
      BY <1>5, <3>1, <3>2, <3>3, <3>4, <3>5
  <2>2. rule.rekeyed \in {"upsert", "update"} => rule.guarded = "no"
    BY FamilyAssumption DEF KeyInv
  <2>3. QuietServes'
    BY <1>2, <2>1, <2>2 DEF KeyInv, IInv, FormSteps, QuietServes, Activating, ArmOnly
  <2> QED
    BY <1>1, <1>2, <1>3, <2>1, <2>3, SameRows
<1> QED
  BY <1>4, <1>5

LEMMA NextKeyInv == KeyInv /\ [Next]_vars => KeyInv'
<1> SUFFICES ASSUME KeyInv, [Next]_vars PROVE KeyInv'
  OBVIOUS
<1>1. CASE UNCHANGED vars
  <2>1. IInv'
    BY <1>1, NextIInv DEF KeyInv
  <2>2. Asked' /\ QuietServes'
    BY <1>1 DEF vars, KeyInv, Asked, QuietServes, Activating, ArmOnly
  <2> QED
    BY <1>1, <2>1, <2>2, SameRows DEF vars
<1> QED
  BY <1>1, ArriveKeyInv, LoadKeyInv, RefusedKeyInv, WriteKeyInv, ActivateKeyInv, SwapKeyInv, FormKeyInv
  DEF Next, Handler

LEMMA InductiveKeys == Spec => []KeyInv
  BY InitKeyInv, NextKeyInv, PTL DEF Spec

\* Where only ARM writes, a key that was regenerated away is not the row's key
\* again, and no gateway that has finished its activations accepts it.
THEOREM RevokedStaysRevoked == Spec => []RevokedKeyStaysRevoked
<1>1. KeyInv => RevokedKeyStaysRevoked
  <2> SUFFICES ASSUME KeyInv, ArmOnly PROVE RevokedKeyStaysRevoked
    BY DEF RevokedKeyStaysRevoked
  <2>1. ASSUME "POST" \in rule.activates, served # NoRow, ~Activating
        PROVE  served.col \notin revoked
    BY <2>1 DEF KeyInv, Regenerates, QuietServes, KeyHolds
  <2> QED
    BY <2>1 DEF KeyInv, KeyHolds, RevokedKeyStaysRevoked, Activating
<1> QED
  BY InductiveKeys, <1>1, PTL

\* What a write that does not name the property leaves of it.
LEMMA UnnamedKept ==
  ASSUME KeyInv, NEW c \in Clients, Write(c), Undisturbed(c), req[c].body = Missing,
         req[c].op = "PATCH" \/ (req[c].op = "POST" /\ rule.rekeyed = "vault")
  PROVE  /\ row'.col = row.col \/ (rule.rekeyed = "vault" /\ row'.col = writes')
         /\ rule.patched = "replace" \/ row'.doc = row.doc
<1> DEFINE n == writes + 1
<1>a. n \in Nat /\ n # Empty
  BY RuleAssumption DEF KeyInv, IInv, TypeOK
<1>1. /\ pc[c] = "write" /\ held[c] = row /\ row # NoRow /\ row \in Row /\ rule \in Rule /\ rule \in Rules
      /\ writes' = n /\ n # Empty
  <2>1. pc[c] = "write" /\ writes' = n
    BY DEF Write
  <2>2. held[c] = row
    BY <2>1 DEF Undisturbed, KeyInv, HeldIsRow, ArmOnly
  <2>3. held[c] # NoRow
    BY <2>1 DEF KeyInv, IInv, HeldRow
  <2> QED
    BY <1>a, <2>1, <2>2, <2>3 DEF KeyInv, IInv, TypeOK
<1>2. Shape(row)
  BY DEF KeyInv, Shapes
<1>3. CASE req[c].op = "PATCH"
  <2> DEFINE new == Column("PATCH", row, Missing)
  <2>1. row' \in NewRows(req[c], row, n)
    BY <1>1, <1>3 DEF Write
  <2>2. row'.doc = Document("PATCH", row, Missing)
    BY <1>3, <2>1 DEF NewRows
  <2>3. PICK col \in refreshSecret(new, n) : row'.col = Stored(col, n)
    BY <1>3, <2>1 DEF NewRows
  <2>4. "PATCH" \in rule.verbs
    BY <1>1, <1>3 DEF KeyInv, Asked, Verbs
  <2>5. new = row.col
    BY <1>1, <2>4, RuleAssumption, FamilyAssumption DEF Column
  <2>6. Stored(row.col, n) = row.col
    BY <1>1, <1>2 DEF Stored, Shape, Rule
  <2>7. rule.rekeyed = "vault" => Stored(n, n) = n
    BY <1>1, FamilyAssumption DEF Stored
  <2>8. row'.col = row.col \/ (rule.rekeyed = "vault" /\ row'.col = n)
    BY <2>3, <2>5, <2>6, <2>7 DEF refreshSecret
  <2>9. rule.patched = "replace" \/ row'.doc = row.doc
    <3>1. rule.patched \in {"merge", "replace", "keep"}
      BY <1>1 DEF Rule
    <3>2. mergeObject(row.doc, Missing) = row.doc
      BY RuleAssumption DEF mergeObject
    <3> QED
      BY <1>1, <1>2, <2>2, <3>1, <3>2 DEF Document, Shape
  <2> QED
    BY <1>1, <2>8, <2>9
<1>4. CASE req[c].op = "POST" /\ rule.rekeyed = "vault"
  <2>1. row' \in RekeyedRows(row, n)
    BY <1>1, <1>4 DEF Write
  <2> QED
    BY <1>1, <1>4, <2>1 DEF RekeyedRows, refreshSecret
<1> QED
  BY <1>3, <1>4

\* Only its own write takes a handler out of the writing step, where no foreign
\* key can refuse it.
LEMMA LeavesByWriting ==
  ASSUME TypeOK, [Next]_vars, NEW c \in Clients, pc[c] = "write", pc'[c] # "write",
         req[c].op \in {"PATCH", "POST"}
  PROVE  Write(c)
<1>1. ASSUME NEW d \in Clients, Handler(d), ~(d = c /\ Write(c)) PROVE FALSE
  <2>1. d # c => pc'[c] = pc[c]
    BY <1>1 DEF TypeOK, Handler, Submit, Lock, Probe, Load, WriteRefused, Write, Activate, Swap, Finish
  <2>2. d = c => Write(c)
    BY <1>1 DEF Handler, Submit, Lock, Probe, Load, WriteRefused, Constrained, Activate, Swap
  <2> QED
    BY <1>1, <2>1, <2>2
<1>2. ~(UNCHANGED vars) /\ ~FormRead /\ ~FormWrite /\ ~FormRefuse /\ ~FormRefer /\ ~FormActivate /\ ~FormSwap
  BY DEF vars, FormRead, FormWrite, FormRefuse, FormRefer, FormActivate, FormSwap
<1> QED
  BY <1>1, <1>2 DEF Next

\* A PATCH or a refresh leaves what its body does not name as it was at the
\* moment of the write: no handler writes an older row back over a newer one.
THEOREM PatchKeeps == Spec => PatchKeepsTheRest
<1>1. KeyInv /\ [Next]_vars =>
        [\A c \in Clients :
          /\ pc[c] = "write" /\ pc'[c] # "write" /\ Undisturbed(c) /\ req[c].body = Missing
          /\ req[c].op = "PATCH" \/ (req[c].op = "POST" /\ rule.rekeyed = "vault")
          => /\ row'.col = row.col \/ (rule.rekeyed = "vault" /\ row'.col = writes')
             /\ rule.patched = "replace" \/ row'.doc = row.doc]_vars
  BY LeavesByWriting, UnnamedKept DEF KeyInv, IInv
<1> QED
  BY InductiveKeys, <1>1, PTL DEF Spec, PatchKeepsTheRest
=============================================================================

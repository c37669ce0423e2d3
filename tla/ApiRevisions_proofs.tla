------------------------ MODULE ApiRevisions_proofs ------------------------
(***************************************************************************)
(* The invariants of ApiRevisions for every set of API names, releases and *)
(* kinds of children.                                                      *)
(*                                                                         *)
(* Only LiveWasPromoted is not inductive: a portal form may hold a row     *)
(* whose flag has since been cleared, and write it back.  FormWasPromoted  *)
(* says that such a row was promoted too.                                  *)
(***************************************************************************)
EXTENDS ApiRevisions, TLAPS

\* Under an ID without a row there is at most an API policy.
OnlyPolicies == \A n \in Names : ~Row(n) => children[n] \subseteq {"policy"}

IInv == TypeOK /\ LiveWasPromoted /\ FormWasPromoted /\ ReleasesAreWhole /\ OnlyPolicies

\* A row is never mistaken for the absence of one.
LEMMA RowIsNotNoRow == \A b \in BOOLEAN : [current |-> b] # NoRow
  BY RevisionAssumption

\* The store starts empty.
LEMMA InitIInv == Init => IInv
  BY RevisionAssumption
     DEF Init, IInv, TypeOK, LiveWasPromoted, FormWasPromoted, ReleasesAreWhole, OnlyPolicies,
         Row, NoForm, NoClone

\* The flag that is stored is one, whatever the request says.
LEMMA IsCurrentType ==
  ASSUME NEW n \in Names, NEW was \in BOOLEAN, NEW flag \in Flags
  PROVE  IsCurrent(n, was, flag) \in BOOLEAN
<1>1. CASE flag = "absent"
  BY <1>1 DEF IsCurrent
<1>2. CASE flag = "unnumbered"
  BY <1>2 DEF IsCurrent
<1>3. CASE flag \in {"true", "false"}
  BY <1>3 DEF IsCurrent
<1> QED
  BY <1>1, <1>2, <1>3 DEF Flags

\* Writing a row of n with any flag and keeping its releases: the common part
\* of PUT, PATCH and import.
LEMMA UpsertStep ==
  ASSUME IInv, NEW n \in Names, NEW was \in BOOLEAN, NEW below \in SUBSET Kinds,
         was /\ n \notin Bases => n \in promoted,
         UpsertAPI(n, was, below)
  PROVE  IInv'
<1> USE RevisionAssumption
<1>1. PICK flag \in Flags :
         /\ api' = [api EXCEPT ![n] = [current |-> IsCurrent(n, was, flag)]]
         /\ children' = [children EXCEPT ![n] = below]
         /\ promoted' = IF flag = "true" THEN promoted \cup ({n} \ Bases) ELSE promoted
         /\ cloned' = NoClone
         /\ UNCHANGED <<release, form>>
  <2>1. PICK w \in Written(n, was) :
           /\ api' = [api EXCEPT ![n] = [current |-> w[1]]]
           /\ children' = [children EXCEPT ![n] = below]
           /\ promoted' = IF w[2] THEN promoted \cup ({n} \ Bases) ELSE promoted
           /\ cloned' = NoClone
           /\ UNCHANGED <<release, form>>
    BY DEF UpsertAPI
  <2>2. PICK flag \in Flags : w = <<IsCurrent(n, was, flag), flag = "true">>
    BY DEF Written
  <2>3. w[1] = IsCurrent(n, was, flag) /\ w[2] = (flag = "true")
    BY <2>2
  <2> QED
    BY <2>1, <2>3
<1>2. IsCurrent(n, was, flag) \in BOOLEAN
  BY IsCurrentType
<1>3. IsCurrent(n, was, flag) /\ n \notin Bases => n \in promoted'
  BY <1>1 DEF IsCurrent, Flags
<1>4. promoted \subseteq promoted'
  BY <1>1
<1>5. TypeOK'
  BY <1>1, <1>2 DEF IInv, TypeOK, Api, NoClone
<1>6. \A m \in Names : Row(m) => Row(m)'
  BY <1>1, <1>2 DEF IInv, TypeOK, Row, Api
<1>7. Row(n)' /\ api'[n] = [current |-> IsCurrent(n, was, flag)]
  BY <1>1, <1>2, RowIsNotNoRow DEF IInv, TypeOK, Row
<1>8. LiveWasPromoted'
  BY <1>1, <1>3, <1>4, <1>7 DEF IInv, TypeOK, LiveWasPromoted, Row
<1>9. FormWasPromoted'
  BY <1>1, <1>4 DEF IInv, FormWasPromoted
<1>10. ReleasesAreWhole'
  BY <1>1, <1>6 DEF IInv, TypeOK, ReleasesAreWhole
<1>11. OnlyPolicies'
  BY <1>1, <1>7 DEF IInv, TypeOK, OnlyPolicies, Row
<1> QED
  BY <1>5, <1>8, <1>9, <1>10, <1>11 DEF IInv

\* Cloning adds a row whose flag is cleared.
LEMMA CloneStep ==
  ASSUME IInv, NEW n \in Names, NEW s \in Names, CloneAPIRevision(n, s)
  PROVE  IInv'
<1> USE RevisionAssumption DEF CloneAPIRevision, CloneFlag
<1>1. TypeOK'
  BY DEF IInv, TypeOK, Api
<1>2. Row(n)' /\ ~api'[n].current
  BY RowIsNotNoRow DEF IInv, TypeOK, Row
<1>3. \A m \in Names \ {n} : api'[m] = api[m] /\ children'[m] = children[m]
  BY DEF IInv, TypeOK
<1>4. LiveWasPromoted'
  BY <1>2, <1>3 DEF IInv, LiveWasPromoted, Row
<1>5. FormWasPromoted'
  BY DEF IInv, FormWasPromoted
<1>6. ReleasesAreWhole'
  BY <1>2, <1>3 DEF IInv, ReleasesAreWhole, Row, TypeOK
<1>7. OnlyPolicies'
  BY <1>2, <1>3 DEF IInv, OnlyPolicies, Row
<1> QED
  BY <1>1, <1>4, <1>5, <1>6, <1>7 DEF IInv

\* Deleting a row takes its releases and its children along.
LEMMA DeleteStep ==
  ASSUME IInv, NEW n \in Names, DeleteAPI(n)
  PROVE  IInv'
<1> USE RevisionAssumption DEF DeleteAPI, Remaining
<1>1. \A p \in Names, k \in Releases :
         release'[p][k] = IF p = n \/ release[p][k] = n THEN NoRow ELSE release[p][k]
  BY DEF Cascade
<1>c. \A m \in Names : Children(n, m) \subseteq children[m]
  BY DEF Children
<1>2. TypeOK'
  <2>1. children' \in [Names -> SUBSET Kinds]
    BY <1>c DEF IInv, TypeOK
  <2> QED
    BY <2>1 DEF IInv, TypeOK, Api, NoClone, Cascade
<1>3. \A m \in Names \ {n} : api'[m] = api[m] /\ children'[m] \subseteq children[m]
  BY <1>c DEF IInv, TypeOK
<1>4. api'[n] = NoRow /\ children'[n] = {}
  <2>1. Children(n, n) = {}
    BY DEF Children
  <2> QED
    BY <2>1 DEF IInv, TypeOK
<1>5. LiveWasPromoted'
  BY <1>3, <1>4 DEF IInv, LiveWasPromoted, Row
<1>6. FormWasPromoted'
  BY DEF IInv, FormWasPromoted
<1>7. ReleasesAreWhole'
  BY <1>1, <1>3, <1>4 DEF IInv, ReleasesAreWhole, Row, TypeOK
<1>8. OnlyPolicies'
  BY <1>3, <1>4 DEF IInv, OnlyPolicies, Row
<1> QED
  BY <1>2, <1>5, <1>6, <1>7, <1>8 DEF IInv

\* A release moves flags between rows that stay.
LEMMA ReleaseStep ==
  ASSUME IInv, NEW p \in Names, NEW k \in Releases, NEW t \in Names, UpsertAPIRelease(p, k, t)
  PROVE  IInv'
<1> USE RevisionAssumption DEF UpsertAPIRelease
<1>1. \A m \in Names : api'[m] = IF Row(m) /\ m \in Demoted(t) THEN [current |-> m = t] ELSE api[m]
  OBVIOUS
<1>2. TypeOK'
  BY DEF IInv, TypeOK, Api, NoClone
<1>3. \A m \in Names : Row(m) <=> Row(m)'
  <2>1. \A m \in Names : [current |-> m = t] # NoRow
    BY RowIsNotNoRow
  <2> QED
    BY <1>1, <2>1 DEF Row
<1>4. \A m \in Names : Row(m) /\ m # t /\ api'[m].current => api[m].current
  BY <1>1 DEF Row
<1>5. LiveWasPromoted'
  BY <1>3, <1>4 DEF IInv, LiveWasPromoted
<1>6. FormWasPromoted'
  BY DEF IInv, FormWasPromoted
<1>7. \A q \in Names, j \in Releases : release'[q][j] = IF q = p /\ j = k THEN t ELSE release[q][j]
  BY DEF IInv, TypeOK
<1>8. ReleasesAreWhole'
  BY <1>3, <1>7 DEF IInv, ReleasesAreWhole, TypeOK
<1>9. OnlyPolicies'
  BY <1>3 DEF IInv, OnlyPolicies
<1> QED
  BY <1>2, <1>5, <1>6, <1>8, <1>9 DEF IInv

\* The steps that leave the rows and the flags alone.
LEMMA ChildStep ==
  ASSUME IInv, NEW n \in Names, PutChild(n) \/ DeleteOperation(n)
  PROVE  IInv'
<1> USE RevisionAssumption DEF PutChild, DeleteOperation
<1>1. UNCHANGED <<api, release, form, promoted>> /\ cloned' = NoClone
  OBVIOUS
<1>2. children' \in [Names -> SUBSET Kinds]
  BY DEF IInv, TypeOK
<1>3. \A m \in Names \ {n} : children'[m] = children[m]
  BY DEF IInv, TypeOK
<1>4. ~Row(n) => children'[n] \subseteq {"policy"}
  BY DEF IInv, TypeOK, OnlyPolicies
<1>5. TypeOK'
  BY <1>1, <1>2 DEF IInv, TypeOK, NoClone
<1>6. LiveWasPromoted' /\ FormWasPromoted' /\ ReleasesAreWhole'
  BY <1>1 DEF IInv, LiveWasPromoted, FormWasPromoted, ReleasesAreWhole, Row
<1>7. OnlyPolicies'
  BY <1>1, <1>3, <1>4 DEF IInv, OnlyPolicies, Row
<1> QED
  BY <1>5, <1>6, <1>7 DEF IInv

LEMMA DeleteReleaseStep ==
  ASSUME IInv, NEW p \in Names, NEW k \in Releases, DeleteAPIRelease(p, k)
  PROVE  IInv'
<1> USE RevisionAssumption DEF DeleteAPIRelease
<1>1. \A q \in Names, j \in Releases : release'[q][j] = IF q = p /\ j = k THEN NoRow ELSE release[q][j]
  BY DEF IInv, TypeOK
<1>2. TypeOK'
  BY DEF IInv, TypeOK, NoClone
<1>3. ReleasesAreWhole'
  BY <1>1 DEF IInv, ReleasesAreWhole, Row
<1> QED
  BY <1>2, <1>3 DEF IInv, LiveWasPromoted, FormWasPromoted, OnlyPolicies, Row

\* The form holds a flag that is in the row, or once was.
LEMMA FormStep ==
  ASSUME IInv, (\E n \in Names : FormRead(n)) \/ portalResource
  PROVE  IInv'
<1> USE RevisionAssumption
<1>1. ASSUME NEW n \in Names, FormRead(n)  PROVE IInv'
  BY <1>1 DEF FormRead, IInv, TypeOK, Api, NoClone, LiveWasPromoted, FormWasPromoted, ReleasesAreWhole,
              OnlyPolicies, Row
<1>2. ASSUME portalResource  PROVE IInv'
  <2> USE <1>2 DEF portalResource
  <2>1. form.name \in Names /\ form.current \in BOOLEAN
    BY DEF IInv, TypeOK
  <2>2. TypeOK'
    BY <2>1 DEF IInv, TypeOK, Api, NoClone, NoForm
  <2>3. api'[form.name] # NoRow /\ api'[form.name] = [current |-> form.current]
    BY <2>1, RowIsNotNoRow DEF IInv, TypeOK, Row
  <2>4. \A m \in Names \ {form.name} : api'[m] = api[m]
    BY DEF IInv, TypeOK
  <2>5. LiveWasPromoted'
    BY <2>1, <2>3, <2>4 DEF IInv, LiveWasPromoted, FormWasPromoted, Row
  <2>6. FormWasPromoted'
    BY DEF FormWasPromoted, NoForm
  <2>7. ReleasesAreWhole'
    BY <2>3, <2>4 DEF IInv, TypeOK, ReleasesAreWhole, Row
  <2>8. OnlyPolicies'
    BY <2>3, <2>4 DEF IInv, OnlyPolicies, Row
  <2> QED
    BY <2>2, <2>5, <2>6, <2>7, <2>8 DEF IInv
<1> QED
  BY <1>1, <1>2

\* Every request, and the portal, keep the invariant.
LEMMA NextIInv == IInv /\ [Next]_vars => IInv'
<1> SUFFICES ASSUME IInv, [Next]_vars PROVE IInv'
  OBVIOUS
<1> USE RevisionAssumption
<1>1. ASSUME NEW n \in Names, PutAPI(n) \/ PatchAPI(n) \/ ImportAPI(n)  PROVE IInv'
  <2>1. children[n] \in SUBSET Kinds
    BY DEF IInv, TypeOK
  <2>2. (n \in Bases) \in BOOLEAN /\ ((n \in Bases) /\ n \notin Bases => n \in promoted)
    OBVIOUS
  <2>3. CASE PutAPI(n)
    BY <2>1, <2>2, <2>3, UpsertStep DEF PutAPI
  <2>a. Row(n) => api[n].current \in BOOLEAN /\ (api[n].current /\ n \notin Bases => n \in promoted)
    BY DEF IInv, TypeOK, Api, LiveWasPromoted, Row
  <2>4. CASE PatchAPI(n)
    BY <2>1, <2>a, <2>4, UpsertStep DEF PatchAPI
  <2>5. CASE ImportAPI(n)
    <3>1. PICK described \in SUBSET (Kinds \cap {"operation"}) :
             UpsertAPI(n, n \in Bases, (children[n] \ {"operation"}) \cup described)
      BY <2>5 DEF ImportAPI
    <3>2. (children[n] \ {"operation"}) \cup described \in SUBSET Kinds
      BY <2>1
    <3> QED
      BY <2>2, <3>1, <3>2, UpsertStep
  <2> QED
    BY <1>1, <2>3, <2>4, <2>5
<1>2. CASE UNCHANGED vars
  BY <1>2 DEF vars, IInv, TypeOK, LiveWasPromoted, FormWasPromoted, ReleasesAreWhole, OnlyPolicies, Row
<1> QED
  BY <1>1, <1>2, CloneStep, DeleteStep, ReleaseStep, ChildStep, DeleteReleaseStep, FormStep DEF Next

LEMMA Inductive == Spec => []IInv
  BY InitIInv, NextIInv, PTL DEF Spec

\* The rows, children, releases and forms keep their types through every
\* request and every portal edit.
THEOREM TypeCorrect == Spec => []TypeOK
<1>1. IInv => TypeOK
  BY DEF IInv
<1> QED
  BY Inductive, <1>1, PTL

\* Traffic reaches a revision only after a release or a request of its own
\* asked for it, whatever was cloned, imported, replaced, deleted or edited in
\* the portal in between.
THEOREM LivePromoted == Spec => []LiveWasPromoted
<1>1. IInv => LiveWasPromoted
  BY DEF IInv
<1> QED
  BY Inductive, <1>1, PTL

\* No deletion leaves a release that names a missing row, and no release
\* joins two APIs.
THEOREM ReleasesWhole == Spec => []ReleasesAreWhole
<1>1. IInv => ReleasesAreWhole
  BY DEF IInv
<1> QED
  BY Inductive, <1>1, PTL

\* An API created under the name of a deleted one inherits nothing of it: no
\* operation, resolver or policy outlives the row.
THEOREM NothingInherited == Spec => NothingLeftBehind
<1>1. IInv /\ [Next]_vars =>
        [\A n \in Names : ~Row(n)' =>
            children'[n] \subseteq IF Row(n) THEN {} ELSE children[n] \cup {"policy"}]_vars
  <2> SUFFICES ASSUME IInv, Next, NEW n \in Names, ~Row(n)'
               PROVE  children'[n] \subseteq IF Row(n) THEN {} ELSE children[n] \cup {"policy"}
    OBVIOUS
  <2>1. IInv'
    BY NextIInv
  <2>2. CASE ~Row(n)
    BY <2>1, <2>2 DEF IInv, OnlyPolicies
  <2>3. CASE Row(n)
    <3>1. \A b \in BOOLEAN : [current |-> b] # NoRow
      BY RowIsNotNoRow
    <3>2. DeleteAPI(n)
      <4>1. ASSUME NEW m \in Names, NEW was \in BOOLEAN, NEW below, UpsertAPI(m, was, below)  PROVE Row(n)'
        <5>1. PICK flag \in Flags : api' = [api EXCEPT ![m] = [current |-> IsCurrent(m, was, flag)]]
          <6>1. PICK w \in Written(m, was) : api' = [api EXCEPT ![m] = [current |-> w[1]]]
            BY <4>1 DEF UpsertAPI
          <6>2. PICK flag \in Flags : w = <<IsCurrent(m, was, flag), flag = "true">>
            BY DEF Written
          <6>3. w[1] = IsCurrent(m, was, flag)
            BY <6>2
          <6> QED
            BY <6>1, <6>3
        <5>2. IsCurrent(m, was, flag) \in BOOLEAN
          BY IsCurrentType
        <5> QED
          BY <2>3, <3>1, <5>1, <5>2 DEF IInv, TypeOK, Row
      <4>2. ASSUME NEW m \in Names, PutAPI(m) \/ PatchAPI(m) \/ ImportAPI(m)  PROVE Row(n)'
        <5>1. Row(m) => api[m].current \in BOOLEAN
          BY DEF IInv, TypeOK, Api, Row
        <5> QED
          <6>a. (m \in Bases) \in BOOLEAN
            OBVIOUS
          <6>1. CASE PutAPI(m)
            BY <4>1, <6>a, <6>1 DEF PutAPI
          <6>2. CASE PatchAPI(m)
            BY <4>1, <5>1, <6>2 DEF PatchAPI
          <6>3. CASE ImportAPI(m)
            <7>1. PICK described \in SUBSET (Kinds \cap {"operation"}) :
                     UpsertAPI(m, m \in Bases, (children[m] \ {"operation"}) \cup described)
              BY <6>3 DEF ImportAPI
            <7> QED
              BY <4>1, <6>a, <7>1
          <6> QED
            BY <4>2, <6>1, <6>2, <6>3
      <4>3. ASSUME NEW m \in Names, NEW s \in Names, CloneAPIRevision(m, s)  PROVE Row(n)'
        BY <2>3, <3>1, <4>3 DEF CloneAPIRevision, CloneFlag, IInv, TypeOK, Row
      <4>4. ASSUME NEW p \in Names, NEW k \in Releases, NEW t \in Names, UpsertAPIRelease(p, k, t)  PROVE Row(n)'
        <5>1. api'[n] = IF Row(n) /\ n \in Demoted(t) THEN [current |-> n = t] ELSE api[n]
          BY <4>4 DEF UpsertAPIRelease
        <5> QED
          BY <2>3, <3>1, <5>1 DEF Row
      <4>5. ASSUME NEW m \in Names, \/ PutChild(m) \/ DeleteOperation(m) \/ FormRead(m)
                                    \/ \E k \in Releases : DeleteAPIRelease(m, k)
            PROVE  Row(n)'
        BY <2>3, <4>5 DEF PutChild, DeleteOperation, FormRead, DeleteAPIRelease, Row
      <4>6. ASSUME portalResource  PROVE Row(n)'
        BY <2>3, <3>1, <4>6 DEF portalResource, IInv, TypeOK, Row
      <4>7. ASSUME NEW m \in Names, DeleteAPI(m)  PROVE m = n
        BY <2>3, <4>7 DEF DeleteAPI, IInv, TypeOK, Row
      <4> QED
        BY <4>2, <4>3, <4>4, <4>5, <4>6, <4>7 DEF Next
    <3> QED
      BY <2>3, <3>2 DEF DeleteAPI, Children, Remaining
  <2> QED
    BY <2>2, <2>3
<1> QED
  BY Inductive, <1>1, PTL DEF Spec, NothingLeftBehind
=============================================================================

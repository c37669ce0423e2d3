----------------------------- MODULE ConfigData -----------------------------
(***************************************************************************)
(* The part of the stored configuration that decides whether a gateway     *)
(* snapshot can be built from it: policy documents and the named values,   *)
(* backends, certificates and policy fragments they depend on, one table   *)
(* of internal/store per kind.                                             *)
(*                                                                         *)
(* A policy document is the set of names it mentions: the named values it  *)
(* interpolates, the fragments it includes and the backends it selects.  A *)
(* fragment is the set of names its body mentions.  A backend is the set   *)
(* of certificates it presents.  A named value is its value.               *)
(***************************************************************************)
EXTENDS Naturals, FiniteSets

CONSTANTS
    Scopes,        \* scopes that can hold a policy document
    ServiceScopes, \* those that are not below an API or a product
    NamedValues, Backends, Certificates, Fragments,
    Values,        \* contents of a named value
    Docs,          \* the policy documents clients submit
    Absent         \* a row that does not exist

Names == NamedValues \cup Backends \cup Fragments

\* The kinds of names are disjoint and finite; a missing row is not a row.
ASSUME DataAssumption ==
    /\ ServiceScopes \subseteq Scopes
    /\ IsFiniteSet(Fragments)
    /\ Docs \subseteq SUBSET Names
    /\ Absent \notin Values
    /\ \A row \in SUBSET (Names \cup Certificates) : row # Absent
    /\ NamedValues \cap Backends = {}
    /\ NamedValues \cap Fragments = {}
    /\ Backends \cap Fragments = {}

Tables == {"policies", "named_values", "backends", "certificates", "policy_fragments"}

KeysOf ==
    [t \in Tables |->
        CASE t = "policies"         -> Scopes
          [] t = "named_values"     -> NamedValues
          [] t = "backends"         -> Backends
          [] t = "certificates"     -> Certificates
          [] t = "policy_fragments" -> Fragments]

\* A certificate's bytes never matter to activation, only that it exists.
RowsOf ==
    [t \in Tables |->
        CASE t = "policies"         -> Docs
          [] t = "named_values"     -> Values
          [] t = "backends"         -> SUBSET Certificates
          [] t = "certificates"     -> {{}}
          [] t = "policy_fragments" -> SUBSET (Fragments \cup Backends)]

TableOf(t) == [KeysOf[t] -> {Absent} \cup RowsOf[t]]

Database ==
    {d \in [Tables -> UNION {TableOf(t) : t \in Tables}] :
        \A t \in Tables : d[t] \in TableOf(t)}

EmptyDatabase == [t \in Tables |-> [k \in KeysOf[t] |-> Absent]]

(***************************************************************************)
(* Compiling one document: every named value it interpolates exists, its   *)
(* includes expand without a missing fragment and without a cycle, and     *)
(* every backend the expanded document selects exists.  `reached' is the   *)
(* set of fragments the expansion visits.                                  *)
(***************************************************************************)
resolveNamedValues(doc, db) ==
    \A n \in doc \cap NamedValues : db["named_values"][n] # Absent

expandNodes(doc, reached, db) ==
    LET Included(f) == db["policy_fragments"][f] \cap Fragments
    IN  /\ doc \cap Fragments \subseteq reached
        /\ \A f \in reached : db["policy_fragments"][f] # Absent
        /\ \A f \in reached : Included(f) \subseteq reached
        /\ ~ \E cycle \in SUBSET reached \ {{}} :
                \A f \in cycle : Included(f) \cap cycle # {}

resolveBackendReferences(doc, reached, db) ==
    \A b \in Backends :
        (b \in doc \/ \E f \in reached : b \in db["policy_fragments"][f])
            => db["backends"][b] # Absent

Compiles(doc, db) ==
    /\ resolveNamedValues(doc, db)
    /\ \E reached \in SUBSET Fragments :
          /\ expandNodes(doc, reached, db)
          /\ resolveBackendReferences(doc, reached, db)

\* What the document of a scope can refer to: the rows of its service.  Every
\* ARM ID begins with "/subscriptions/", where the ID of a scope outside any API
\* or product is cut, so such a scope finds no service and no row.
serviceIDFromScope(s, db) == IF s \in ServiceScopes THEN EmptyDatabase ELSE db

\* The scopes whose document activation turns into policy.InvalidPlan.
Failures(db) ==
    {s \in Scopes :
        /\ db["policies"][s] # Absent
        /\ ~ Compiles(db["policies"][s], serviceIDFromScope(s, db))}

\* A backend that names a missing certificate fails the whole activation.
validateBackendCertificates(db) ==
    \A b \in Backends :
        db["backends"][b] # Absent =>
            \A c \in db["backends"][b] : db["certificates"][c] # Absent

\* The documents whose text includes fragment f: fragments are not searched.
ListPolicyFragmentReferences(f, db) ==
    {s \in Scopes : db["policies"][s] # Absent /\ f \in db["policies"][s]}
=============================================================================

---------------------------- MODULE ApiRevisions ----------------------------
(***************************************************************************)
(* The revisions of an API, the releases that promote them, and what hangs *)
(* below them.                                                             *)
(*                                                                         *)
(* "orders" and "orders;rev=2" are two rows of the apis table, with two    *)
(* isCurrent flags; nothing but the code keeps the flags in step.  The     *)
(* gateway routes to every row whose flag is set.  ARM writes are          *)
(* serialized and each is one transaction followed by an activation, so an *)
(* action here is a whole request; the portal's form reads the row in one  *)
(* step and writes it back in another.                                     *)
(*                                                                         *)
(* Whether the activation succeeds is Activation's subject, and the other  *)
(* properties of an API are ArmResources'.                                 *)
(***************************************************************************)
EXTENDS Naturals, FiniteSets

CONSTANTS
    Names,       \* names of API rows: a logical API's own, and its ";rev=" ones
    Bases,       \* the names without ";rev="
    Logical,     \* splitRevision: the logical API of a name
    Lookalike,   \* pairs of names: the first, read as a LIKE pattern, matches the second
                 \* ("my_api" matches "my-api")
    Releases,    \* names of releases
    Kinds,       \* the kinds of children followed
    NoRow

ASSUME RevisionAssumption ==
    /\ Bases \subseteq Names
    /\ Kinds \subseteq {"operation", "operationPolicy", "policy", "resolver"}
    /\ NoRow \notin Names \cup [current : BOOLEAN]

Api == [current : BOOLEAN]
NoForm == [name |-> NoRow, current |-> FALSE]

VARIABLES
    api,       \* apis and api_revision_metadata
    children,  \* per name: what the child tables and policies hold under its ID
    release,   \* api_releases: per parent and name, the target
    form,      \* the row a portal form has read
    promoted,  \* history: revisions made current by a release or by their own request
    cloned     \* the step just made: a clone and its source, else two NoRows

vars == <<api, children, release, form, promoted, cloned>>

Row(n) == api[n] # NoRow
Same(n) == {m \in Names : Logical[m] = Logical[n]}

TypeOK ==
    /\ api \in [Names -> Api \cup {NoRow}]
    /\ children \in [Names -> SUBSET Kinds]
    /\ release \in [Names -> [Releases -> Names \cup {NoRow}]]
    /\ form \in [name : Names \cup {NoRow}, current : BOOLEAN]
    /\ promoted \subseteq Names \ Bases
    /\ cloned \in [name : Names \cup {NoRow}, source : Names \cup {NoRow}]

NoClone == [name |-> NoRow, source |-> NoRow]

Init ==
    /\ api = [n \in Names |-> NoRow]
    /\ children = [n \in Names |-> {}]
    /\ release = [n \in Names |-> [k \in Releases |-> NoRow]]
    /\ form = NoForm
    /\ promoted = {}
    /\ cloned = NoClone

-----------------------------------------------------------------------------
\* What a request says of the flag: isCurrent in a body that, like the row it
\* starts from, has a revision number, or "unnumbered".
Flags == {"true", "false", "absent", "unnumbered"}

\* The flag a PUT or PATCH stores.  UpsertAPI and ImportAPI believe the
\* handler only when there is a revision number; without one the name decides.
IsCurrent(n, was, flag) ==
    CASE flag = "unnumbered" -> n \in Bases
      [] flag = "absent" -> was
      [] OTHER -> flag = "true"

\* What requests can store, and whether the request itself asked for traffic.
Written(n, was) == {<<IsCurrent(n, was, flag), flag = "true">> : flag \in Flags}

\* UpsertAPI for a PUT or PATCH of n.
UpsertAPI(n, was, below) ==
    \E w \in Written(n, was) :
       /\ api' = [api EXCEPT ![n] = [current |-> w[1]]]
       /\ children' = [children EXCEPT ![n] = below]
       /\ promoted' = IF w[2] THEN promoted \cup ({n} \ Bases) ELSE promoted
       /\ cloned' = NoClone
       /\ UNCHANGED <<release, form>>

\* PUT starts from the flag its name stands for, PATCH from the row's.
PutAPI(n) == UpsertAPI(n, n \in Bases, children[n])
PatchAPI(n) == Row(n) /\ UpsertAPI(n, api[n].current, children[n])

\* ImportAPI, of a PUT with a definition: the operations are those of the
\* definition, if it has any, and the policies of those that are gone stay.
ImportAPI(n) ==
    \E described \in SUBSET (Kinds \cap {"operation"}) :
       UpsertAPI(n, n \in Bases, (children[n] \ {"operation"}) \cup described)

\* Mutant: the clone keeps the flag of its source.
CloneFlagKept(s) == api[s].current

\* CloneAPIRevision clears the flag, whatever the request says.
CloneFlag(s) == FALSE

\* The children CloneAPIRevision copies; definitions, schemas, tags and
\* diagnostics go the way of the operations.
Copied == {"operation", "policy"}

\* A PUT of a new name that names a source.  A policy that was put on the
\* name before collides with the source's, and rolls the transaction back.
CloneAPIRevision(n, s) ==
    /\ ~Row(n) /\ Row(s)
    /\ "policy" \notin children[n] \cap children[s]
    /\ api' = [api EXCEPT ![n] = [current |-> CloneFlag(s)]]
    /\ children' = [children EXCEPT ![n] = @ \cup (children[s] \cap Copied)]
    /\ cloned' = [name |-> n, source |-> s]
    /\ UNCHANGED <<release, form, promoted>>

\* Mutant: deleting a row leaves a tombstone among its children.
KeptTombstone(n) == {NoRow}

\* Mutant: deleting a row leaves the policy written under its ID.
KeptPolicy(n) == children[n] \cap {"policy"}

\* deleteScopedResource clears the policies under the ID; the other children
\* reference the row and go with it.
Remaining(n) == {}

\* Mutant: only the parent's releases cascade.
CascadeParent(n) == [release EXCEPT ![n] = [k \in Releases |-> NoRow]]

\* The releases that name n, as parent or as target, cascade.
Cascade(n) ==
    [p \in Names |-> [k \in Releases |-> IF p = n \/ release[p][k] = n THEN NoRow ELSE release[p][k]]]

\* The policies of operations are cleared by a LIKE pattern, which matches
\* those of an API whose name looks alike as well.
Children(n, m) ==
    IF m = n THEN Remaining(n)
    ELSE IF <<n, m>> \in Lookalike THEN children[m] \ {"operationPolicy"} ELSE children[m]

\* DeleteAPI: of a name without a row it rolls back.
DeleteAPI(n) ==
    /\ Row(n)
    /\ api' = [api EXCEPT ![n] = NoRow]
    /\ children' = [m \in Names |-> Children(n, m)]
    /\ release' = Cascade(n)
    /\ cloned' = NoClone
    /\ UNCHANGED <<form, promoted>>

\* PUT of a child: operations and resolvers reference the row, an operation's
\* policy needs the operation, and an API's policy needs nothing.
PutChild(n) ==
    /\ \E k \in Kinds :
          /\ k \in {"operation", "resolver"} => Row(n)
          /\ k = "operationPolicy" => "operation" \in children[n]
          /\ children' = [children EXCEPT ![n] = @ \cup {k}]
    /\ cloned' = NoClone
    /\ UNCHANGED <<api, release, form, promoted>>

\* DeleteOperation takes the operation's policy along.
DeleteOperation(n) ==
    /\ "operation" \in children[n]
    /\ children' = [children EXCEPT ![n] = @ \ {"operation", "operationPolicy"}]
    /\ cloned' = NoClone
    /\ UNCHANGED <<api, release, form, promoted>>

\* The rows a release of t takes the flag from: those of its logical API, and
\* the revisions whose names the LIKE pattern matches as well.
Demoted(t) ==
    Same(t) \cup {m \in Names \ Bases : <<Logical[t], Logical[m]>> \in Lookalike}

\* UpsertAPIRelease: one transaction for the release and the flags.  A PUT
\* names its target; so may a PATCH, and one that does not promotes the
\* target the release already has.
UpsertAPIRelease(p, k, t) ==
    /\ Row(p) /\ Row(t)
    /\ Logical[p] = Logical[t]
    /\ release' = [release EXCEPT ![p][k] = t]
    /\ api' = [m \in Names |-> IF Row(m) /\ m \in Demoted(t) THEN [current |-> m = t] ELSE api[m]]
    /\ promoted' = promoted \cup ({t} \ Bases)
    /\ cloned' = NoClone
    /\ UNCHANGED <<children, form>>

\* DeleteAPIRelease moves no traffic.
DeleteAPIRelease(p, k) ==
    /\ release[p][k] # NoRow
    /\ release' = [release EXCEPT ![p][k] = NoRow]
    /\ cloned' = NoClone
    /\ UNCHANGED <<api, children, form, promoted>>

\* portalResource reads the row, outside mutationMu.
FormRead(n) ==
    /\ Row(n)
    /\ form' = [name |-> n, current |-> api[n].current]
    /\ cloned' = NoClone
    /\ UNCHANGED <<api, children, release, promoted>>

\* It writes the row back, the flag it read included, whether or not a
\* release moved it and whether or not the row is still there.
portalResource ==
    /\ form.name # NoRow
    /\ api' = [api EXCEPT ![form.name] = [current |-> form.current]]
    /\ form' = NoForm
    /\ cloned' = NoClone
    /\ UNCHANGED <<children, release, promoted>>

Next ==
    \/ \E n \in Names :
          \/ PutAPI(n) \/ PatchAPI(n) \/ ImportAPI(n) \/ DeleteAPI(n)
          \/ PutChild(n) \/ DeleteOperation(n) \/ FormRead(n)
          \/ \E s \in Names : CloneAPIRevision(n, s)
          \/ \E k \in Releases : DeleteAPIRelease(n, k) \/ \E t \in Names : UpsertAPIRelease(n, k, t)
    \/ portalResource

Spec == Init /\ [][Next]_vars

-----------------------------------------------------------------------------
\* The gateway sends no traffic to a revision nobody asked for: a revision is
\* current only if a release or a request of its own made it so.  Cloning,
\* importing, replacing and editing in the portal never promote one.
LiveWasPromoted == \A n \in Names \ Bases : Row(n) /\ api[n].current => n \in promoted

\* The same of the row a portal form holds: writing it back late can undo a
\* release, and can promote only what was promoted before.
FormWasPromoted == form.name \in Names \ Bases /\ form.current => form.name \in promoted

\* A release names two rows that are there and belong to the same API, after
\* any deletions of either.
ReleasesAreWhole ==
    \A p \in Names, k \in Releases :
       release[p][k] # NoRow => Row(p) /\ Row(release[p][k]) /\ Logical[release[p][k]] = Logical[p]

\* An API that is gone leaves nothing for the next of its name to inherit:
\* what is under an ID without a row is at most an API policy, and was put
\* there after the row went.
NothingLeftBehind ==
    [][\A n \in Names : ~Row(n)' =>
          children'[n] \subseteq IF Row(n) THEN {} ELSE children[n] \cup {"policy"}]_vars

\* Cloning a revision copies its runtime-owned children, so that releasing the
\* clone changes nothing until it is edited.
CloneIsWhole == cloned # NoClone => children[cloned.source] \subseteq children[cloned.name]
=============================================================================

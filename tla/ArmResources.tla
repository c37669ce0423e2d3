---------------------------- MODULE ArmResources ----------------------------
(***************************************************************************)
(* One management resource under the verbs of its ARM handler, the         *)
(* conditional requests in front of it and the operator portal's form      *)
(* beside it.                                                              *)
(*                                                                         *)
(* Every handler family of internal/arm is the same pipeline around a row  *)
(* of the store.  A row keeps the JSON document the client sent and the    *)
(* typed columns decoded from it.  The families differ in what each step   *)
(* does with a property: which columns a body sets, which an explicit null *)
(* clears, what is stripped from the document, what GET shows, who         *)
(* activates.  A behaviour follows ONE property of one family, described   *)
(* by a rule; the rules of the repository's families are the definitions   *)
(* of the *Families modules, and every other property is taken to be       *)
(* valid.                                                                  *)
(*                                                                         *)
(* Mutating ARM requests hold Handler.mutationMu.  The portal's forms hold *)
(* nothing and compare no entity tag.                                      *)
(***************************************************************************)
EXTENDS Naturals, FiniteSets

CONSTANTS
    Rules,        \* what the families do with each of their properties
    Clients,      \* ARM clients
    Values,       \* values a client may give the property
    MaxWrites,    \* bound: rows written over a behaviour
    Missing,      \* the JSON document has no such key
    Null,         \* the key is there with an explicit null
    Empty,        \* the column's zero value
    Preset,       \* the default the handler gives a new row
    Masked,       \* a digest or a reference shown in place of a secret
    NoRow, NoOne

Verbs == {"PUT", "PATCH", "DELETE"}
Bodies == {Missing, Null} \cup Values
Keys == 1..MaxWrites              \* a generated key is named by the write that made it
Columns == {Empty, Preset} \cup Values \cup Keys
Tags == 1..MaxWrites              \* newETag: every write has its own
Row == [doc : Bodies, col : Columns, tag : Tags]

\* What happens to the property, step by step through the handler.
Rule == [
    verbs : SUBSET Verbs,          \* the methods the handler accepts
    locked : BOOLEAN,              \* the route takes mutationMu and evaluates conditions
    precondition : SUBSET Verbs,   \* requiresIfMatch
    creates : BOOLEAN,             \* PUT inserts a missing row
    keeps : BOOLEAN,               \* PUT starts from the existing columns
    preset : BOOLEAN,              \* a new row has a default
    patched : {"merge", "replace", "keep"},  \* what PATCH does with the document
    stripped : BOOLEAN,            \* removed from the document before it is stored
    applied : BOOLEAN,             \* a body value sets the column
    replaced : BOOLEAN,            \* so does a body that has no such key
    nulled : SUBSET Verbs,         \* an explicit null empties the column
    resets : BOOLEAN,              \* ... or puts the default back
    required : {"no", "either", "yes"},  \* an empty column is refused
    putOnly : BOOLEAN,             \* a PATCH that gives it is refused
    stored : BOOLEAN,              \* in the table's INSERT and UPDATE lists
    filled : {"no", "key", "preset"},  \* what the store gives an empty column
    wire : {"document", "shown", "ifSet", "masked", "hidden"},
    rekeyed : {"no", "upsert", "update", "vault"},  \* what a POST regenerates: the row read,
                                   \* one column, or a secret fetched from its key vault
    activates : SUBSET (Verbs \cup {"POST"}),  \* the handler calls activate
    guarded : {"no", "searched", "checked", "constrained"},  \* what keeps a row another one
                                   \* names: a search for its name before DELETE, that and a
                                   \* look for it by who names it, or a foreign key
    portal : BOOLEAN,              \* the family has a portal form
    form : BOOLEAN,                \* ... that edits this property
    contended : BOOLEAN]           \* bound: whether several clients write it at once

ASSUME RuleAssumption ==
    /\ Rules \subseteq Rule
    /\ \A r \in Rules : r.guarded # "no" => r.locked
    /\ MaxWrites \in Nat \ {0}
    /\ NoOne \notin Clients /\ NoRow \notin Row
    /\ Null # Missing /\ Empty \notin {Missing, Null} /\ Preset \notin {Missing, Null, Empty}
    /\ Masked \notin {Missing, Null, Empty, Preset}
    /\ NoRow \notin {Missing, Null, Empty, Preset, Masked}
    /\ NoOne \notin {Missing, Null, Empty, Preset, Masked, NoRow}
    /\ Values \cap ({Missing, Null, Empty, Preset, Masked, NoRow, NoOne} \cup Nat) = {}
    /\ {Missing, Null, Empty, Preset, Masked, NoRow, NoOne} \cap Nat = {}

\* What the families have in common.  No PATCH clears what its body does not
\* name.  A column the store fills is one it stores, of a row that a PUT made.
\* A key that POST regenerates is a stored column that PUT keeps, no null
\* clears and the store makes when there is none, of a row that no other one
\* names; where POST activates, so does every other method.
ASSUME FamilyAssumption ==
    \A r \in Rules :
        /\ "PATCH" \in r.verbs => ~r.replaced
        /\ r.filled # "no" => r.stored /\ r.creates
        /\ r.rekeyed # "no" => r.stored
        /\ r.rekeyed \in {"upsert", "update"} =>
              /\ r.keeps /\ r.nulled = {} /\ ~r.replaced /\ ~r.preset /\ r.guarded = "no"
              /\ r.filled = IF r.creates THEN "key" ELSE "no"
              /\ "POST" \in r.activates => r.verbs \subseteq r.activates

Conditions == {"none", "any", "tag", "absent"}  \* -, If-Match: *, If-Match: tag, If-None-Match: *
Operations == Verbs \cup {"POST", "REFER", "UNREFER"}
Request == [op : Operations, body : Bodies, cond : Conditions, tag : Tags \cup {0}]
NoRequest == [op |-> "PUT", body |-> Missing, cond |-> "none", tag |-> 0]

VARIABLES
    rule,     \* the property this behaviour follows
    row,      \* its row in the store
    served,   \* the row the published snapshot was built from
    referred, \* some other row names this one
    writes,   \* rows written so far
    revoked,  \* history: keys regenerated away, and not given again by a client since
    mutex,    \* Handler.mutationMu
    pc, req,  \* per client: where its handler is, and its request
    held,     \* per client: the row the handler, or its activation, has read
    form      \* the same of a portal handler

vars == <<rule, row, served, referred, writes, revoked, mutex, pc, req, held, form>>

TypeOK ==
    /\ rule \in Rule
    /\ row \in Row \cup {NoRow}
    /\ served \in Row \cup {NoRow}
    /\ referred \in BOOLEAN
    /\ writes \in 0..MaxWrites
    /\ revoked \subseteq Columns
    /\ mutex \in Clients \cup {NoOne}
    /\ pc \in [Clients -> {"idle", "lock", "probe", "load", "write", "activate", "swap"}]
    /\ req \in [Clients -> Request]
    /\ held \in [Clients -> Row \cup {NoRow}]
    /\ form \in [step : {"idle", "write", "activate", "swap"}, row : Row \cup {NoRow}]

\* Nothing is stored yet, except what a service is born with.
Init ==
    /\ rule \in Rules
    /\ row = IF rule.creates THEN NoRow ELSE [doc |-> Missing, col |-> IF rule.rekeyed # "no" THEN 1 ELSE Empty, tag |-> 1]
    /\ writes = IF rule.creates THEN 0 ELSE 1
    /\ served = NoRow
    /\ referred = FALSE
    /\ revoked = {}
    /\ mutex = NoOne
    /\ pc = [c \in Clients |-> "idle"]
    /\ req = [c \in Clients |-> NoRequest]
    /\ held = [c \in Clients |-> NoRow]
    /\ form = [step |-> "idle", row |-> NoRow]

-----------------------------------------------------------------------------
\* The value a fresh row starts with.
Fresh == IF rule.preset THEN Preset ELSE Empty

\* mergeObject: null deletes the key, a value sets it, absence keeps it.
mergeObject(target, patch) ==
    CASE patch = Missing -> target
      [] patch = Null -> Missing
      [] OTHER -> patch

\* The document the handler stores, without the keys sanitize removes.
Document(op, old, body) ==
    IF rule.stripped THEN Missing
    ELSE CASE op = "PATCH" /\ rule.patched = "merge" -> mergeObject(old.doc, body)
           [] op = "PATCH" /\ rule.patched = "keep" -> old.doc
           [] OTHER -> body

\* Mutant: an explicit null is written into the column.
ColumnNulled(op, old, body) ==
    IF body # Missing /\ rule.applied THEN body ELSE IF op = "PATCH" THEN old.col ELSE Fresh

\* Mutant: PATCH fills the columns its body does not name with the defaults.
ColumnDefaulted(op, old, body) == IF body \in Values /\ rule.applied THEN body ELSE Fresh

\* The column the handler hands to the store.
Column(op, old, body) ==
    IF body \in Values /\ rule.applied THEN body
    ELSE IF body = Null /\ op \in rule.nulled THEN (IF rule.resets THEN Preset ELSE Empty)
    ELSE IF rule.replaced THEN Empty
    ELSE IF op = "PATCH" \/ (rule.keeps /\ old # NoRow) THEN old.col
    ELSE Fresh


\* What the table keeps of it.
Stored(col, n) ==
    IF ~rule.stored THEN Empty
    ELSE CASE col = Empty /\ rule.filled = "key" -> n
           [] col = Empty /\ rule.filled = "preset" -> Preset
           [] OTHER -> col

\* What GET and LIST answer for the property.
View(r) ==
    CASE rule.wire = "hidden" -> Missing
      [] rule.wire = "masked" -> IF r.col = Empty THEN Missing ELSE Masked
      [] rule.wire = "shown" -> r.col
      [] rule.wire = "ifSet" -> IF r.col = Empty THEN Missing ELSE r.col
      [] OTHER -> r.doc

\* strongTagMatch and weakTagMatch against what a GET would answer now.
Matches(q, r) ==
    CASE q.cond = "any" -> r # NoRow
      [] q.cond = "tag" -> r # NoRow /\ r.tag = q.tag
      [] q.cond = "absent" -> r = NoRow
      [] OTHER -> TRUE

-----------------------------------------------------------------------------
\* Bound: no more rows are written than MaxWrites.
Room == writes < MaxWrites

\* The operations this family's routes accept.
Offered ==
    rule.verbs \cup (IF rule.rekeyed # "no" THEN {"POST"} ELSE {})
               \cup (IF rule.guarded # "no" THEN {"REFER", "UNREFER"} ELSE {})

\* A mutating request arrives and waits for the lock, or goes straight to
\* its handler on the routes that take none.  An If-Match tag is one some
\* earlier GET answered with.
Submit(c) ==
    /\ pc[c] = "idle"
    /\ Room
    /\ rule.contended \/ \A d \in Clients : pc[d] = "idle"
    /\ \E op \in Offered, b \in Bodies, k \in Conditions :
          /\ op \notin {"PUT", "PATCH"} => b = Missing
          /\ op \notin Verbs => k = "none"
          /\ \E t \in IF k = "tag" THEN 1..writes ELSE {0} :
                req' = [req EXCEPT ![c] = [op |-> op, body |-> b, cond |-> k, tag |-> t]]
    /\ pc' = [pc EXCEPT ![c] = IF rule.locked THEN "lock" ELSE "load"]
    /\ UNCHANGED <<rule, row, served, referred, writes, revoked, mutex, held, form>>

\* Mutant: mutating requests are not serialized.
LockShared(c) ==
    /\ pc[c] = "lock"
    /\ mutex' = c
    /\ pc' = [pc EXCEPT ![c] = "probe"]
    /\ UNCHANGED <<rule, row, served, referred, writes, revoked, req, held, form>>

\* ServeHTTP takes mutationMu for anything but a read.
Lock(c) ==
    /\ pc[c] = "lock"
    /\ mutex = NoOne
    /\ mutex' = c
    /\ pc' = [pc EXCEPT ![c] = "probe"]
    /\ UNCHANGED <<rule, row, served, referred, writes, revoked, req, held, form>>

\* The handler answers and ServeHTTP's deferred Unlock runs.
Finish(c) ==
    /\ pc' = [pc EXCEPT ![c] = "idle"]
    /\ req' = [req EXCEPT ![c] = NoRequest]
    /\ held' = [held EXCEPT ![c] = NoRow]
    /\ mutex' = IF mutex = c THEN NoOne ELSE mutex

\* handleConditionalRequest: a missing If-Match, then the tags against the
\* answer of a GET made in place.
Probe(c) ==
    /\ pc[c] = "probe"
    /\ LET refused == (req[c].op \in rule.precondition /\ req[c].cond \notin {"any", "tag"})
                         \/ ~Matches(req[c], row)
       IN  \/ refused /\ Finish(c)
           \/ ~refused /\ pc' = [pc EXCEPT ![c] = "load"] /\ UNCHANGED <<req, held, mutex>>
    /\ UNCHANGED <<rule, row, served, referred, writes, revoked, form>>

\* Mutant: DELETE does not look for the rows that refer to this one.
LoadUnguarded(c) ==
    /\ pc[c] = "load"
    /\ \/ row = NoRow /\ req[c].op # "PUT" /\ Finish(c)
       \/ /\ row # NoRow \/ req[c].op = "PUT"
          /\ pc' = [pc EXCEPT ![c] = "write"]
          /\ held' = [held EXCEPT ![c] = row]
          /\ UNCHANGED <<req, mutex>>
    /\ UNCHANGED <<rule, row, served, referred, writes, revoked, form>>

\* The handler reads the existing row and decides whether it may go on.  The
\* handler of a referring row looks for this one only where it is "checked".
Load(c) ==
    /\ pc[c] = "load"
    /\ LET q == req[c]
           gone == row = NoRow /\ (q.op \in {"PATCH", "POST"} \/ (q.op = "PUT" /\ ~rule.creates))
           empty == q.op \in {"PUT", "PATCH"} /\ ~gone /\ Column(q.op, row, q.body) = Empty
           putOnly == q.op = "PATCH" /\ q.body \in Values /\ rule.putOnly
           dangling == q.op = "REFER" /\ row = NoRow /\ rule.guarded = "checked"
           inUse == q.op = "DELETE" /\ referred /\ rule.guarded \in {"searched", "checked"}
           go == pc' = [pc EXCEPT ![c] = "write"] /\ held' = [held EXCEPT ![c] = row]
                    /\ UNCHANGED <<req, mutex>>
       IN  \/ (gone \/ putOnly \/ dangling \/ inUse) /\ Finish(c)
           \/ empty /\ rule.required # "no" /\ Finish(c)
           \/ ~(gone \/ putOnly \/ dangling \/ inUse) /\ ~(empty /\ rule.required = "yes") /\ go
    /\ UNCHANGED <<rule, row, served, referred, writes, revoked, form>>

\* refreshNamedValueSecret, refreshCertificateSecret: a reference to a key
\* vault is followed, and its secret replaces the column unless the vault
\* cannot be reached.
refreshSecret(col, n) == IF rule.rekeyed = "vault" THEN {col, n} ELSE {col}

\* The rows a PUT or PATCH may store under tag n.
NewRows(q, old, n) ==
    [doc : {Document(q.op, old, q.body)}, tag : {n},
     col : {Stored(col, n) : col \in refreshSecret(Column(q.op, old, q.body), n)}]

\* The rows a POST may store: a new key, or the refreshed secret.
RekeyedRows(old, n) ==
    [doc : {old.doc}, tag : {n}, col : IF rule.rekeyed = "vault" THEN refreshSecret(old.col, n) ELSE {n}]

\* The foreign key refuses the statement.
Constrained(q) ==
    /\ rule.guarded = "constrained"
    /\ (q.op = "DELETE" /\ referred) \/ (q.op = "REFER" /\ row = NoRow)

WriteRefused(c) ==
    /\ pc[c] = "write"
    /\ Constrained(req[c])
    /\ Finish(c)
    /\ UNCHANGED <<rule, row, served, referred, writes, revoked, form>>

\* Upsert*, Delete*, Regenerate*: one statement of the store.
Write(c) ==
    /\ pc[c] = "write"
    /\ Room
    /\ ~Constrained(req[c])
    /\ LET q == req[c] n == writes + 1
           old == IF rule.rekeyed = "update" THEN row ELSE held[c]
       IN  \/ /\ q.op \in {"PUT", "PATCH"}
              /\ row' \in NewRows(q, held[c], n)
              /\ writes' = n
              /\ revoked' = IF rule.applied THEN revoked \ {q.body} ELSE revoked
              /\ UNCHANGED referred
           \/ /\ q.op = "POST"
              /\ row' \in IF old = NoRow THEN {NoRow} ELSE RekeyedRows(old, n)
              /\ writes' = n
              /\ revoked' = IF old = NoRow \/ rule.rekeyed = "vault" THEN revoked ELSE revoked \cup {old.col}
              /\ UNCHANGED referred
           \/ /\ q.op = "DELETE"
              /\ row' = NoRow
              /\ UNCHANGED <<referred, writes, revoked>>
           \/ /\ q.op \in {"REFER", "UNREFER"}
              /\ referred' = (q.op = "REFER")
              /\ UNCHANGED <<row, writes, revoked>>
    /\ IF req[c].op \in rule.activates
       THEN pc' = [pc EXCEPT ![c] = "activate"] /\ UNCHANGED <<req, held, mutex>>
       ELSE Finish(c)
    /\ UNCHANGED <<rule, served, form>>

\* Mutant: the runtime is rebuilt from what the handler read.
ActivateHeld(c) ==
    /\ pc[c] = "activate"
    /\ pc' = [pc EXCEPT ![c] = "swap"]
    /\ UNCHANGED <<rule, row, served, referred, writes, revoked, mutex, req, held, form>>

\* activate: the runtime is rebuilt from the store as it is now.
Activate(c) ==
    /\ pc[c] = "activate"
    /\ held' = [held EXCEPT ![c] = row]
    /\ pc' = [pc EXCEPT ![c] = "swap"]
    /\ UNCHANGED <<rule, row, served, referred, writes, revoked, mutex, req, form>>

\* What was built replaces the published snapshot, and the handler answers.
Swap(c) ==
    /\ pc[c] = "swap"
    /\ served' = held[c]
    /\ Finish(c)
    /\ UNCHANGED <<rule, row, referred, writes, revoked, form>>

-----------------------------------------------------------------------------
\* A portal form reads the row it edits, without the lock.
FormRead ==
    /\ rule.portal
    /\ form.step = "idle"
    /\ row # NoRow
    /\ Room
    /\ form' = [step |-> "write", row |-> row]
    /\ UNCHANGED <<rule, row, served, referred, writes, revoked, mutex, pc, req, held>>

\* It writes the whole row back with the fields of the form replaced.
FormWrite ==
    /\ form.step = "write"
    /\ Room
    /\ \E v \in IF rule.form THEN Values \cup {form.row.col} ELSE {form.row.col} :
          row' = [doc |-> form.row.doc, col |-> Stored(v, writes + 1), tag |-> writes + 1]
    /\ writes' = writes + 1
    /\ form' = [form EXCEPT !.step = "activate"]
    /\ UNCHANGED <<rule, served, referred, revoked, mutex, pc, req, held>>

\* A form with a field the handler refuses changes nothing.
FormRefuse ==
    /\ form.step = "write"
    /\ form' = [step |-> "idle", row |-> NoRow]
    /\ UNCHANGED <<rule, row, served, referred, writes, revoked, mutex, pc, req, held>>

\* portalPolicy saves a document that names this row or no longer does, and
\* portalResource an API with the version set it read: what only the foreign
\* key may refuse.
FormRefer ==
    /\ form.step = "idle"
    /\ rule.guarded \in {"searched", "constrained"}
    /\ referred' \in IF rule.guarded = "constrained" /\ row = NoRow THEN {FALSE} ELSE BOOLEAN
    /\ form' = [step |-> "activate", row |-> NoRow]
    /\ UNCHANGED <<rule, row, served, writes, revoked, mutex, pc, req, held>>

\* The portal's activation reads the store, and swaps later, without the lock.
FormActivate ==
    /\ form.step = "activate"
    /\ form' = [step |-> "swap", row |-> row]
    /\ UNCHANGED <<rule, row, served, referred, writes, revoked, mutex, pc, req, held>>

FormSwap ==
    /\ form.step = "swap"
    /\ served' = form.row
    /\ form' = [step |-> "idle", row |-> NoRow]
    /\ UNCHANGED <<rule, row, referred, writes, revoked, mutex, pc, req, held>>

Handler(c) ==
    \/ Submit(c) \/ Lock(c) \/ Probe(c) \/ Load(c)
    \/ WriteRefused(c) \/ Write(c) \/ Activate(c) \/ Swap(c)

Next ==
    \/ \E c \in Clients : Handler(c)
    \/ FormRead \/ FormWrite \/ FormRefuse \/ FormRefer \/ FormActivate \/ FormSwap

Spec == Init /\ [][Next]_vars

-----------------------------------------------------------------------------
\* Only ARM writes the row, and under the lock: a family without a portal form,
\* or a service whose portal nobody uses.
ArmOnly == rule.locked /\ ~rule.portal

\* A conditional write is decided by the row it is about to replace: an
\* If-Match tag still names it, and If-None-Match: * still finds none.  The
\* handlers read, compare and write in separate statements, so only
\* mutationMu makes it so.
ConditionHoldsAtWrite ==
    \A c \in Clients : ArmOnly /\ pc[c] \in {"load", "write"} => Matches(req[c], row)

\* Nobody has written the row since the handler read it: always so under the
\* lock, and for the families of the portal when no form was saved meanwhile.
Undisturbed(c) == rule.locked /\ (rule.portal => held[c] = row)

\* A PATCH whose body does not name the property, or a refresh, leaves it as
\* it is in the row at the moment of the write, whatever was written since
\* the client last looked: the handlers write the whole row back.  A column
\* changes only to the secret its key vault has now, and an unreachable vault
\* leaves the last known one.  Families that store the PATCH body as the new
\* document lose its other properties, and promise nothing here.
PatchKeepsTheRest ==
    [][\A c \in Clients :
          /\ pc[c] = "write" /\ pc'[c] # "write" /\ Undisturbed(c) /\ req[c].body = Missing
          /\ req[c].op = "PATCH" \/ (req[c].op = "POST" /\ rule.rekeyed = "vault")
          => /\ row'.col = row.col \/ (rule.rekeyed = "vault" /\ row'.col = writes')
             /\ rule.patched = "replace" \/ row'.doc = row.doc]_vars


\* Where only ARM writes, a regenerated key works no more, until a client gives
\* it again in a body: it is never the row's key again, because no handler
\* writes back a row it read before the regeneration; and where regenerating
\* activates, the gateway accepts it no more as soon as no activation is under
\* way.  Of the portal nothing of the kind is true: its forms write back the
\* keys they read, and its activations publish a store they read before.
RevokedKeyStaysRevoked ==
    ArmOnly =>
        /\ row # NoRow => row.col \notin revoked
        /\ /\ "POST" \in rule.activates /\ served # NoRow
           /\ \A c \in Clients : pc[c] \notin {"activate", "swap"}
           => served.col \notin revoked

\* A logger that a diagnostic names is there, and so is an API's version set.
\* The first is looked for by both handlers before they write, which the lock
\* makes safe; the second is the foreign key's doing, which the portal cannot
\* pass either.  A policy fragment may be missing.
NoDanglingReference ==
    rule.guarded \in {"checked", "constrained"} => (referred => row # NoRow)
=============================================================================

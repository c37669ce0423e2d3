--------------------------- MODULE ResourceRules ---------------------------
(***************************************************************************)
(* How a handler family is described: the sets of properties each of its   *)
(* functions touches, and the rule that follows from them for one property.*)
(***************************************************************************)
EXTENDS FiniteSets, TLC

AllVerbs == {"PUT", "PATCH", "DELETE"}

\* What a family does unless it says otherwise; "elsewhere" are the
\* properties another module follows.
Plain == [
    verbs |-> AllVerbs, locked |-> TRUE, precondition |-> {}, creates |-> TRUE,
    kept |-> {}, preset |-> {}, patched |-> "merge", stripped |-> {},
    applied |-> {}, replaced |-> {}, nulled |-> {}, nulling |-> AllVerbs, resets |-> {},
    required |-> {}, either |-> {}, putOnly |-> {}, stored |-> {}, keyed |-> {}, defaulted |-> {},
    rekeyed |-> {}, rekeying |-> "no", activates |-> {}, guarded |-> "no", form |-> {},
    elsewhere |-> {}]

\* The projection GET and LIST answer with.
Wire == [shown |-> {}, ifSet |-> {}, masked |-> {}, hidden |-> {}]

\* A JSON property that no handler decodes lives in the document only.
other == "other"

Properties(f) ==
    (f.applied \cup f.stripped \cup f.stored \cup f.wire.shown \cup f.wire.ifSet
        \cup f.wire.masked \cup f.wire.hidden \cup {other}) \ f.elsewhere

Shown(w, p) ==
    IF p \in w.hidden THEN "hidden"
    ELSE IF p \in w.masked THEN "masked"
    ELSE IF p \in w.ifSet THEN "ifSet"
    ELSE IF p \in w.shown THEN "shown"
    ELSE "document"

RuleOf(f, p) == [
    verbs |-> f.verbs, locked |-> f.locked, precondition |-> f.precondition, creates |-> f.creates,
    keeps |-> p \in f.kept, preset |-> p \in f.preset, patched |-> f.patched,
    stripped |-> p \in f.stripped, applied |-> p \in f.applied, replaced |-> p \in f.replaced,
    nulled |-> IF p \in f.nulled THEN f.nulling ELSE {}, resets |-> p \in f.resets,
    required |-> IF p \in f.required THEN "yes" ELSE IF p \in f.either THEN "either" ELSE "no",
    putOnly |-> p \in f.putOnly, stored |-> p \in f.stored,
    filled |-> IF p \in f.keyed THEN "key" ELSE IF p \in f.defaulted THEN "preset" ELSE "no",
    wire |-> Shown(f.wire, p), rekeyed |-> IF p \in f.rekeyed THEN f.rekeying ELSE "no",
    activates |-> f.activates, guarded |-> f.guarded,
    portal |-> f.form # {}, form |-> p \in f.form]

\* decodeDocument takes a key in any case; the functions that strip a document,
\* look for an explicit null or answer a GET know the one they spell.  A client
\* with a spelling of its own finds the key in the document, as it wrote it.
Respelled(r) == [r EXCEPT !.stripped = FALSE, !.nulled = {}, !.resets = FALSE, !.wire = "document"]

\* A service whose portal nobody uses.
WithoutPortal(r) == [r EXCEPT !.portal = FALSE, !.form = FALSE]

\* One spelling per behaviour.  Where no document is kept, spelling is all one.
RulesOf(f, p) ==
    LET r == RuleOf(f, p)
    IN  {r} \cup (IF other \in f.stripped THEN {} ELSE {Respelled(r)})
            \cup (IF p \in f.rekeyed THEN {WithoutPortal(r)} ELSE {})
=============================================================================

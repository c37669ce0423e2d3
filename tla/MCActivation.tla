---------------------------- MODULE MCActivation ----------------------------
(***************************************************************************)
(* Instances of Activation.  The documents are chosen so that every kind   *)
(* of reference can dangle: one interpolates a named value, one selects a  *)
(* backend, one includes a fragment that includes another.                 *)
(***************************************************************************)
EXTENDS Activation, TLC

CONSTANTS s1, s2, svc, nv, be, ca, f1, f2, v1, v2

Put(t, k, rows) == [table : {t}, key : {k}, row : rows]

PolicyWrites(scopes, docs) == UNION {Put("policies", s, docs \cup {Absent}) : s \in scopes}

McDocs == {{}, {nv}, {be}, {f1}}

\* Bound: s1 names values and backends, s2 includes fragments.
ScopeWrites == PolicyWrites({s1}, McDocs \ {{f1}}) \cup PolicyWrites({s2}, {{f1}})

\* Every table is written and deleted, but the document of a service, which
\* there is no request to delete.
AllWrites ==
    ScopeWrites \cup Put("policies", svc, {{}, {nv}})
        \cup Put("named_values", nv, {v1, v2, Absent})
        \cup Put("backends", be, {{}, {ca}, Absent})
        \cup Put("certificates", ca, {{}, Absent})
        \cup Put("policy_fragments", f1, {{f2}, {be}, Absent})
        \cup Put("policy_fragments", f2, {{}, {f1}, Absent})

PortalWrites ==
    {q \in ScopeWrites : q.row # Absent}
        \cup Put("named_values", nv, {v1, v2})
        \cup Put("backends", be, {{}, {ca}})
        \cup Put("certificates", ca, {{}})

NoWrites == {}

\* A configuration in which every reference resolves.
Populated ==
    [EmptyDatabase EXCEPT
        !["policies"] = [s \in Scopes |-> CASE s = s1 -> {nv} [] s = s2 -> {f1} [] s = svc -> Absent],
        !["named_values"] = [n \in NamedValues |-> v1],
        !["backends"] = [b \in Backends |-> {ca}],
        !["certificates"] = [c \in Certificates |-> {}],
        !["policy_fragments"] = [f \in Fragments |-> IF f = f1 THEN {f2} ELSE {}]]

\* An older build's store: the document at s1 names a backend that is gone, and
\* a fragment is included by nothing.
Inherited ==
    [EmptyDatabase EXCEPT
        !["policies"] = [s \in Scopes |-> IF s = s1 THEN {be} ELSE {}],
        !["policy_fragments"] = [f \in Fragments |-> IF f = f1 THEN {} ELSE Absent]]

McStores == {EmptyDatabase, Populated, Inherited}

WriterSymmetry == Permutations(ArmWriters)
=============================================================================

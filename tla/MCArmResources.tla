--------------------------- MODULE MCArmResources ---------------------------
\* Instances of ArmResources over the families of the repository.
EXTENDS ArmResources, GatewayFamilies, IdentityFamilies, ServiceFamilies

Families == GatewayFamily @@ IdentityFamily @@ ServiceFamily

Everything == UNION {{<<f, p>> : p \in Properties(Families[f])} : f \in DOMAIN Families}

\* One column of each way a handler reads, keeps, guards and serves a row: two
\* clients write it at once.  Elsewhere one client at a time does, and the
\* portal beside it.
MCContended == {
    <<"diagnostic", "loggerId">>, <<"logger", "credentials">>, <<"apiVersionSet", "displayName">>,
    <<"gatewayResource", "primaryKey">>, <<"tenantAccess", "primaryKey">>,
    <<"subscriptionResource", "primaryKey">>, <<"workspaceResource", "other">>,
    <<"namedValue", "value">>}

\* Properties under the same rule behave alike, so a set of rules will do.
MCRules == UNION {
    {[contended |-> /\ x \in MCContended /\ ~r.portal
                    /\ r.wire = Shown(Families[x[1]].wire, x[2])] @@ r :
        r \in RulesOf(Families[x[1]], x[2])} : x \in Everything}

Symmetry == Permutations(Clients)
=============================================================================

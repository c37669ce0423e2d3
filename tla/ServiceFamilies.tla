-------------------------- MODULE ServiceFamilies --------------------------
(***************************************************************************)
(* The service itself, its workspaces, access keys, self-hosted gateways   *)
(* and documents.                                                          *)
(***************************************************************************)
EXTENDS ResourceRules

\* -- the service: its PATCH clears no column, and it takes no If-Match -----
serviceWire == [shown |-> {"publisherName", "publisherEmail", "skuName", "skuCapacity", "location"}] @@ Wire
UpsertService == {"publisherName", "publisherEmail", "skuName", "skuCapacity", "location"}
servicePut == {"publisherName", "publisherEmail", "skuName", "skuCapacity", "location"}
service == [
    activates |-> AllVerbs, applied |-> servicePut, elsewhere |-> {"location", "skuCapacity"},
    wire |-> serviceWire, stored |-> UpsertService] @@ Plain

\* -- workspaces: PATCH stores its body as the whole document ---------------
workspaceWire == [shown |-> {"displayName"}, ifSet |-> {"description"}] @@ Wire
UpsertWorkspace == {"displayName", "description"}
workspaceResource == [
    activates |-> {"DELETE"}, applied |-> {"displayName", "description"}, patched |-> "replace",
    wire |-> workspaceWire, stored |-> UpsertWorkspace, required |-> {"displayName"}] @@ Plain

\* -- tenant access: two rows born with the service, no document ------------
tenantAccessWire == [shown |-> {"enabled"}, ifSet |-> {"principalId"}, hidden |-> {"primaryKey", "secondaryKey"}] @@ Wire
UpsertTenantAccess == {"enabled", "principalId", "primaryKey", "secondaryKey"}
tenantAccessAction == {"primaryKey", "secondaryKey"}
tenantAccess == [
    verbs |-> {"PUT", "PATCH"}, precondition |-> {"PUT", "PATCH"}, creates |-> FALSE,
    putOnly |-> {"principalId", "primaryKey", "secondaryKey"}, kept |-> UpsertTenantAccess, applied |-> UpsertTenantAccess,
    stripped |-> UpsertTenantAccess \cup {other}, wire |-> tenantAccessWire, stored |-> UpsertTenantAccess,
    rekeyed |-> tenantAccessAction, rekeying |-> "upsert"] @@ Plain

\* -- self-hosted gateways: PUT keeps the keys and a POST makes new ones ----
gatewayWire ==
    [shown |-> {"locationData"}, ifSet |-> {"description"}, hidden |-> {"primaryKey", "secondaryKey"}] @@ Wire
UpsertGateway == {"locationData", "description", "primaryKey", "secondaryKey"}
gatewayUpsert == [
    kept |-> {"primaryKey", "secondaryKey"}, applied |-> {"locationData", "description"}, patched |-> "replace",
    keyed |-> {"primaryKey", "secondaryKey"}, required |-> {"locationData"}]
gatewayRegenerateKey == {"primaryKey", "secondaryKey"}
gatewayResource == gatewayUpsert @@ [
    precondition |-> {"PATCH", "DELETE"}, activates |-> {"DELETE"}, wire |-> gatewayWire,
    stored |-> UpsertGateway, rekeyed |-> gatewayRegenerateKey, rekeying |-> "upsert"] @@ Plain

gatewayHostnameWire == [
    shown |-> {"hostname", "negotiateClientCertificate", "tls10Enabled", "tls11Enabled", "http2Enabled"},
    ifSet |-> {"certificateId"}] @@ Wire
UpsertGatewayHostnameConfiguration ==
    {"hostname", "certificateId", "negotiateClientCertificate", "tls10Enabled", "tls11Enabled", "http2Enabled"}
gatewayHostnameUpsert == [
    applied |-> {"hostname", "certificateId", "negotiateClientCertificate", "tls10Enabled", "tls11Enabled", "http2Enabled"},
    patched |-> "replace", required |-> {"hostname"}]
gatewayHostnameResource == gatewayHostnameUpsert @@ [
    precondition |-> {"DELETE"}, activates |-> AllVerbs, wire |-> gatewayHostnameWire,
    stored |-> UpsertGatewayHostnameConfiguration] @@ Plain

gatewayCertificateAuthorityWire == [shown |-> {"isTrusted"}] @@ Wire
UpsertGatewayCertificateAuthority == {"isTrusted"}
gatewayCertificateAuthorityUpsert == [applied |-> {"isTrusted"}, patched |-> "replace"]
gatewayCertificateAuthorityResource == gatewayCertificateAuthorityUpsert @@ [
    precondition |-> {"DELETE"}, wire |-> gatewayCertificateAuthorityWire,
    stored |-> UpsertGatewayCertificateAuthority] @@ Plain

\* -- private endpoint connections: PUT starts from the existing row --------
privateEndpointConnectionWire ==
    [shown |-> {"status"}, ifSet |-> {"description", "actionsRequired", "privateEndpoint"}] @@ Wire
UpsertPrivateEndpointConnection == {"status", "description", "actionsRequired", "privateEndpoint"}
privateEndpointConnectionUpsert == [
    kept |-> UpsertPrivateEndpointConnection, preset |-> {"status"},
    applied |-> {"status", "description", "actionsRequired", "privateEndpoint"}]
privateEndpointConnectionResource == privateEndpointConnectionUpsert @@ [
    verbs |-> {"PUT", "DELETE"}, wire |-> privateEndpointConnectionWire,
    stored |-> UpsertPrivateEndpointConnection] @@ Plain

\* -- documentation --------------------------------------------------------
applyDocumentationPayload == {"title", "content"}
clearNullDocumentationProperties == {"content"}
validateDocumentation == {"title"}
documentationWire == [shown |-> {"title", "content"}] @@ Wire
UpsertDocumentation == {"title", "content"}
documentation == [
    precondition |-> {"PATCH", "DELETE"}, applied |-> applyDocumentationPayload,
    nulled |-> clearNullDocumentationProperties, nulling |-> {"PATCH"}, required |-> validateDocumentation,
    wire |-> documentationWire, stored |-> UpsertDocumentation] @@ Plain

\* -- policy restrictions: PATCH keeps the document it finds ----------------
policyRestrictionWire == [shown |-> {"scope", "requireBase"}] @@ Wire
UpsertPolicyRestriction == {"scope", "requireBase"}
policyRestriction == [
    precondition |-> {"PATCH"}, applied |-> {"scope", "requireBase"}, preset |-> {"requireBase"},
    patched |-> "keep", wire |-> policyRestrictionWire, stored |-> UpsertPolicyRestriction] @@ Plain

ServiceFamily == [
    service |-> service, workspaceResource |-> workspaceResource, tenantAccess |-> tenantAccess,
    gatewayResource |-> gatewayResource, gatewayHostnameResource |-> gatewayHostnameResource,
    gatewayCertificateAuthorityResource |-> gatewayCertificateAuthorityResource,
    privateEndpointConnectionResource |-> privateEndpointConnectionResource,
    documentation |-> documentation, policyRestriction |-> policyRestriction]
=============================================================================

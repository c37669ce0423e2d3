-------------------------- MODULE IdentityFamilies --------------------------
(***************************************************************************)
(* People, the groups and tags that organise them, and the identity and    *)
(* credential resources.  Their handlers do not activate.                  *)
(***************************************************************************)
EXTENDS ResourceRules

\* -- users: PUT starts from the existing row -------------------------------
clearNullUserProperties == {"firstName", "lastName", "email", "state", "note", "identities"}
sanitizeUserDocument == {"password", "primaryKey", "secondaryKey"}
userWire == [
    shown |-> {"firstName", "lastName", "email", "state", "note", "identities"},
    hidden |-> {"password", "primaryKey", "secondaryKey"}] @@ Wire
UpsertUser ==
    {"firstName", "lastName", "email", "state", "note", "password", "identities", "primaryKey", "secondaryKey"}
portalUser == {"firstName", "lastName", "email", "state", "note"}
user == [
    precondition |-> {"PATCH", "DELETE"}, kept |-> UpsertUser,
    applied |-> {"firstName", "lastName", "email", "state", "note", "password", "identities"},
    nulled |-> clearNullUserProperties, stripped |-> sanitizeUserDocument, wire |-> userWire,
    stored |-> UpsertUser, keyed |-> {"password", "primaryKey", "secondaryKey"}, preset |-> {"state"},
    required |-> {"firstName", "lastName", "email", "state"}, form |-> portalUser] @@ Plain

\* -- groups ---------------------------------------------------------------
groupWire == [shown |-> {"displayName", "description", "type", "externalId"}] @@ Wire
UpsertGroup == {"displayName", "description", "type", "externalId"}
portalGroup == {"displayName", "description", "type", "externalId"}
group == [
    precondition |-> {"PATCH", "DELETE"}, applied |-> {"displayName", "description", "type", "externalId"},
    nulled |-> {"description", "externalId"}, preset |-> {"type"}, wire |-> groupWire,
    stored |-> UpsertGroup, required |-> {"displayName", "type"}, form |-> portalGroup] @@ Plain

\* -- tags -----------------------------------------------------------------
tagWire == [shown |-> {"displayName"}] @@ Wire
UpsertTag == {"displayName"}
portalTag == {"displayName"}
tag == [
    precondition |-> {"PATCH", "DELETE"}, applied |-> {"displayName"}, wire |-> tagWire,
    stored |-> UpsertTag, required |-> {"displayName"}, form |-> portalTag] @@ Plain

\* -- OAuth authorization servers: only the client secret is write-only -----
applyAuthorizationServerPayload == {
    "displayName", "description", "authorizationEndpoint", "clientRegistrationEndpoint", "clientId",
    "clientSecret", "tokenEndpoint", "defaultScope", "resourceOwnerUsername", "resourceOwnerPassword",
    "supportState", "grantTypes"}
clearNullAuthorizationServerProperties ==
    {"description", "tokenEndpoint", "defaultScope", "resourceOwnerUsername", "resourceOwnerPassword", "supportState"}
validateAuthorizationServer ==
    {"displayName", "authorizationEndpoint", "clientRegistrationEndpoint", "clientId", "grantTypes"}
sanitizeAuthorizationServerDocument == {"clientSecret"}
authorizationServerWire == [
    shown |-> applyAuthorizationServerPayload \ {"clientSecret"}, hidden |-> {"clientSecret"}] @@ Wire
UpsertAuthorizationServer == applyAuthorizationServerPayload
authorizationServer == [
    precondition |-> {"PATCH", "DELETE"}, applied |-> applyAuthorizationServerPayload,
    nulled |-> clearNullAuthorizationServerProperties, nulling |-> {"PATCH"},
    required |-> validateAuthorizationServer, stripped |-> sanitizeAuthorizationServerDocument,
    wire |-> authorizationServerWire, stored |-> UpsertAuthorizationServer] @@ Plain

\* -- identity providers ---------------------------------------------------
applyIdentityProviderPayload == {
    "clientId", "clientSecret", "authority", "signinTenant", "signupPolicyName", "signinPolicyName",
    "profileEditingPolicyName", "passwordResetPolicyName", "allowedTenants"}
clearNullIdentityProviderProperties == applyIdentityProviderPayload \ {"clientId", "clientSecret"}
validateIdentityProvider == {"clientId", "clientSecret"}
sanitizeIdentityProviderDocument == {"clientSecret"}
identityProviderWire ==
    [shown |-> applyIdentityProviderPayload \ {"clientSecret"}, hidden |-> {"clientSecret"}] @@ Wire
UpsertIdentityProvider == applyIdentityProviderPayload
identityProvider == [
    precondition |-> {"PATCH", "DELETE"}, applied |-> applyIdentityProviderPayload,
    nulled |-> clearNullIdentityProviderProperties, nulling |-> {"PATCH"},
    required |-> validateIdentityProvider, stripped |-> sanitizeIdentityProviderDocument,
    wire |-> identityProviderWire, stored |-> UpsertIdentityProvider] @@ Plain

\* -- OpenID Connect providers ---------------------------------------------
applyOpenIDConnectProviderPayload == {"displayName", "description", "metadataEndpoint", "clientId", "clientSecret"}
clearNullOpenIDConnectProviderProperties == {"description"}
validateOpenIDConnectProvider == {"displayName", "metadataEndpoint", "clientId"}
sanitizeOpenIDConnectProviderDocument == {"clientSecret"}
openIDConnectProviderWire ==
    [shown |-> {"displayName", "description", "metadataEndpoint", "clientId"}, hidden |-> {"clientSecret"}] @@ Wire
UpsertOpenIDConnectProvider == applyOpenIDConnectProviderPayload
openIDConnectProvider == [
    precondition |-> {"PATCH", "DELETE"}, applied |-> applyOpenIDConnectProviderPayload,
    nulled |-> clearNullOpenIDConnectProviderProperties, nulling |-> {"PATCH"},
    required |-> validateOpenIDConnectProvider, stripped |-> sanitizeOpenIDConnectProviderDocument,
    wire |-> openIDConnectProviderWire, stored |-> UpsertOpenIDConnectProvider] @@ Plain

\* -- the credential manager: PATCH stores its body as the whole document. --
\* A provider keeps its client secrets in the document, and every wire hides
\* them; the status of an authorization is the subject of module Credentials.
authorizationProviderWire == [shown |-> {"displayName", "identityProvider"}, hidden |-> {"clientSecret"}] @@ Wire
UpsertAuthorizationProvider == {"displayName", "identityProvider"}
authorizationProviderResource == [
    applied |-> {"displayName", "identityProvider"}, patched |-> "replace",
    wire |-> authorizationProviderWire, stored |-> UpsertAuthorizationProvider,
    required |-> {"identityProvider"}] @@ Plain

authorizationWire == [
    shown |-> {"authorizationType", "oauth2grantType"}, hidden |-> {"accessToken", "refreshToken"}] @@ Wire
UpsertAuthorization == {"authorizationType", "oauth2grantType"}
authorizationResource == [
    applied |-> {"authorizationType", "oauth2grantType"}, patched |-> "replace",
    wire |-> authorizationWire, stored |-> UpsertAuthorization, required |-> {"oauth2grantType"}] @@ Plain

accessPolicyWire == [shown |-> {"tenantId", "objectId"}] @@ Wire
UpsertAuthorizationAccessPolicy == {"tenantId", "objectId"}
accessPolicyResource == [
    applied |-> {"tenantId", "objectId"}, patched |-> "replace", wire |-> accessPolicyWire,
    stored |-> UpsertAuthorizationAccessPolicy, required |-> {"objectId"}] @@ Plain

\* -- role assignments: served before the lock and the conditions -----------
roleAssignmentWire == [shown |-> {"roleDefinitionId", "principalId", "principalType"}] @@ Wire
UpsertRoleAssignment == {"roleDefinitionId", "principalId", "principalType"}
roleAssignmentResource == [
    verbs |-> {"PUT", "DELETE"}, locked |-> FALSE, preset |-> {"principalType"},
    applied |-> {"roleDefinitionId", "principalId", "principalType"},
    wire |-> roleAssignmentWire, stored |-> UpsertRoleAssignment,
    required |-> {"roleDefinitionId", "principalId"}] @@ Plain

IdentityFamily == [
    user |-> user, group |-> group, tag |-> tag, authorizationServer |-> authorizationServer,
    identityProvider |-> identityProvider, openIDConnectProvider |-> openIDConnectProvider,
    authorizationProviderResource |-> authorizationProviderResource,
    authorizationResource |-> authorizationResource, accessPolicyResource |-> accessPolicyResource,
    roleAssignmentResource |-> roleAssignmentResource]
=============================================================================

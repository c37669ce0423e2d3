-------------------------- MODULE GatewayFamilies --------------------------
(***************************************************************************)
(* The resources the gateway's snapshot is compiled from.  One definition  *)
(* per function of internal/arm, internal/store and internal/server that   *)
(* decides what becomes of a property: the columns a payload sets, an      *)
(* explicit null clears, a table keeps, a form edits or a wire function    *)
(* shows.                                                                  *)
(***************************************************************************)
EXTENDS ResourceRules

\* -- named values ---------------------------------------------------------
applyNamedValuePayload == {"displayName", "value", "tags", "secret", "keyVault"}
clearNullNamedValueProperties == {"displayName", "value", "tags", "secret", "keyVault"}
sanitizeNamedValueDocument == {"value"}
namedValueWire ==
    [shown |-> {"displayName", "secret", "tags"}, ifSet |-> {"keyVault"}, hidden |-> {"value"}] @@ Wire
UpsertNamedValue == {"displayName", "value", "tags", "secret", "keyVault"}
namedValueAction == {"value"}
portalNamedValue == {"displayName", "value", "tags", "secret"}
namedValue == [
    precondition |-> {"PATCH", "DELETE"}, activates |-> AllVerbs \cup {"POST"},
    rekeyed |-> namedValueAction, rekeying |-> "vault",
    applied |-> applyNamedValuePayload, nulled |-> clearNullNamedValueProperties,
    stripped |-> sanitizeNamedValueDocument, wire |-> namedValueWire, stored |-> UpsertNamedValue,
    form |-> portalNamedValue, required |-> {"displayName"}, either |-> {"value", "keyVault"}] @@ Plain

\* -- backends -------------------------------------------------------------
applyBackendPayload == {"title", "description", "url", "protocol", "resourceId"}
clearNullBackendProperties == {"title", "description", "url", "protocol", "resourceId"}
backendWire == [shown |-> {"title", "description", "url", "protocol", "resourceId"}] @@ Wire
UpsertBackend == {"title", "description", "url", "protocol", "resourceId"}
portalBackend == {"title", "description", "url", "protocol", "resourceId"}
backend == [
    precondition |-> {"PATCH", "DELETE"}, activates |-> AllVerbs,
    applied |-> applyBackendPayload, nulled |-> clearNullBackendProperties, wire |-> backendWire,
    stored |-> UpsertBackend, form |-> portalBackend, required |-> {"url", "protocol"}] @@ Plain

\* -- certificates: no PATCH; subject and dates are read from the data -----
sanitizeCertificateDocument == {"data", "password", "subject", "thumbprint", "expirationDate"}
certificateWire ==
    [ifSet |-> {"subject", "thumbprint", "expirationDate", "keyVault"}, hidden |-> {"data", "password"}] @@ Wire
UpsertCertificate == {"data", "password", "subject", "thumbprint", "expirationDate", "keyVault"}
portalCertificate == {"subject", "thumbprint", "keyVault"}
certificate == [
    verbs |-> {"PUT", "DELETE"}, precondition |-> {"DELETE"}, activates |-> {"PUT", "DELETE", "POST"},
    rekeyed |-> {"data"}, rekeying |-> "vault",
    applied |-> {"data", "password", "keyVault"}, replaced |-> {"data"},
    preset |-> {"subject", "thumbprint", "expirationDate"}, either |-> {"data", "keyVault"},
    stripped |-> sanitizeCertificateDocument, wire |-> certificateWire, stored |-> UpsertCertificate,
    form |-> portalCertificate] @@ Plain

\* -- diagnostics ----------------------------------------------------------
applyDiagnosticPayload == {"loggerId", "alwaysLog", "logClientIp", "verbosity", "sampling"}
clearNullDiagnosticProperties == {"loggerId", "alwaysLog", "logClientIp", "verbosity", "sampling"}
diagnosticWire == [shown |-> {"loggerId", "alwaysLog", "logClientIp", "verbosity", "sampling"}] @@ Wire
UpsertDiagnostic == {"loggerId", "alwaysLog", "logClientIp", "verbosity", "sampling"}
diagnostic == [
    precondition |-> {"PATCH", "DELETE"}, activates |-> AllVerbs,
    applied |-> applyDiagnosticPayload, nulled |-> clearNullDiagnosticProperties, nulling |-> {"PATCH"},
    preset |-> {"sampling"}, resets |-> {"sampling"}, wire |-> diagnosticWire,
    stored |-> UpsertDiagnostic, required |-> {"loggerId"}] @@ Plain

\* -- loggers: a diagnostic that names one keeps it from being deleted -----
applyLoggerPayload == {"loggerType", "description", "isBuffered", "resourceId", "credentials"}
sanitizeLoggerDocument == {"credentials"}
loggerWire ==
    [shown |-> {"loggerType", "description", "isBuffered", "resourceId"}, masked |-> {"credentials"}] @@ Wire
UpsertLogger == {"loggerType", "description", "isBuffered", "resourceId", "credentials"}
DeleteLogger == "checked"
logger == [
    precondition |-> {"PATCH", "DELETE"}, applied |-> applyLoggerPayload, preset |-> {"isBuffered"},
    stripped |-> sanitizeLoggerDocument, wire |-> loggerWire, stored |-> UpsertLogger,
    required |-> {"loggerType"}, guarded |-> DeleteLogger] @@ Plain

\* -- caches ---------------------------------------------------------------
applyCachePayload == {"connectionString", "useFromLocation", "description", "resourceId"}
clearNullCacheProperties == {"description", "resourceId"}
validateCache == {"connectionString", "useFromLocation"}
sanitizeCacheDocument == {"connectionString"}
cacheWire ==
    [shown |-> {"useFromLocation", "description", "resourceId"}, masked |-> {"connectionString"}] @@ Wire
UpsertCache == {"connectionString", "useFromLocation", "description", "resourceId"}
cache == [
    precondition |-> {"PATCH", "DELETE"}, applied |-> applyCachePayload,
    nulled |-> clearNullCacheProperties, nulling |-> {"PATCH"}, required |-> validateCache,
    stripped |-> sanitizeCacheDocument, wire |-> cacheWire, stored |-> UpsertCache] @@ Plain

\* -- APIs: their revisions are the subject of module ApiRevisions -----------
applyAPIPayload == {
    "displayName", "path", "serviceUrl", "protocols", "subscriptionRequired", "apiRevision",
    "apiRevisionDescription", "isCurrent", "apiVersion", "apiVersionSetId"}
clearNullAPIProperties == {"apiRevisionDescription", "apiVersion", "apiVersionSetId"}
cleanAPIDocument == {"format", "value", "sourceApiId"}
apiWire == [
    shown |-> {"displayName", "path", "serviceUrl", "protocols", "subscriptionRequired", "apiRevision",
               "apiRevisionDescription", "isCurrent"},
    ifSet |-> {"apiVersion", "apiVersionSetId"}, hidden |-> {"format", "value", "sourceApiId"}] @@ Wire
UpsertAPI == applyAPIPayload
portalResource == {"displayName", "path", "serviceUrl", "subscriptionRequired"}
apiResource == [
    precondition |-> {"PATCH", "DELETE"}, activates |-> AllVerbs, applied |-> applyAPIPayload,
    preset |-> {"subscriptionRequired"}, elsewhere |-> {"apiRevision", "isCurrent"},
    nulled |-> clearNullAPIProperties, stripped |-> cleanAPIDocument, wire |-> apiWire,
    stored |-> UpsertAPI, form |-> portalResource, required |-> {"displayName"},
    either |-> {"serviceUrl", "apiVersion", "apiVersionSetId"}] @@ Plain

\* -- operations -----------------------------------------------------------
applyOperationPayload == {"displayName", "method", "urlTemplate"}
operationWire == [shown |-> {"displayName", "method", "urlTemplate"}] @@ Wire
UpsertOperation == {"displayName", "method", "urlTemplate"}
operationResource == [
    precondition |-> {"PATCH", "DELETE"}, activates |-> AllVerbs, applied |-> applyOperationPayload,
    wire |-> operationWire, stored |-> UpsertOperation, required |-> {"method", "urlTemplate"}] @@ Plain

\* -- API version sets: an API that names one keeps it (ON DELETE RESTRICT) --
validateAPIVersionSet == {"displayName", "versioningScheme"}
apiVersionSetWire ==
    [shown |-> {"displayName", "versioningScheme", "versionHeaderName", "versionQueryName", "description"}] @@ Wire
UpsertAPIVersionSet == {"displayName", "versioningScheme", "versionHeaderName", "versionQueryName", "description"}
apiVersionSet == [
    precondition |-> {"PATCH", "DELETE"}, activates |-> AllVerbs,
    applied |-> {"displayName", "versioningScheme", "versionHeaderName", "versionQueryName", "description"},
    nulled |-> {"versionHeaderName", "versionQueryName", "description"},
    wire |-> apiVersionSetWire, stored |-> UpsertAPIVersionSet, required |-> validateAPIVersionSet,
    guarded |-> "constrained"] @@ Plain

\* -- releases: DELETE leaves the runtime alone -----------------------------
apiReleaseWire == [shown |-> {"apiId", "notes"}] @@ Wire
UpsertAPIRelease == {"apiId", "notes"}
apiReleaseResource == [
    precondition |-> {"PATCH", "DELETE"}, activates |-> {"PUT", "PATCH"}, applied |-> {"apiId", "notes"},
    nulled |-> {"apiId", "notes"}, wire |-> apiReleaseWire, stored |-> UpsertAPIRelease,
    required |-> {"apiId"}] @@ Plain

\* -- schemas: PUT only, and every column is taken from the body ------------
apiSchemaWire == [shown |-> {"contentType", "document"}] @@ Wire
UpsertAPISchema == {"contentType", "document"}
apiSchemaResource == [
    verbs |-> {"PUT", "DELETE"}, precondition |-> {"DELETE"}, activates |-> {"PUT", "DELETE"},
    applied |-> {"contentType", "document"}, replaced |-> {"contentType", "document"},
    wire |-> apiSchemaWire, stored |-> UpsertAPISchema, required |-> {"contentType"}] @@ Plain

globalSchemaWire == [shown |-> {"schemaType", "description", "document"}] @@ Wire
UpsertGlobalSchema == {"schemaType", "description", "document"}
globalSchema == [
    verbs |-> {"PUT", "DELETE"}, applied |-> {"schemaType", "description", "document"},
    replaced |-> {"schemaType", "description", "document"}, wire |-> globalSchemaWire,
    stored |-> UpsertGlobalSchema, required |-> {"schemaType", "document"}] @@ Plain

\* -- GraphQL resolvers: PATCH stores its body as the whole document --------
apiResolverWire == [shown |-> {"displayName", "path"}, ifSet |-> {"description"}] @@ Wire
UpsertAPIResolver == {"displayName", "description", "path"}
apiResolverResource == [
    activates |-> AllVerbs, applied |-> {"displayName", "description", "path"}, patched |-> "replace",
    wire |-> apiResolverWire, stored |-> UpsertAPIResolver, required |-> {"path"}] @@ Plain

\* -- policy fragments: a policy that includes one keeps it -----------------
policyFragmentWire == [shown |-> {"description", "format", "value"}] @@ Wire
UpsertPolicyFragment == {"description", "format", "value"}
ListPolicyFragmentReferences == "searched"
policyFragment == [
    verbs |-> {"PUT", "DELETE"}, precondition |-> {"DELETE"}, activates |-> {"PUT", "DELETE"},
    applied |-> {"description", "format", "value"}, replaced |-> {"description", "value"},
    preset |-> {"format"}, wire |-> policyFragmentWire, stored |-> UpsertPolicyFragment,
    required |-> {"value"}, guarded |-> ListPolicyFragmentReferences] @@ Plain

\* -- products -------------------------------------------------------------
applyProductPayload == {"displayName", "state", "approvalRequired"}
productWire == [shown |-> {"displayName", "state", "approvalRequired"}] @@ Wire
UpsertProduct == {"displayName", "state", "approvalRequired"}
portalProduct == {"displayName", "state", "approvalRequired"}
productResource == [
    precondition |-> {"PATCH", "DELETE"}, activates |-> AllVerbs, applied |-> applyProductPayload,
    preset |-> {"state"}, wire |-> productWire, stored |-> UpsertProduct, form |-> portalProduct,
    required |-> {"displayName"}] @@ Plain

\* -- subscriptions: PUT starts from the existing row and the store makes --
\* -- the keys a client does not give ---------------------------------------
applySubscriptionPayload == {"displayName", "scope", "state", "primaryKey", "secondaryKey"}
clearNullSubscriptionProperties == {"displayName", "scope", "state"}
sanitizeSubscriptionDocument == {"primaryKey", "secondaryKey"}
subscriptionWire ==
    [shown |-> {"displayName", "scope", "state"}, hidden |-> {"primaryKey", "secondaryKey"}] @@ Wire
UpsertSubscription == {"displayName", "scope", "state", "primaryKey", "secondaryKey"}
RegenerateSubscriptionKey == {"primaryKey", "secondaryKey"}
portalSubscription == {"displayName", "scope", "state"}
subscriptionResource == [
    precondition |-> {"PATCH", "DELETE"}, activates |-> AllVerbs \cup {"POST"},
    kept |-> applySubscriptionPayload, applied |-> applySubscriptionPayload,
    nulled |-> clearNullSubscriptionProperties, stripped |-> sanitizeSubscriptionDocument,
    wire |-> subscriptionWire, stored |-> UpsertSubscription, keyed |-> {"primaryKey", "secondaryKey"},
    defaulted |-> {"state"}, rekeyed |-> RegenerateSubscriptionKey, rekeying |-> "update",
    form |-> portalSubscription, required |-> {"displayName", "scope"}] @@ Plain

GatewayFamily == [
    namedValue |-> namedValue, backend |-> backend, certificate |-> certificate,
    diagnostic |-> diagnostic, logger |-> logger, cache |-> cache, apiResource |-> apiResource,
    operationResource |-> operationResource, apiVersionSet |-> apiVersionSet,
    apiReleaseResource |-> apiReleaseResource, apiSchemaResource |-> apiSchemaResource,
    globalSchema |-> globalSchema, apiResolverResource |-> apiResolverResource,
    policyFragment |-> policyFragment, productResource |-> productResource,
    subscriptionResource |-> subscriptionResource]
=============================================================================

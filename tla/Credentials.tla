---------------------------- MODULE Credentials ----------------------------
(***************************************************************************)
(* The credential manager: one authorization provider, one authorization   *)
(* stored under it, and the tokens the gateway obtains for it.             *)
(*                                                                         *)
(* The management plane writes the two rows and carries out consent, one   *)
(* mutating request at a time (Handler.mutationMu, held across the call    *)
(* to the token endpoint).  Gateway requests run get-authorization-context *)
(* beside it, with no lock but the cache's own: each reads the two rows,   *)
(* then the cached token, then may exchange and store.  Tokens live in     *)
(* memory only.  The token endpoint is external: it may rotate refresh     *)
(* tokens, refuse, or answer too late.                                     *)
(*                                                                         *)
(* A unit of time is the 30 seconds of skew in Token.Expired.              *)
(***************************************************************************)
EXTENDS Naturals, FiniteSets

CONSTANTS
    Workers,     \* gateway requests in flight
    MaxTime,     \* bound: the clock
    Lives,       \* the lifetimes an endpoint answers with; 0: it does not say
    MaxGrants,   \* bound: refresh tokens the provider ever issues
    MaxMade,     \* bound: authorizations ever created
    NoRow, NoToken, NoAnswer

ASSUME CredentialAssumption ==
    /\ MaxTime \in Nat /\ Lives \in SUBSET Nat /\ IsFiniteSet(Lives) /\ MaxGrants \in Nat /\ MaxMade \in Nat \ {0}

Grants == {"authorizationCode", "clientCredentials"}
Configs == {"whole", "broken"}         \* broken: no oauth2, or no token endpoint
Authorization == [grant : Grants, status : {"", "Connected", "Error"}, made : 1..MaxMade]

Ends == {0} \cup {t + life : t \in 0..MaxTime, life \in Lives}

\* A token: the refresh token it came with (0: none), the ExpiresAt computed
\* for it (0: the endpoint did not say), when it really ends, how it was
\* obtained, and which authorization it was obtained for.
Token == [refresh : 0..MaxGrants, expires : Ends, ends : Ends,
          by : {"consent", "refresh", "client"}, made : 1..MaxMade]

Answer == [token : Token, made : 1..MaxMade, cached : BOOLEAN]

\* What is missing is none of the things that may be there.
ASSUME AbsenceAssumption ==
    NoRow \notin Configs \cup Authorization /\ NoToken \notin Token /\ NoAnswer \notin Answer

VARIABLES
    provider, authorization,  \* the rows of the store
    made,                     \* history: authorizations created so far
    arm,                      \* the consent that holds mutationMu: its step, and when it began
    cache,                    \* credentialCache.tokens, for this authorization
    work,                     \* per gateway request: where fetchCredential is
    served,                   \* the answer of the last step, if it was one
    clock,
    rotates, live, issued, lost  \* external: does the provider rotate refresh tokens,
                              \* which it accepts, how many it issued, and whether an
                              \* answer that rotated one was ever lost

rows == <<provider, authorization, made>>
endpoint == <<rotates, live, issued, lost>>
vars == <<provider, authorization, made, arm, cache, work, served, clock, rotates, live, issued, lost>>

NoConsent == [step |-> "idle", now |-> 0]
Idle == [pc |-> "idle", grant |-> "clientCredentials", made |-> 1, now |-> 0, token |-> NoToken, refresh |-> 0]

TypeOK ==
    /\ provider \in Configs \cup {NoRow}
    /\ authorization \in Authorization \cup {NoRow}
    /\ made \in 0..MaxMade
    /\ arm \in [step : {"idle", "exchange", "Connected", "Error"}, now : 0..MaxTime]
    /\ cache \in Token \cup {NoToken}
    /\ work \in [Workers -> [pc : {"idle", "authorization", "token", "acquire", "exchange", "store"},
                             grant : Grants, made : 1..MaxMade, now : 0..MaxTime,
                             token : Token \cup {NoToken}, refresh : 0..MaxGrants]]
    /\ served \in Answer \cup {NoAnswer}
    /\ clock \in 0..MaxTime
    /\ rotates \in BOOLEAN /\ live \subseteq 1..MaxGrants /\ issued \in 0..MaxGrants /\ lost \in BOOLEAN

Init ==
    /\ provider = NoRow /\ authorization = NoRow /\ made = 0
    /\ arm = NoConsent
    /\ cache = NoToken
    /\ work = [w \in Workers |-> Idle]
    /\ served = NoAnswer
    /\ clock = 0
    /\ rotates \in BOOLEAN /\ live = {} /\ issued = 0 /\ lost = FALSE

-----------------------------------------------------------------------------
\* The management plane.

\* A new authorization-code credential waits for a person.
NewStatus(grant) == IF grant = "clientCredentials" THEN "Connected" ELSE "Error"

\* PUT and PATCH both store the body as the document, endpoints included.
authorizationProviderResource ==
    /\ arm = NoConsent
    /\ provider' \in Configs
    /\ served' = NoAnswer
    /\ UNCHANGED <<authorization, made, arm, cache, work, clock, endpoint>>

\* The authorization goes with its provider (ON DELETE CASCADE).
DeleteAuthorizationProvider ==
    /\ arm = NoConsent /\ provider # NoRow
    /\ provider' = NoRow /\ authorization' = NoRow
    /\ served' = NoAnswer
    /\ UNCHANGED <<made, arm, cache, work, clock, endpoint>>

\* PUT creates, with the status of a new credential, or replaces, with none.
PutAuthorization ==
    /\ arm = NoConsent /\ provider # NoRow
    /\ \E g \in Grants :
          IF authorization = NoRow
          THEN /\ made < MaxMade
               /\ made' = made + 1
               /\ authorization' = [grant |-> g, status |-> NewStatus(g), made |-> made + 1]
          ELSE authorization' = [authorization EXCEPT !.grant = g, !.status = ""] /\ UNCHANGED made
    /\ served' = NoAnswer
    /\ UNCHANGED <<provider, arm, cache, work, clock, endpoint>>

\* PATCH keeps the status, also when it changes the grant.
PatchAuthorization ==
    /\ arm = NoConsent /\ authorization # NoRow
    /\ \E g \in Grants : authorization' = [authorization EXCEPT !.grant = g]
    /\ served' = NoAnswer
    /\ UNCHANGED <<provider, made, arm, cache, work, clock, endpoint>>

DeleteAuthorization ==
    /\ arm = NoConsent /\ authorization # NoRow
    /\ authorization' = NoRow
    /\ served' = NoAnswer
    /\ UNCHANGED <<provider, made, arm, cache, work, clock, endpoint>>

\* confirmConsentCode: only for the authorization-code grant, and only the
\* provider's configuration can stop it before the exchange.
authorizationAction ==
    /\ arm = NoConsent /\ authorization # NoRow /\ authorization.grant = "authorizationCode"
    /\ arm' = IF provider = "whole" THEN [step |-> "exchange", now |-> clock] ELSE [NoConsent EXCEPT !.step = "Error"]
    /\ served' = NoAnswer
    /\ UNCHANGED <<rows, cache, work, clock, endpoint>>

\* ExpiresAt for a lifetime the endpoint answered with; 0 when it did not say.
ExpiresAt(now, life) == IF life = 0 THEN 0 ELSE now + life

\* post: a token that began at the endpoint just now.
NewToken(now, life, refresh, by, m) ==
    [refresh |-> refresh, expires |-> ExpiresAt(now, life), ends |-> clock + life, by |-> by, made |-> m]

\* CredentialConfirmConsent: the endpoint's answer to the code.  A token that
\* cannot be renewed is refused, like an error; a good one is cached.
CredentialConfirmConsent ==
    /\ arm.step = "exchange"
    /\ \/ arm' = [NoConsent EXCEPT !.step = "Error"] /\ UNCHANGED <<cache, endpoint>>
       \/ /\ issued < MaxGrants
          /\ issued' = issued + 1 /\ live' = live \cup {issued + 1}
          /\ \E life \in Lives :
                cache' = NewToken(arm.now, life, issued + 1, "consent", authorization.made)
          /\ arm' = [NoConsent EXCEPT !.step = "Connected"]
          /\ UNCHANGED <<rotates, lost>>
    /\ served' = NoAnswer
    /\ UNCHANGED <<rows, work, clock>>

\* Mutant: the status is recorded before the exchange has an outcome.
RecordedEarly ==
    /\ arm # NoConsent
    /\ authorization' = [authorization EXCEPT !.status = arm.step]
    /\ arm' = NoConsent
    /\ served' = NoAnswer
    /\ UNCHANGED <<provider, made, cache, work, clock, endpoint>>

\* The outcome of the consent is written to the row the handler read.
recordAuthorizationStatus ==
    /\ arm.step \in {"Connected", "Error"}
    /\ authorization' = [authorization EXCEPT !.status = arm.step]
    /\ arm' = NoConsent
    /\ served' = NoAnswer
    /\ UNCHANGED <<provider, made, cache, work, clock, endpoint>>

-----------------------------------------------------------------------------
\* The gateway: fetchCredential, step by step.

Go(w, s) == work' = [work EXCEPT ![w] = s]
At(w, pc) == work[w].pc = pc

\* The provider's row.  Without one, or with one that providerConfig will
\* refuse, the request fails and leaves nothing behind.
GetAuthorizationProvider(w) ==
    /\ At(w, "idle") /\ provider = "whole"
    /\ Go(w, [Idle EXCEPT !.pc = "authorization"])
    /\ served' = NoAnswer
    /\ UNCHANGED <<rows, arm, cache, clock, endpoint>>

GetAuthorization(w) ==
    /\ At(w, "authorization")
    /\ Go(w, IF authorization = NoRow THEN Idle
             ELSE [work[w] EXCEPT !.pc = "token", !.grant = authorization.grant, !.made = authorization.made])
    /\ served' = NoAnswer
    /\ UNCHANGED <<rows, arm, cache, clock, endpoint>>

\* Mutant: the skew is added to the wrong side.
ExpiredLate(token, now) == token.expires # 0 /\ now >= token.expires + 1

\* Token.Expired: one unit early, and never when the endpoint named no end.
Expired(token, now) == token.expires # 0 /\ now + 1 >= token.expires

\* The cached token is the answer, unless it is about to end.
Lookup(w) ==
    /\ At(w, "token")
    /\ IF cache # NoToken /\ ~Expired(cache, clock)
       THEN served' = [token |-> cache, made |-> work[w].made, cached |-> TRUE] /\ Go(w, Idle)
       ELSE served' = NoAnswer /\ Go(w, [work[w] EXCEPT !.pc = "acquire", !.now = clock])
    /\ UNCHANGED <<rows, arm, cache, clock, endpoint>>

\* acquire: client credentials need nothing; an authorization code needs the
\* refresh token an earlier consent left in the cache.
acquire(w) ==
    /\ At(w, "acquire")
    /\ \/ /\ work[w].grant = "clientCredentials"
          /\ Go(w, [work[w] EXCEPT !.pc = "exchange"])
       \/ /\ work[w].grant = "authorizationCode"
          /\ Go(w, IF cache = NoToken \/ cache.refresh = 0 THEN Idle
                   ELSE [work[w] EXCEPT !.pc = "exchange", !.refresh = cache.refresh])
    /\ served' = NoAnswer
    /\ UNCHANGED <<rows, arm, cache, clock, endpoint>>

\* ClientCredentials: the endpoint answers with a token.  It is not meant to
\* send a refresh token with this grant; post keeps one that comes.
ClientCredentials(w) ==
    /\ At(w, "exchange") /\ work[w].grant = "clientCredentials"
    /\ \E life \in Lives, given \in {0, issued + 1} :
          /\ given <= MaxGrants
          /\ issued' = IF given = 0 THEN issued ELSE given
          /\ live' = live \cup ({given} \ {0})
          /\ Go(w, [work[w] EXCEPT !.pc = "store",
                                   !.token = NewToken(work[w].now, life, given, "client", work[w].made)])
    /\ served' = NoAnswer
    /\ UNCHANGED <<rows, arm, cache, clock, rotates, lost>>

\* Mutant: the refresh token of the reply is not looked at.
CarriedOld(old, answered) == old

\* Refresh: a reply without a refresh token leaves the old one in force.
Carried(old, answered) == IF answered = 0 THEN old ELSE answered

\* Refresh: the endpoint accepts a refresh token it knows, and a provider
\* that rotates puts another in its place.
Refresh(w) ==
    /\ At(w, "exchange") /\ work[w].refresh \in live
    /\ rotates => issued < MaxGrants
    /\ issued' = IF rotates THEN issued + 1 ELSE issued
    /\ live' = IF rotates THEN (live \ {work[w].refresh}) \cup {issued + 1} ELSE live
    /\ LET answered == IF rotates THEN issued + 1 ELSE 0
           kept == Carried(work[w].refresh, answered)
       IN  \/ /\ \E life \in Lives :
                    Go(w, [work[w] EXCEPT !.pc = "store",
                                          !.token = NewToken(work[w].now, life, kept, "refresh", work[w].made)])
              /\ UNCHANGED lost
           \/ Go(w, Idle) /\ lost' = (lost \/ rotates)  \* the answer comes too late
    /\ served' = NoAnswer
    /\ UNCHANGED <<rows, arm, cache, clock, rotates>>

\* post fails: refused, unreachable, or an answer that is no token.
Fail(w) ==
    /\ At(w, "exchange")
    /\ Go(w, Idle)
    /\ served' = NoAnswer
    /\ UNCHANGED <<rows, arm, cache, clock, endpoint>>

\* The new token is cached and answered with.
Store(w) ==
    /\ At(w, "store")
    /\ cache' = work[w].token
    /\ served' = [token |-> work[w].token, made |-> work[w].made, cached |-> FALSE]
    /\ Go(w, Idle)
    /\ UNCHANGED <<rows, arm, clock, endpoint>>

fetchCredential(w) ==
    \/ GetAuthorizationProvider(w) \/ GetAuthorization(w) \/ Lookup(w)
    \/ acquire(w) \/ ClientCredentials(w) \/ Refresh(w) \/ Fail(w) \/ Store(w)

\* The process ends and starts again: what is in memory is gone.
Restart ==
    /\ cache' = NoToken
    /\ work' = [w \in Workers |-> Idle]
    /\ arm' = NoConsent
    /\ served' = NoAnswer
    /\ UNCHANGED <<rows, clock, endpoint>>

Tick ==
    /\ clock < MaxTime
    /\ clock' = clock + 1
    /\ served' = NoAnswer
    /\ UNCHANGED <<rows, arm, cache, work, endpoint>>

Manage ==
    \/ authorizationProviderResource \/ DeleteAuthorizationProvider
    \/ PutAuthorization \/ PatchAuthorization \/ DeleteAuthorization
    \/ authorizationAction \/ CredentialConfirmConsent \/ recordAuthorizationStatus

Next == Manage \/ (\E w \in Workers : fetchCredential(w)) \/ Restart \/ Tick

Spec == Init /\ [][Next]_vars

-----------------------------------------------------------------------------
\* A cached token handed to a policy outlasts the skew at the provider,
\* whoever obtained it and however long its exchange took: ExpiresAt is
\* counted from before the exchange.  A token whose lifetime the endpoint did
\* not name is answered with for ever, and one just obtained is not looked at.
ServedTokenIsLive ==
    served # NoAnswer /\ served.cached /\ served.token.expires # 0 => clock + 1 < served.token.ends

\* What the cache holds can be renewed: the refresh token of a cached token is
\* one the provider still accepts, after any number of concurrent renewals,
\* reconnections and changes of grant, and a token from a consent or a renewal
\* has one.  The exceptions are a renewal that is about to be stored, and an
\* answer that rotated a refresh token and came too late.  This is no promise
\* that a consent stays in the cache: a client-credentials renewal in flight
\* while the grant is patched and a person consents overwrites it (put), and a
\* restart empties the cache.
CachedGrantIsLive ==
    cache # NoToken /\ ~lost /\ (\A w \in Workers : work[w].pc # "store")
        => cache.refresh \in live \/ (cache.by = "client" /\ cache.refresh = 0)

\* A deleted credential is not served from memory afterwards: a request that
\* found the present authorization is not answered with a token obtained for
\* an earlier one.
DeletedIsNotServed == served # NoAnswer => served.token.made >= served.made
=============================================================================

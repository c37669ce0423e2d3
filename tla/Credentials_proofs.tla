------------------------- MODULE Credentials_proofs -------------------------
(***************************************************************************)
(* Proofs about the credential manager, for any number of gateway          *)
(* requests, lifetimes, refresh tokens, authorizations and restarts.       *)
(***************************************************************************)
EXTENDS Credentials, TLAPS

(***************************************************************************)
(* What the invariants are about.                                          *)
(***************************************************************************)
\* A token's own idea of its end is no later than the endpoint's.
Honest(token) == token # NoToken /\ token.expires # 0 => token.expires <= token.ends

\* A consent holds mutationMu, so its row stays; exchanges began in the past;
\* what a gateway request stores came from a renewal, with a refresh token, or
\* from the client's own credentials.
InFlight ==
    /\ arm # NoConsent => authorization # NoRow
    /\ arm.now <= clock
    /\ \A w \in Workers :
          /\ work[w].now <= clock
          /\ work[w].pc = "store" =>
                /\ work[w].token # NoToken
                /\ work[w].token.refresh = 0 => work[w].token.by = "client"

Lifetimes == Honest(cache) /\ \A w \in Workers : Honest(work[w].token)

\* A new refresh token, or a confirmed one, is on its way to the cache.
Renewed(w) == work[w].pc = "store" /\ work[w].token.refresh # 0

\* Refresh tokens in use were issued; 0 is none.
Known ==
    /\ live \subseteq 1..issued
    /\ cache # NoToken =>
          /\ cache.refresh <= issued
          /\ cache.refresh = 0 => cache.by = "client"
    /\ \A w \in Workers :
          /\ work[w].refresh <= issued
          /\ work[w].pc = "store" => work[w].token.refresh <= issued

\* The provider accepts what a renewal is about to store, and where it rotates
\* nobody else has that refresh token yet, so nobody can use it up.
RenewalIsLive ==
    \A w \in Workers : Renewed(w) =>
        /\ work[w].token.refresh \in live
        /\ rotates =>
              /\ cache # NoToken => cache.refresh # work[w].token.refresh
              /\ \A v \in Workers \ {w} :
                    /\ work[v].refresh # work[w].token.refresh
                    /\ Renewed(v) => work[v].token.refresh # work[w].token.refresh

\* A cached refresh token that was used up has a successor on its way, unless
\* an answer was lost.
SuccessorComes ==
    cache # NoToken /\ cache.refresh # 0 /\ ~lost /\ cache.refresh \notin live
        => rotates /\ \E w \in Workers : Renewed(w)

CredInv ==
    TypeOK /\ InFlight /\ Lifetimes /\ ServedTokenIsLive
        /\ Known /\ RenewalIsLive /\ SuccessorComes

USE DEF NoConsent

LEMMA ConstantFacts ==
    /\ MaxTime \in Nat /\ MaxGrants \in Nat /\ MaxMade \in Nat /\ 1 <= MaxMade /\ Lives \subseteq Nat
    /\ NoRow \notin Configs /\ NoRow \notin Authorization /\ NoToken \notin Token /\ NoAnswer \notin Answer
BY CredentialAssumption, AbsenceAssumption

\* A token from an exchange that began at t is well formed and honest.
LEMMA NewTokenFacts ==
    ASSUME clock \in 0..MaxTime, NEW t \in 0..MaxTime, t <= clock, NEW life \in Lives,
           NEW refresh \in 0..MaxGrants, NEW by \in {"consent", "refresh", "client"},
           NEW m \in 1..MaxMade
    PROVE  LET token == NewToken(t, life, refresh, by, m)
           IN  /\ token \in Token /\ token # NoToken /\ Honest(token)
               /\ token.refresh = refresh /\ token.by = by
<1> DEFINE token == NewToken(t, life, refresh, by, m)
<1>1. life \in Nat /\ clock + life \in Ends /\ ExpiresAt(t, life) \in Ends
  BY ConstantFacts DEF Ends, ExpiresAt
<1>2. token \in Token
  BY <1>1 DEF NewToken, Token
<1>3. token.expires # 0 => token.expires <= token.ends
  BY <1>1, ConstantFacts DEF NewToken, ExpiresAt
<1> QED BY <1>2, <1>3, ConstantFacts DEF NewToken, Honest

LEMMA IdleFacts ==
    /\ Idle.pc = "idle" /\ Idle.now = 0 /\ Idle.token = NoToken /\ Idle.refresh = 0
    /\ Idle \in [pc : {"idle", "authorization", "token", "acquire", "exchange", "store"},
                 grant : Grants, made : 1..MaxMade, now : 0..MaxTime,
                 token : Token \cup {NoToken}, refresh : 0..MaxGrants]
BY ConstantFacts DEF Idle, Grants

LEMMA CredInit == Init => CredInv
<1> SUFFICES ASSUME Init PROVE CredInv
  OBVIOUS
<1>1. TypeOK
  <2>1. arm \in [step : {"idle", "exchange", "Connected", "Error"}, now : 0..MaxTime]
    BY ConstantFacts DEF Init
  <2>2. rotates \in BOOLEAN /\ lost \in BOOLEAN /\ live \subseteq 1..MaxGrants
    BY DEF Init
  <2>3. made \in 0..MaxMade /\ clock \in 0..MaxTime /\ issued \in 0..MaxGrants
    BY ConstantFacts DEF Init
  <2> QED BY <2>1, <2>2, <2>3, IdleFacts DEF Init, TypeOK
<1>2. InFlight /\ Lifetimes /\ ServedTokenIsLive
  BY IdleFacts DEF Init, InFlight, Lifetimes, Honest, ServedTokenIsLive
<1>3. Known /\ RenewalIsLive /\ SuccessorComes
  BY IdleFacts DEF Init, Known, RenewalIsLive, SuccessorComes, Renewed
<1> QED BY <1>1, <1>2, <1>3 DEF CredInv

(***************************************************************************)
(* The management plane.                                                   *)
(***************************************************************************)
\* A step that leaves the tokens and the endpoint alone.
LEMMA SameTokens ==
    ASSUME CredInv, TypeOK', InFlight', UNCHANGED <<cache, work, endpoint>>, ServedTokenIsLive'
    PROVE  CredInv'
<1>1. UNCHANGED <<rotates, live, issued, lost>>
  BY DEF endpoint
<1>2. Lifetimes'
  BY DEF CredInv, Lifetimes, Honest
<1>3. Known'
  BY <1>1 DEF CredInv, Known
<1>4. RenewalIsLive'
  BY <1>1 DEF CredInv, RenewalIsLive, Renewed
<1>5. SuccessorComes'
  BY <1>1 DEF CredInv, SuccessorComes, Renewed
<1> QED BY <1>2, <1>3, <1>4, <1>5 DEF CredInv

LEMMA RowsStep ==
    ASSUME CredInv,
           \/ authorizationProviderResource \/ DeleteAuthorizationProvider \/ PutAuthorization
           \/ PatchAuthorization \/ DeleteAuthorization \/ authorizationAction
           \/ recordAuthorizationStatus
    PROVE  CredInv'
<1>1. /\ UNCHANGED <<cache, work, clock, endpoint>> /\ served' = NoAnswer
  BY DEF authorizationProviderResource, DeleteAuthorizationProvider, PutAuthorization, rows,
         PatchAuthorization, DeleteAuthorization, authorizationAction, recordAuthorizationStatus
<1>2. /\ provider \in Configs \cup {NoRow} /\ authorization \in Authorization \cup {NoRow}
      /\ made \in 0..MaxMade /\ clock \in 0..MaxTime
      /\ arm \in [step : {"idle", "exchange", "Connected", "Error"}, now : 0..MaxTime]
      /\ arm # NoConsent => authorization # NoRow
      /\ arm.now <= clock
  BY DEF CredInv, TypeOK, InFlight
<1>3. /\ provider' \in Configs \cup {NoRow} /\ authorization' \in Authorization \cup {NoRow}
      /\ made' \in 0..MaxMade
  <2>1. CASE PutAuthorization
    <3>1. PICK g \in Grants :
             IF authorization = NoRow
             THEN /\ made < MaxMade
                  /\ made' = made + 1
                  /\ authorization' = [grant |-> g, status |-> NewStatus(g), made |-> made + 1]
             ELSE authorization' = [authorization EXCEPT !.grant = g, !.status = ""] /\ UNCHANGED made
      BY <2>1 DEF PutAuthorization
    <3>2. NewStatus(g) \in {"", "Connected", "Error"}
      BY DEF NewStatus
    <3>3. CASE authorization = NoRow
      <4>1. /\ made < MaxMade /\ made' = made + 1
            /\ authorization' = [grant |-> g, status |-> NewStatus(g), made |-> made + 1]
        BY <3>1, <3>3
      <4>2. made + 1 \in 1..MaxMade /\ made' \in 0..MaxMade
        BY <1>2, <4>1, ConstantFacts
      <4>3. authorization' \in Authorization
        BY <3>2, <4>1, <4>2 DEF Authorization
      <4>4. provider' = provider
        BY <2>1 DEF PutAuthorization
      <4> QED BY <1>2, <4>2, <4>3, <4>4
    <3>4. CASE authorization # NoRow
      <4>1. authorization' \in Authorization
        BY <1>2, <3>1, <3>4 DEF Authorization
      <4> QED BY <1>2, <2>1, <3>1, <3>4, <4>1 DEF PutAuthorization
    <3> QED BY <3>3, <3>4
  <2>2. CASE PatchAuthorization
    BY <1>2, <2>2 DEF PatchAuthorization, Authorization
  <2>3. CASE recordAuthorizationStatus
    <3>1. authorization \in Authorization
      BY <1>2, <2>3 DEF recordAuthorizationStatus
    <3>2. arm.step \in {"", "Connected", "Error"}
      BY <2>3 DEF recordAuthorizationStatus
    <3>3. authorization' \in Authorization
      BY <2>3, <3>1, <3>2 DEF recordAuthorizationStatus, Authorization
    <3> QED BY <1>2, <2>3, <3>3 DEF recordAuthorizationStatus
  <2>4. CASE \/ authorizationProviderResource \/ DeleteAuthorizationProvider
             \/ DeleteAuthorization \/ authorizationAction
    BY <1>2, <2>4 DEF authorizationProviderResource, DeleteAuthorizationProvider,
                      DeleteAuthorization, authorizationAction, rows
  <2> QED BY <2>1, <2>2, <2>3, <2>4
<1>4. /\ arm' \in [step : {"idle", "exchange", "Connected", "Error"}, now : 0..MaxTime]
      /\ arm' # NoConsent => authorization' # NoRow
      /\ arm'.now <= clock
  <2>1. CASE authorizationAction
    BY <1>2, <2>1, ConstantFacts DEF authorizationAction, rows
  <2>2. CASE recordAuthorizationStatus
    BY <1>2, <2>2, ConstantFacts DEF recordAuthorizationStatus
  <2>3. CASE \/ authorizationProviderResource \/ DeleteAuthorizationProvider \/ PutAuthorization
             \/ PatchAuthorization \/ DeleteAuthorization
    <3>1. arm = NoConsent /\ arm' = arm
      BY <2>3 DEF authorizationProviderResource, DeleteAuthorizationProvider, PutAuthorization,
                  PatchAuthorization, DeleteAuthorization
    <3> QED BY <1>2, <3>1
  <2> QED BY <2>1, <2>2, <2>3
<1>5. TypeOK'
  BY <1>1, <1>3, <1>4 DEF CredInv, TypeOK, endpoint
<1>6. InFlight'
  BY <1>1, <1>4 DEF CredInv, InFlight
<1>7. ServedTokenIsLive'
  BY <1>1 DEF ServedTokenIsLive
<1> QED BY <1>1, <1>5, <1>6, <1>7, SameTokens

\* The answer to a code: the consent's token comes with a refresh token nobody
\* has seen.
LEMMA ConsentStep ==
    ASSUME CredInv, CredentialConfirmConsent
    PROVE  CredInv'
<1>1. /\ UNCHANGED <<provider, authorization, made, work, clock>> /\ served' = NoAnswer
      /\ arm.step = "exchange"
  BY DEF CredentialConfirmConsent, rows
<1>2. authorization \in Authorization /\ arm.now \in 0..MaxTime /\ arm.now <= clock /\ clock \in 0..MaxTime
  BY <1>1 DEF CredInv, TypeOK, InFlight
<1>3. /\ arm' \in [step : {"idle", "exchange", "Connected", "Error"}, now : 0..MaxTime]
      /\ arm'.now <= clock
  BY <1>2, ConstantFacts DEF CredentialConfirmConsent
<1>4. InFlight'
  BY <1>1, <1>2, <1>3, ConstantFacts DEF CredInv, InFlight
<1>5. ServedTokenIsLive'
  BY <1>1 DEF ServedTokenIsLive
<1>6. CASE UNCHANGED <<cache, endpoint>>
  <2>1. TypeOK'
    BY <1>1, <1>3, <1>6 DEF CredInv, TypeOK, endpoint
  <2> QED BY <1>1, <1>4, <1>5, <1>6, <2>1, SameTokens
<1>7. CASE /\ issued < MaxGrants
           /\ issued' = issued + 1 /\ live' = live \cup {issued + 1}
           /\ \E life \in Lives :
                 cache' = NewToken(arm.now, life, issued + 1, "consent", authorization.made)
           /\ UNCHANGED <<rotates, lost>>
  <2>1. /\ issued \in 0..MaxGrants /\ issued + 1 \in 0..MaxGrants /\ issued + 1 \in 1..MaxGrants
        /\ live \subseteq 1..issued
    BY <1>7, ConstantFacts DEF CredInv, TypeOK, Known
  <2>2. /\ cache' \in Token /\ cache' # NoToken /\ Honest(cache')
        /\ cache'.refresh = issued + 1 /\ cache'.by = "consent"
    <3>1. PICK life \in Lives :
             cache' = NewToken(arm.now, life, issued + 1, "consent", authorization.made)
      BY <1>7
    <3>2. authorization.made \in 1..MaxMade
      BY <1>2 DEF Authorization
    <3> QED BY <1>2, <2>1, <3>1, <3>2, NewTokenFacts
  <2>3. TypeOK'
    <3>1. live' \subseteq 1..MaxGrants /\ issued' \in 0..MaxGrants
      BY <1>7, <2>1 DEF CredInv, TypeOK
    <3> QED BY <1>1, <1>3, <1>7, <2>2, <3>1 DEF CredInv, TypeOK
  <2>4. Lifetimes'
    BY <1>1, <2>2 DEF CredInv, Lifetimes, Honest
  <2>5. Known'
    <3>1. live' \subseteq 1..issued'
      BY <1>7, <2>1
    <3>2. ASSUME NEW w \in Workers
          PROVE  /\ work'[w].refresh <= issued'
                 /\ work'[w].pc = "store" => work'[w].token.refresh <= issued'
      <4>1. work[w].refresh \in 0..MaxGrants
        BY DEF CredInv, TypeOK
      <4>2. work[w].pc = "store" => work[w].token.refresh \in 0..MaxGrants
        BY DEF CredInv, TypeOK, InFlight, Token
      <4> QED BY <1>1, <1>7, <2>1, <4>1, <4>2 DEF CredInv, Known
    <3> QED BY <1>7, <2>1, <2>2, <3>1, <3>2 DEF Known
  <2>6. RenewalIsLive'
    <3>1. \A w \in Workers : Renewed(w)' = Renewed(w)
      BY <1>1 DEF Renewed
    <3>2. ASSUME NEW w \in Workers, Renewed(w)
          PROVE  cache'.refresh # work[w].token.refresh
      BY <2>1, <2>2, <3>2 DEF CredInv, RenewalIsLive
    <3> QED BY <1>1, <1>7, <3>1, <3>2 DEF CredInv, RenewalIsLive
  <2>7. SuccessorComes'
    BY <1>7, <2>2 DEF SuccessorComes
  <2> QED BY <1>4, <1>5, <2>3, <2>4, <2>5, <2>6, <2>7 DEF CredInv
<1> QED BY <1>6, <1>7 DEF CredentialConfirmConsent

(***************************************************************************)
(* The gateway.                                                            *)
(***************************************************************************)
WorkState ==
    [pc : {"idle", "authorization", "token", "acquire", "exchange", "store"},
     grant : Grants, made : 1..MaxMade, now : 0..MaxTime,
     token : Token \cup {NoToken}, refresh : 0..MaxGrants]

\* A request that moves on with no token in hand and no refresh token but the
\* cache's disturbs nobody.
LEMMA MoveOn ==
    ASSUME CredInv, NEW w \in Workers, NEW s \in WorkState, Go(w, s),
           s.pc # "store", s.now <= clock, s.token = NoToken \/ s.token = work[w].token,
           s.refresh = 0 \/ s.refresh = work[w].refresh
             \/ (cache # NoToken /\ s.refresh = cache.refresh),
           work[w].pc # "store",
           UNCHANGED <<rows, arm, cache, clock, endpoint>>,
           served' \in Answer \cup {NoAnswer}, ServedTokenIsLive'
    PROVE  CredInv'
<1>1. /\ UNCHANGED <<provider, authorization, made, arm, cache, clock, rotates, live, issued, lost>>
      /\ work \in [Workers -> WorkState]
  BY DEF rows, endpoint, CredInv, TypeOK, WorkState
<1>2. work' \in [Workers -> WorkState] /\ work'[w] = s /\ \A v \in Workers \ {w} : work'[v] = work[v]
  BY <1>1 DEF Go
<1>3. TypeOK'
  BY <1>1, <1>2 DEF CredInv, TypeOK, WorkState
<1>4. InFlight'
  BY <1>1, <1>2 DEF CredInv, InFlight
<1>5. Lifetimes'
  BY <1>1, <1>2 DEF CredInv, Lifetimes, Honest
<1>6. s.refresh <= issued
  BY <1>1 DEF CredInv, TypeOK, Known
<1>7. Known'
  BY <1>1, <1>2, <1>6 DEF CredInv, Known
<1>8. \A v \in Workers : Renewed(v)' => v # w /\ Renewed(v)
  BY <1>2 DEF Renewed
<1>9. RenewalIsLive'
  <2>1. ASSUME NEW v \in Workers, Renewed(v)', rotates
        PROVE  s.refresh # work[v].token.refresh
    <3>1. v # w /\ Renewed(v) /\ work[v].token.refresh \in live /\ live \subseteq 1..MaxGrants
      BY <1>8, <2>1 DEF CredInv, RenewalIsLive, TypeOK
    <3>2. work[v].token.refresh # 0
      BY <3>1
    <3> QED BY <2>1, <3>1, <3>2 DEF CredInv, RenewalIsLive
  <2> QED BY <1>1, <1>2, <1>8, <2>1 DEF CredInv, RenewalIsLive
<1>10. SuccessorComes'
  <2>1. \A v \in Workers : Renewed(v) => v # w /\ Renewed(v)'
    BY <1>2 DEF Renewed
  <2> QED BY <1>1, <2>1 DEF CredInv, SuccessorComes
<1> QED BY <1>3, <1>4, <1>5, <1>7, <1>9, <1>10 DEF CredInv

\* The steps before an exchange has an answer, and the ones that give up.
LEMMA LookStep ==
    ASSUME CredInv, NEW w \in Workers,
           \/ GetAuthorizationProvider(w) \/ GetAuthorization(w) \/ Lookup(w) \/ acquire(w) \/ Fail(w)
    PROVE  CredInv'
<1>1. work[w] \in WorkState /\ work[w].now <= clock /\ clock \in 0..MaxTime
  BY DEF CredInv, TypeOK, InFlight, WorkState
<1>2. UNCHANGED <<rows, arm, cache, clock, endpoint>> /\ work[w].pc # "store"
  BY DEF GetAuthorizationProvider, GetAuthorization, Lookup, acquire, Fail, At
<1>3. Idle \in WorkState /\ Idle.now <= clock
  BY <1>1, IdleFacts DEF WorkState
<1>4. ASSUME served' = NoAnswer PROVE ServedTokenIsLive'
  BY <1>4 DEF ServedTokenIsLive
<1>5. CASE GetAuthorizationProvider(w)
  <2> DEFINE s == [Idle EXCEPT !.pc = "authorization"]
  <2>1. /\ s \in WorkState /\ s.pc # "store" /\ s.now <= clock /\ s.token = NoToken /\ s.refresh = 0
    BY <1>1, <1>3, IdleFacts DEF WorkState
  <2>2. Go(w, s) /\ served' = NoAnswer
    BY <1>5 DEF GetAuthorizationProvider
  <2> HIDE DEF s
  <2> QED BY <1>2, <1>4, <2>1, <2>2, MoveOn
<1>6. CASE GetAuthorization(w)
  <2> DEFINE s == IF authorization = NoRow THEN Idle
                  ELSE [work[w] EXCEPT !.pc = "token", !.grant = authorization.grant, !.made = authorization.made]
  <2>1. authorization # NoRow => authorization.grant \in Grants /\ authorization.made \in 1..MaxMade
    BY DEF CredInv, TypeOK, Authorization
  <2>2. /\ s \in WorkState /\ s.pc # "store" /\ s.now <= clock
        /\ s.token = NoToken \/ s.token = work[w].token
        /\ s.refresh = 0 \/ s.refresh = work[w].refresh
    BY <1>1, <1>3, <2>1, IdleFacts DEF WorkState
  <2>3. Go(w, s) /\ served' = NoAnswer
    BY <1>6 DEF GetAuthorization
  <2> HIDE DEF s
  <2> QED BY <1>2, <1>4, <2>2, <2>3, MoveOn
<1>7. CASE Lookup(w)
  <2>1. CASE cache # NoToken /\ ~Expired(cache, clock)
    <3>1. served' = [token |-> cache, made |-> work[w].made, cached |-> TRUE] /\ Go(w, Idle)
      BY <1>7, <2>1 DEF Lookup
    <3>2. cache \in Token /\ work[w].made \in 1..MaxMade
      BY <1>1, <2>1 DEF CredInv, TypeOK, WorkState
    <3>3. served' \in Answer
      BY <3>1, <3>2 DEF Answer
    <3>4. cache.expires # 0 => clock + 1 < cache.ends
      <4>1. cache.expires \in Nat /\ cache.ends \in Nat
        BY <3>2, ConstantFacts DEF Token, Ends
      <4>2. cache.expires # 0 => cache.expires <= cache.ends
        BY <2>1 DEF CredInv, Lifetimes, Honest
      <4> QED BY <1>1, <2>1, <4>1, <4>2 DEF Expired
    <3>5. ServedTokenIsLive'
      BY <1>2, <3>1, <3>4 DEF ServedTokenIsLive
    <3> QED BY <1>2, <1>3, <3>1, <3>3, <3>5, IdleFacts, MoveOn
  <2>2. CASE ~(cache # NoToken /\ ~Expired(cache, clock))
    <3> DEFINE s == [work[w] EXCEPT !.pc = "acquire", !.now = clock]
    <3>1. served' = NoAnswer /\ Go(w, s)
      BY <1>7, <2>2 DEF Lookup
    <3>2. /\ s \in WorkState /\ s.pc # "store" /\ s.now <= clock
          /\ s.token = work[w].token /\ s.refresh = work[w].refresh
      <4>1. s.pc = "acquire" /\ s.now = clock /\ s.token = work[w].token /\ s.refresh = work[w].refresh
        BY <1>1 DEF WorkState
      <4>2. s \in WorkState
        BY <1>1 DEF WorkState
      <4> QED BY <1>1, <4>1, <4>2
    <3> HIDE DEF s
    <3> QED BY <1>2, <1>4, <3>1, <3>2, MoveOn
  <2> QED BY <2>1, <2>2
<1>8. CASE acquire(w)
  <2>1. PICK s \in {Idle, [work[w] EXCEPT !.pc = "exchange"],
                    [work[w] EXCEPT !.pc = "exchange", !.refresh = cache.refresh]} :
           /\ Go(w, s) /\ served' = NoAnswer
           /\ s = [work[w] EXCEPT !.pc = "exchange", !.refresh = cache.refresh] =>
                 s = [work[w] EXCEPT !.pc = "exchange"] \/ cache # NoToken
    <3>1. CASE work[w].grant = "clientCredentials"
      BY <1>8, <3>1 DEF acquire
    <3>2. CASE work[w].grant = "authorizationCode"
      <4>1. /\ Go(w, IF cache = NoToken \/ cache.refresh = 0 THEN Idle
                     ELSE [work[w] EXCEPT !.pc = "exchange", !.refresh = cache.refresh])
            /\ served' = NoAnswer
        BY <1>8, <3>2 DEF acquire
      <4>2. CASE cache = NoToken \/ cache.refresh = 0
        <5>1. Go(w, Idle)
          BY <4>1, <4>2
        <5>2. Idle # [work[w] EXCEPT !.pc = "exchange", !.refresh = cache.refresh]
          BY <1>1, IdleFacts DEF WorkState
        <5> QED BY <4>1, <5>1, <5>2
      <4>3. CASE ~(cache = NoToken \/ cache.refresh = 0)
        BY <4>1, <4>3
      <4> QED BY <4>2, <4>3
    <3> QED BY <1>8, <3>1, <3>2 DEF acquire
  <2>2. cache # NoToken => cache.refresh \in 0..MaxGrants
    BY DEF CredInv, TypeOK, Token
  <2>3. /\ s \in WorkState /\ s.pc # "store" /\ s.now <= clock
        /\ s.token = NoToken \/ s.token = work[w].token
        /\ s.refresh = 0 \/ s.refresh = work[w].refresh \/ (cache # NoToken /\ s.refresh = cache.refresh)
    <3>1. CASE s = Idle
      BY <1>3, <3>1, IdleFacts
    <3>2. CASE s = [work[w] EXCEPT !.pc = "exchange"]
      BY <1>1, <3>2 DEF WorkState
    <3>3. CASE s = [work[w] EXCEPT !.pc = "exchange", !.refresh = cache.refresh] /\ cache # NoToken
      BY <1>1, <2>2, <3>3 DEF WorkState
    <3> QED BY <2>1, <3>1, <3>2, <3>3
  <2> QED BY <1>2, <1>4, <2>1, <2>3, MoveOn
<1>9. CASE Fail(w)
  <2>1. Go(w, Idle) /\ served' = NoAnswer
    BY <1>9 DEF Fail
  <2> QED BY <1>2, <1>3, <1>4, <2>1, IdleFacts, MoveOn
<1> QED BY <1>5, <1>6, <1>7, <1>8, <1>9

\* Client credentials bring a token with no refresh token, or with one that
\* nobody has seen.
LEMMA ClientStep ==
    ASSUME CredInv, NEW w \in Workers, ClientCredentials(w)
    PROVE  CredInv'
<1>1. /\ work[w] \in WorkState /\ work[w].now <= clock /\ work[w].now \in 0..MaxTime /\ clock \in 0..MaxTime
      /\ work[w].made \in 1..MaxMade /\ work[w].pc = "exchange" /\ work \in [Workers -> WorkState]
      /\ issued \in 0..MaxGrants /\ live \subseteq 1..issued
  BY DEF CredInv, TypeOK, InFlight, Known, WorkState, ClientCredentials, At
<1>2. UNCHANGED <<provider, authorization, made, arm, cache, clock, rotates, lost>> /\ served' = NoAnswer
  BY DEF ClientCredentials, rows
<1>3. PICK life \in Lives, given \in {0, issued + 1} :
         /\ given <= MaxGrants
         /\ issued' = IF given = 0 THEN issued ELSE given
         /\ live' = live \cup ({given} \ {0})
         /\ Go(w, [work[w] EXCEPT !.pc = "store",
                                  !.token = NewToken(work[w].now, life, given, "client", work[w].made)])
  BY DEF ClientCredentials
<1> DEFINE token == NewToken(work[w].now, life, given, "client", work[w].made)
<1>4. /\ given \in 0..MaxGrants /\ given <= issued' /\ issued <= issued' /\ issued' \in 0..MaxGrants
      /\ live \subseteq live' /\ live' \subseteq 1..issued' /\ live' \subseteq 1..MaxGrants
      /\ given # 0 => given = issued + 1 /\ given \in live'
  <2>1. CASE given = 0
    BY <1>1, <1>3, <2>1, ConstantFacts
  <2>2. CASE given # 0
    BY <1>1, <1>3, <2>2, ConstantFacts
  <2> QED BY <2>1, <2>2
<1>5. token \in Token /\ token # NoToken /\ Honest(token) /\ token.refresh = given /\ token.by = "client"
  BY <1>1, <1>4, ConstantFacts, NewTokenFacts
<1>6. work' = [work EXCEPT ![w] = [work[w] EXCEPT !.pc = "store", !.token = token]]
  BY <1>3 DEF Go
<1> HIDE DEF token
<1>7. /\ work' \in [Workers -> WorkState] /\ work'[w].token = token /\ work'[w].pc = "store"
      /\ work'[w].refresh = work[w].refresh /\ work'[w].now = work[w].now
      /\ \A v \in Workers \ {w} : work'[v] = work[v]
  BY <1>1, <1>5, <1>6 DEF WorkState
<1>8. TypeOK'
  BY <1>2, <1>4, <1>7 DEF CredInv, TypeOK, WorkState
<1>9. InFlight' /\ ServedTokenIsLive'
  BY <1>2, <1>5, <1>7 DEF CredInv, InFlight, ServedTokenIsLive
<1>10. Lifetimes'
  BY <1>2, <1>5, <1>7 DEF CredInv, Lifetimes, Honest
<1>11. \A v \in Workers :
          /\ work[v].refresh \in Nat /\ work[v].refresh <= issued
          /\ work[v].pc = "store" => work[v].token.refresh \in Nat /\ work[v].token.refresh <= issued
  BY <1>1 DEF CredInv, Known, WorkState, InFlight, Token
<1>12. cache # NoToken => cache.refresh \in Nat /\ cache.refresh <= issued
  BY DEF CredInv, TypeOK, Known, Token
<1>13. Known'
  <2>1. ASSUME NEW v \in Workers
        PROVE  /\ work'[v].refresh <= issued'
               /\ work'[v].pc = "store" => work'[v].token.refresh <= issued'
    <3>1. work[v].refresh <= issued' /\ (work[v].pc = "store" => work[v].token.refresh <= issued')
      BY <1>1, <1>4, <1>11
    <3> QED BY <1>4, <1>5, <1>7, <3>1
  <2>2. cache # NoToken => cache.refresh <= issued'
    BY <1>1, <1>4, <1>12
  <2> QED BY <1>2, <1>4, <2>1, <2>2 DEF CredInv, Known
<1>14. \A v \in Workers : (v # w => Renewed(v)' = Renewed(v)) /\ (Renewed(v) => v # w)
  BY <1>1, <1>7 DEF Renewed
<1>15. Renewed(w)' => given # 0
  BY <1>5, <1>7 DEF Renewed
<1>16. RenewalIsLive'
  <2>1. ASSUME NEW v \in Workers, v # w, Renewed(v), rotates
        PROVE  Renewed(w)' => token.refresh # work[v].token.refresh
    <3>1. work[v].token.refresh <= issued /\ work[v].token.refresh \in Nat
      BY <1>11, <2>1 DEF Renewed
    <3> QED BY <1>1, <1>4, <1>5, <1>15, <3>1
  <2>2. ASSUME NEW v \in Workers, v # w, Renewed(v)
        PROVE  /\ work'[v].token.refresh \in live'
               /\ rotates' =>
                     /\ cache' # NoToken => cache'.refresh # work'[v].token.refresh
                     /\ \A u \in Workers \ {v} :
                           /\ work'[u].refresh # work'[v].token.refresh
                           /\ Renewed(u)' => work'[u].token.refresh # work'[v].token.refresh
    <3>1. /\ work[v].token.refresh \in live
          /\ rotates =>
                /\ cache # NoToken => cache.refresh # work[v].token.refresh
                /\ \A u \in Workers \ {v} :
                      /\ work[u].refresh # work[v].token.refresh
                      /\ Renewed(u) => work[u].token.refresh # work[v].token.refresh
      BY <2>2 DEF CredInv, RenewalIsLive
    <3>2. ASSUME rotates, NEW u \in Workers \ {v}
          PROVE  /\ work'[u].refresh # work[v].token.refresh
                 /\ Renewed(u)' => work'[u].token.refresh # work[v].token.refresh
      <4>1. CASE u = w
        BY <1>7, <2>1, <2>2, <3>1, <3>2, <4>1
      <4>2. CASE u # w
        BY <1>7, <1>14, <3>1, <3>2, <4>2
      <4> QED BY <4>1, <4>2
    <3> QED BY <1>2, <1>4, <1>7, <2>2, <3>1, <3>2
  <2>3. ASSUME Renewed(w)'
        PROVE  /\ work'[w].token.refresh \in live'
               /\ rotates' =>
                     /\ cache' # NoToken => cache'.refresh # work'[w].token.refresh
                     /\ \A u \in Workers \ {w} :
                           /\ work'[u].refresh # work'[w].token.refresh
                           /\ Renewed(u)' => work'[u].token.refresh # work'[w].token.refresh
    <3>1. work'[w].token.refresh = issued + 1 /\ issued + 1 \in live'
      BY <1>4, <1>5, <1>7, <1>15, <2>3
    <3>2. cache # NoToken => cache.refresh # issued + 1
      BY <1>1, <1>12
    <3>3. ASSUME NEW u \in Workers \ {w}
          PROVE  work[u].refresh # issued + 1 /\ (Renewed(u) => work[u].token.refresh # issued + 1)
      BY <1>1, <1>11 DEF Renewed
    <3> QED BY <1>2, <1>7, <1>14, <3>1, <3>2, <3>3
  <2> QED BY <1>14, <2>2, <2>3 DEF RenewalIsLive
<1>17. SuccessorComes'
  <2>1. \A v \in Workers : Renewed(v) => Renewed(v)'
    BY <1>14
  <2> QED BY <1>2, <1>4, <2>1 DEF CredInv, SuccessorComes
<1> QED BY <1>8, <1>9, <1>10, <1>13, <1>16, <1>17 DEF CredInv

\* A renewal: the provider takes the refresh token back and, where it rotates,
\* gives another that only this request has.
LEMMA RefreshStep ==
    ASSUME CredInv, NEW w \in Workers, Refresh(w)
    PROVE  CredInv'
<1> DEFINE old == work[w].refresh
           answered == IF rotates THEN issued + 1 ELSE 0
           kept == Carried(old, answered)
<1>1. /\ work[w] \in WorkState /\ work[w].now <= clock /\ work[w].now \in 0..MaxTime /\ clock \in 0..MaxTime
      /\ work[w].made \in 1..MaxMade /\ work[w].pc = "exchange" /\ work \in [Workers -> WorkState]
      /\ issued \in 0..MaxGrants /\ live \subseteq 1..issued /\ old \in live /\ old \in 1..MaxGrants
      /\ rotates \in BOOLEAN /\ lost \in BOOLEAN
  BY DEF CredInv, TypeOK, InFlight, Known, WorkState, Refresh, At
<1>2. UNCHANGED <<provider, authorization, made, arm, cache, clock, rotates>> /\ served' = NoAnswer
  BY DEF Refresh, rows
<1>3. /\ issued' \in 0..MaxGrants /\ issued <= issued' /\ live' \subseteq 1..issued'
      /\ kept \in live' /\ kept \in 1..MaxGrants
      /\ rotates => issued' = issued + 1 /\ kept = issued + 1 /\ live' = (live \ {old}) \cup {issued + 1}
      /\ ~rotates => issued' = issued /\ kept = old /\ live' = live
  <2>1. CASE rotates
    <3>1. issued < MaxGrants /\ issued' = issued + 1 /\ live' = (live \ {old}) \cup {issued + 1}
      BY <2>1 DEF Refresh
    <3>2. kept = issued + 1
      BY <1>1, <2>1 DEF Carried
    <3> HIDE DEF kept, old, answered
    <3> QED BY <1>1, <2>1, <3>1, <3>2, ConstantFacts
  <2>2. CASE ~rotates
    <3>1. issued' = issued /\ live' = live
      BY <2>2 DEF Refresh
    <3>2. kept = old
      BY <2>2 DEF Carried
    <3> QED BY <1>1, <2>2, <3>1, <3>2, ConstantFacts
  <2> QED BY <2>1, <2>2
<1>4. \/ /\ \E life \in Lives :
              Go(w, [work[w] EXCEPT !.pc = "store",
                                    !.token = NewToken(work[w].now, life, kept, "refresh", work[w].made)])
         /\ lost' = lost
      \/ Go(w, Idle) /\ lost' = (lost \/ rotates)
  BY DEF Refresh
<1>5. /\ \/ /\ work'[w].pc = "store" /\ work'[w].token \in Token /\ work'[w].token # NoToken
            /\ Honest(work'[w].token) /\ work'[w].token.by = "refresh" /\ work'[w].token.refresh = kept
            /\ work'[w].refresh = old /\ work'[w].now = work[w].now /\ lost' = lost
         \/ work'[w] = Idle /\ lost' = (lost \/ rotates)
      /\ work' \in [Workers -> WorkState] /\ \A v \in Workers \ {w} : work'[v] = work[v]
  <2> HIDE DEF kept, answered
  <2>1. CASE Go(w, Idle) /\ lost' = (lost \/ rotates)
    BY <1>1, <2>1, IdleFacts DEF Go, WorkState
  <2>2. CASE /\ \E life \in Lives :
                  Go(w, [work[w] EXCEPT !.pc = "store",
                                        !.token = NewToken(work[w].now, life, kept, "refresh", work[w].made)])
             /\ lost' = lost
    <3>1. PICK life \in Lives :
             Go(w, [work[w] EXCEPT !.pc = "store",
                                   !.token = NewToken(work[w].now, life, kept, "refresh", work[w].made)])
      BY <2>2
    <3> DEFINE token == NewToken(work[w].now, life, kept, "refresh", work[w].made)
    <3>2. token \in Token /\ token # NoToken /\ Honest(token) /\ token.refresh = kept /\ token.by = "refresh"
      <4>1. kept \in 0..MaxGrants
        BY <1>3
      <4> QED BY <1>1, <4>1, NewTokenFacts
    <3> HIDE DEF token
    <3>3. work' = [work EXCEPT ![w] = [work[w] EXCEPT !.pc = "store", !.token = token]]
      BY <3>1 DEF Go, token
    <3>4. /\ work' \in [Workers -> WorkState] /\ work'[w].token = token /\ work'[w].pc = "store"
          /\ work'[w].refresh = work[w].refresh /\ work'[w].now = work[w].now
          /\ \A v \in Workers \ {w} : work'[v] = work[v]
      BY <1>1, <3>2, <3>3 DEF WorkState
    <3> QED BY <2>2, <3>2, <3>4
  <2> QED BY <1>4, <2>1, <2>2
<1> HIDE DEF kept, old, answered
<1>6. TypeOK'
  <2>1. live' \subseteq 1..MaxGrants
    BY <1>3, ConstantFacts
  <2>2. lost' \in BOOLEAN
    BY <1>1, <1>4
  <2> QED BY <1>2, <1>3, <1>5, <2>1, <2>2 DEF CredInv, TypeOK, WorkState
<1>7. InFlight' /\ ServedTokenIsLive'
  <2>1. kept # 0
    BY <1>3
  <2> QED BY <1>1, <1>2, <1>5, <2>1, IdleFacts DEF CredInv, InFlight, ServedTokenIsLive
<1>8. Lifetimes'
  BY <1>2, <1>5, IdleFacts DEF CredInv, Lifetimes, Honest
<1>9. Known'
  <2>1. ASSUME NEW v \in Workers
        PROVE  /\ work'[v].refresh <= issued'
               /\ work'[v].pc = "store" => work'[v].token.refresh <= issued'
    <3>1. work[v].refresh \in Nat /\ work[v].refresh <= issued
      BY <1>1 DEF CredInv, Known, WorkState
    <3>2. work[v].pc = "store" => work[v].token.refresh \in Nat /\ work[v].token.refresh <= issued
      BY <1>1 DEF CredInv, Known, WorkState, InFlight, Token
    <3>3. CASE v # w
      BY <1>1, <1>3, <1>5, <3>1, <3>2, <3>3
    <3>4. CASE v = w
      <4>1. kept <= issued' /\ old <= issued' /\ 0 <= issued'
        BY <1>1, <1>3
      <4> QED BY <1>5, <3>4, <4>1, IdleFacts
    <3> QED BY <3>3, <3>4
  <2>2. cache # NoToken => cache.refresh <= issued'
    <3>1. cache # NoToken => cache.refresh \in Nat /\ cache.refresh <= issued
      BY DEF CredInv, TypeOK, Known, Token
    <3> QED BY <1>1, <1>3, <3>1
  <2> QED BY <1>2, <1>3, <2>1, <2>2 DEF CredInv, Known
<1>10. \A v \in Workers \ {w} : Renewed(v)' = Renewed(v)
  BY <1>5 DEF Renewed
<1>11. \A v \in Workers : Renewed(v) => v # w
  BY <1>1 DEF Renewed
<1>12. \A v \in Workers : Renewed(v) => work[v].token.refresh <= issued /\ work[v].token.refresh \in live
  BY DEF CredInv, Known, RenewalIsLive, Renewed
<1>13. RenewalIsLive'
  <2>1. ASSUME NEW v \in Workers, v # w, Renewed(v)
        PROVE  /\ work[v].token.refresh \in live'
               /\ rotates =>
                    /\ cache # NoToken => cache.refresh # work[v].token.refresh
                    /\ \A u \in Workers \ {v} :
                          /\ work'[u].refresh # work[v].token.refresh
                          /\ Renewed(u)' => work'[u].token.refresh # work[v].token.refresh
    <3>1. rotates => work[w].refresh # work[v].token.refresh
      BY <2>1 DEF CredInv, RenewalIsLive
    <3>2. work[v].token.refresh \in live'
      BY <1>1, <1>3, <1>12, <2>1, <3>1 DEF old
    <3>3. ASSUME rotates, NEW u \in Workers \ {v}
          PROVE  /\ work'[u].refresh # work[v].token.refresh
                 /\ Renewed(u)' => work'[u].token.refresh # work[v].token.refresh
      <4>1. CASE u # w
        BY <1>5, <1>10, <2>1, <3>3, <4>1 DEF CredInv, RenewalIsLive
      <4>2. CASE u = w
        <5>1. work'[w].refresh \in {old, 0}
          BY <1>5, IdleFacts
        <5>2. work[v].token.refresh # 0 /\ work[v].token.refresh # issued + 1
          BY <1>1, <1>12, <2>1
        <5>3. Renewed(w)' => work'[w].token.refresh = issued + 1
          BY <1>3, <1>5, <3>3, IdleFacts DEF Renewed
        <5> QED BY <3>1, <3>3, <4>2, <5>1, <5>2, <5>3 DEF old
      <4> QED BY <4>1, <4>2
    <3> QED BY <2>1, <3>2, <3>3 DEF CredInv, RenewalIsLive
  <2>2. ASSUME Renewed(w)'
        PROVE  /\ work'[w].token.refresh \in live'
               /\ rotates =>
                    /\ cache # NoToken => cache.refresh # work'[w].token.refresh
                    /\ \A u \in Workers \ {w} :
                          /\ work'[u].refresh # work'[w].token.refresh
                          /\ Renewed(u)' => work'[u].token.refresh # work'[w].token.refresh
    <3>1. work'[w].token.refresh = kept
      BY <1>5, <2>2, IdleFacts DEF Renewed
    <3>2. ASSUME rotates
          PROVE  /\ cache # NoToken => cache.refresh # issued + 1
                 /\ \A u \in Workers \ {w} :
                       /\ work[u].refresh # issued + 1
                       /\ Renewed(u) => work[u].token.refresh # issued + 1
      BY <1>1, <1>12 DEF CredInv, Known
    <3> QED BY <1>3, <1>5, <1>10, <3>1, <3>2
  <2> QED BY <1>2, <1>5, <1>10, <2>1, <2>2 DEF RenewalIsLive
<1>14. SuccessorComes'
  <2>1. CASE ~rotates
    <3>1. \A v \in Workers : Renewed(v) => Renewed(v)'
      BY <1>10, <1>11
    <3>2. lost' = lost
      BY <1>4, <2>1, <1>1
    <3> QED BY <1>2, <1>3, <2>1, <3>1, <3>2 DEF CredInv, SuccessorComes
  <2>2. CASE rotates
    <3>1. CASE lost'
      BY <3>1 DEF SuccessorComes
    <3>2. CASE ~lost'
      <4>1. Renewed(w)'
        <5>1. kept # 0
          BY <1>3
        <5> QED BY <1>5, <2>2, <3>2, <5>1 DEF Renewed
      <4> QED BY <1>2, <2>2, <4>1 DEF SuccessorComes
    <3> QED BY <3>1, <3>2
  <2> QED BY <2>1, <2>2
<1> QED BY <1>6, <1>7, <1>8, <1>9, <1>13, <1>14 DEF CredInv

\* What a renewal stores is live and nobody else's, so the cache may have it.
LEMMA StoreStep ==
    ASSUME CredInv, NEW w \in Workers, Store(w)
    PROVE  CredInv'
<1>1. /\ work[w] \in WorkState /\ work \in [Workers -> WorkState] /\ clock \in 0..MaxTime
      /\ work[w].pc = "store" /\ work[w].token \in Token /\ work[w].token # NoToken
      /\ work[w].made \in 1..MaxMade /\ issued \in 0..MaxGrants /\ live \subseteq 1..issued
  BY DEF CredInv, TypeOK, InFlight, Known, WorkState, Store, At
<1>2. /\ UNCHANGED <<provider, authorization, made, arm, clock, rotates, live, issued, lost>>
      /\ cache' = work[w].token
      /\ served' = [token |-> work[w].token, made |-> work[w].made, cached |-> FALSE]
  BY DEF Store, rows, endpoint
<1>3. /\ work' \in [Workers -> WorkState] /\ work'[w] = Idle
      /\ \A v \in Workers \ {w} : work'[v] = work[v]
  BY <1>1, IdleFacts DEF Store, Go, WorkState
<1>4. TypeOK'
  <2>1. served' \in Answer
    BY <1>1, <1>2 DEF Answer
  <2> QED BY <1>1, <1>2, <1>3, <2>1 DEF CredInv, TypeOK, WorkState
<1>5. InFlight'
  BY <1>1, <1>2, <1>3, IdleFacts DEF CredInv, InFlight
<1>6. ServedTokenIsLive'
  BY <1>2 DEF ServedTokenIsLive
<1>7. Lifetimes'
  BY <1>2, <1>3, IdleFacts DEF CredInv, Lifetimes, Honest
<1>8. Known'
  <2>1. work[w].token.refresh <= issued /\ (work[w].token.refresh = 0 => work[w].token.by = "client")
    BY <1>1 DEF CredInv, InFlight, Known
  <2> QED BY <1>1, <1>2, <1>3, <2>1, IdleFacts DEF CredInv, Known
<1>9. \A v \in Workers : Renewed(v)' => v # w /\ Renewed(v)
  BY <1>3, IdleFacts DEF Renewed
<1>10. \/ Renewed(w) /\ work[w].token.refresh \in live
       \/ work[w].token.refresh = 0
  BY <1>1 DEF CredInv, RenewalIsLive, Renewed
<1>11. RenewalIsLive'
  <2> SUFFICES ASSUME NEW v \in Workers, Renewed(v)'
               PROVE  /\ work[v].token.refresh \in live
                      /\ rotates =>
                            /\ work[w].token.refresh # work[v].token.refresh
                            /\ \A u \in Workers \ {v} :
                                  /\ work'[u].refresh # work[v].token.refresh
                                  /\ Renewed(u)' => work'[u].token.refresh # work[v].token.refresh
    BY <1>2, <1>3, <1>9 DEF RenewalIsLive
  <2>1. v # w /\ Renewed(v) /\ work[v].token.refresh \in live /\ work[v].token.refresh # 0
    BY <1>1, <1>9 DEF CredInv, RenewalIsLive
  <2>2. rotates => work[w].token.refresh # work[v].token.refresh
    BY <1>10, <2>1 DEF CredInv, RenewalIsLive
  <2>3. ASSUME rotates, NEW u \in Workers \ {v}
        PROVE  /\ work'[u].refresh # work[v].token.refresh
               /\ Renewed(u)' => work'[u].token.refresh # work[v].token.refresh
    <3>1. CASE u = w
      BY <1>3, <1>9, <2>1, <3>1, IdleFacts
    <3>2. CASE u # w
      BY <1>3, <1>9, <2>1, <2>3, <3>2 DEF CredInv, RenewalIsLive
    <3> QED BY <3>1, <3>2
  <2> QED BY <2>1, <2>2, <2>3
<1>12. SuccessorComes'
  BY <1>2, <1>10 DEF SuccessorComes
<1> QED BY <1>4, <1>5, <1>6, <1>7, <1>8, <1>11, <1>12 DEF CredInv

(***************************************************************************)
(* The process and the clock.                                              *)
(***************************************************************************)
LEMMA RestartStep ==
    ASSUME CredInv, Restart
    PROVE  CredInv'
<1>1. /\ UNCHANGED <<provider, authorization, made, clock, rotates, live, issued, lost>>
      /\ cache' = NoToken /\ served' = NoAnswer /\ arm' = NoConsent
      /\ work' = [v \in Workers |-> Idle]
  BY DEF Restart, rows, endpoint
<1>2. clock \in 0..MaxTime /\ issued \in 0..MaxGrants
  BY DEF CredInv, TypeOK
<1>3. TypeOK'
  <2>1. arm' \in [step : {"idle", "exchange", "Connected", "Error"}, now : 0..MaxTime]
    BY <1>1, ConstantFacts
  <2> QED BY <1>1, <2>1, IdleFacts DEF CredInv, TypeOK
<1>4. InFlight' /\ Lifetimes' /\ ServedTokenIsLive'
  BY <1>1, <1>2, IdleFacts DEF InFlight, Lifetimes, Honest, ServedTokenIsLive
<1>5. Known' /\ RenewalIsLive' /\ SuccessorComes'
  BY <1>1, <1>2, IdleFacts DEF CredInv, Known, RenewalIsLive, SuccessorComes, Renewed
<1> QED BY <1>3, <1>4, <1>5 DEF CredInv

LEMMA TickStep ==
    ASSUME CredInv, Tick
    PROVE  CredInv'
<1>1. UNCHANGED <<rows, arm, cache, work, endpoint>> /\ served' = NoAnswer
      /\ clock < MaxTime /\ clock' = clock + 1
  BY DEF Tick
<1>2. clock \in 0..MaxTime /\ clock' \in 0..MaxTime
  BY <1>1, ConstantFacts DEF CredInv, TypeOK
<1>3. TypeOK'
  BY <1>1, <1>2 DEF CredInv, TypeOK, rows, endpoint
<1>4. InFlight'
  <2>1. arm.now \in Nat /\ \A w \in Workers : work[w].now \in Nat
    BY DEF CredInv, TypeOK
  <2> QED BY <1>1, <1>2, <2>1 DEF CredInv, InFlight, rows
<1>5. ServedTokenIsLive'
  BY <1>1 DEF ServedTokenIsLive
<1> QED BY <1>1, <1>3, <1>4, <1>5, SameTokens

LEMMA CredStep == CredInv /\ [Next]_vars => CredInv'
<1> SUFFICES ASSUME CredInv, [Next]_vars PROVE CredInv'
  OBVIOUS
<1>1. CASE Manage
  BY <1>1, RowsStep, ConsentStep DEF Manage
<1>2. CASE \E w \in Workers : fetchCredential(w)
  BY <1>2, LookStep, ClientStep, RefreshStep, StoreStep DEF fetchCredential
<1>3. CASE Restart
  BY <1>3, RestartStep
<1>4. CASE Tick
  BY <1>4, TickStep
<1>5. CASE UNCHANGED vars
  <2>1. UNCHANGED <<provider, authorization, made, arm, cache, work, served, clock, endpoint>>
    BY <1>5 DEF vars, endpoint
  <2>2. TypeOK'
    BY <2>1 DEF CredInv, TypeOK, endpoint
  <2>3. InFlight' /\ ServedTokenIsLive'
    BY <2>1 DEF CredInv, InFlight, ServedTokenIsLive
  <2> QED BY <2>1, <2>2, <2>3, SameTokens
<1> QED BY <1>1, <1>2, <1>3, <1>4, <1>5 DEF Next

LEMMA CredInvariant == Spec => []CredInv
BY CredInit, CredStep, PTL DEF Spec

(***************************************************************************)
(* The theorems.                                                           *)
(***************************************************************************)
\* Every variable keeps its type: the rows, the consent in flight, the cache
\* and what the gateway's requests carry through an exchange.
THEOREM TypeCorrect == Spec => []TypeOK
<1>1. CredInv => TypeOK
  BY DEF CredInv
<1> QED BY <1>1, CredInvariant, PTL

\* A cached token that the gateway answers a policy with is still good at the
\* provider, the skew of Token.Expired included, for any lifetimes and however
\* the exchanges of concurrent requests overlap.
THEOREM ServedTokensLive == Spec => []ServedTokenIsLive
<1>1. CredInv => ServedTokenIsLive
  BY DEF CredInv
<1> QED BY <1>1, CredInvariant, PTL

\* The refresh token of a cached token is one the provider accepts, for any
\* number of requests that renew it at once against a provider that rotates
\* it, unless an answer of the provider was lost; that a consented token stays
\* in the cache is not claimed.
THEOREM GrantsKept == Spec => []CachedGrantIsLive
<1>1. CredInv => CachedGrantIsLive
  <2> SUFFICES ASSUME CredInv, cache # NoToken, ~lost, \A w \in Workers : work[w].pc # "store"
               PROVE  cache.refresh \in live \/ (cache.by = "client" /\ cache.refresh = 0)
    BY DEF CachedGrantIsLive
  <2>1. CASE cache.refresh = 0
    BY <2>1 DEF CredInv, Known
  <2>2. CASE cache.refresh # 0
    BY <2>2 DEF CredInv, SuccessorComes, Renewed
  <2> QED BY <2>1, <2>2
<1> QED BY <1>1, CredInvariant, PTL
=============================================================================

------------------------ MODULE AuthDecisions_proofs ------------------------
(***************************************************************************)
(* The decisions of AuthDecisions, proved for every configuration, token,  *)
(* answer of the identity provider, chain of redirects and history of a    *)
(* provider's tokens, of whatever length.                                  *)
(***************************************************************************)
EXTENDS AuthDecisions, FiniteSetTheorems, TLAPS, WellFoundedInduction

-----------------------------------------------------------------------------
(* Induction over the positions of a sequence, for the operators that go   *)
(* through one as the loops of the code do.  Both facts are stated with    *)
(* sets and functions, so that no theorem takes an operator as parameter.  *)

\* A set of positions that has 0 and, with each but the last, the next one, has all of them.
LEMMA PositionInduction ==
  ASSUME NEW L \in Nat, NEW Q, 0 \in Q,
         \A n \in 0..L : n < L /\ n \in Q => n + 1 \in Q
  PROVE  0..L \subseteq Q
<1> DEFINE Left == (0..L) \ Q
<1> SUFFICES ASSUME Left # {} PROVE FALSE
  OBVIOUS
<1>1. PICK m \in Left : \A k \in Left : ~ (<<k, m>> \in OpToRel(<, Nat))
  <2>1. Left \subseteq Nat /\ Left # {}
    OBVIOUS
  <2> HIDE DEF Left
  <2> QED
    BY <2>1, WFMin, NatLessThanWellFounded
<1>2. \A k \in Left : ~ (k < m)
  <2>1. Left \subseteq Nat
    OBVIOUS
  <2> HIDE DEF Left
  <2> QED
    BY <1>1, <2>1 DEF OpToRel
<1>3. m # 0 /\ m - 1 \in 0..L /\ m - 1 < m /\ m - 1 < L
  OBVIOUS
<1>4. m - 1 \in Q
  BY <1>2, <1>3
<1>5. m - 1 + 1 \in Q
  BY <1>3, <1>4
<1> QED
  BY <1>5

\* f starts with base and goes on by the step of each position.
Follows(f, L, base, step) == f[0] = base /\ \A n \in 1..L : f[n] = step[n][f[n - 1]]

\* A step taken at each position, from a first value, is a function on the positions.
LEMMA RecursionExists ==
  ASSUME NEW L \in Nat, NEW R, NEW base \in R, NEW step \in [1..L -> [R -> R]]
  PROVE  \E f \in [0..L -> R] : Follows(f, L, base, step)
<1> DEFINE Upto(k, f) == f[0] = base /\ \A n \in 1..k : f[n] = step[n][f[n - 1]]
           Q == {k \in 0..L : \E f \in [0..L -> R] : Upto(k, f)}
<1>1. 0 \in Q
  <2> DEFINE f0 == [n \in 0..L |-> base]
  <2>1. f0 \in [0..L -> R] /\ f0[0] = base
    OBVIOUS
  <2>2. Upto(0, f0)
    BY <2>1
  <2>3. 0 \in 0..L
    OBVIOUS
  <2> HIDE DEF Upto, f0
  <2> QED
    BY <2>1, <2>2, <2>3
<1>2. ASSUME NEW k \in 0..L, k < L, k \in Q PROVE k + 1 \in Q
  <2>1. PICK f \in [0..L -> R] : Upto(k, f)
    BY <1>2
  <2> DEFINE v == step[k + 1][f[k]]
             g == [f EXCEPT ![k + 1] = v]
  <2>2. v \in R
    <3>1. k + 1 \in 1..L
      BY <1>2
    <3>2. f[k] \in R
      OBVIOUS
    <3> QED
      BY <3>1, <3>2
  <2>3. g \in [0..L -> R]
    BY <2>2
  <2>4. k + 1 \in 0..L /\ g[k + 1] = v /\ \A n \in 0..k : g[n] = f[n]
    <3>1. k + 1 \in 0..L /\ \A n \in 0..k : n \in 0..L /\ n # k + 1
      BY <1>2
    <3> HIDE DEF v
    <3> QED
      BY <3>1
  <2>5. g[0] = base
    BY <2>1, <2>4
  <2>6. ASSUME NEW n \in 1..(k + 1) PROVE g[n] = step[n][g[n - 1]]
    <3>1. n - 1 \in 0..k /\ g[n - 1] = f[n - 1]
      BY <2>4
    <3>2. CASE n = k + 1
      <4>1. n - 1 = k
        BY <3>2
      <4> QED
        BY <2>4, <3>1, <3>2, <4>1
    <3>3. CASE n # k + 1
      <4>1. n \in 1..k /\ n \in 0..k
        BY <3>3
      <4>2. g[n] = f[n] /\ f[n] = step[n][f[n - 1]]
        BY <2>1, <2>4, <4>1
      <4> QED
        BY <3>1, <4>2
    <3> QED
      BY <3>2, <3>3
  <2> QED
    BY <2>3, <2>4, <2>5, <2>6
<1>3. 0..L \subseteq Q
  <2> HIDE DEF Q
  <2> QED
    BY <1>1, <1>2, PositionInduction
<1>4. L \in Q
  <2> HIDE DEF Q
  <2> QED
    BY <1>3
<1> QED
  BY <1>4 DEF Follows

\* A set of numbers that is not empty has a least element.
LEMMA LeastExists ==
  ASSUME NEW S, S \subseteq Nat, S # {}
  PROVE  \E m \in S : \A k \in S : m <= k
<1>1. PICK m \in S : \A k \in S : ~ (<<k, m>> \in OpToRel(<, Nat))
  BY WFMin, NatLessThanWellFounded
<1>2. \A k \in S : ~ (k < m)
  BY <1>1 DEF OpToRel
<1> QED
  BY <1>2

-----------------------------------------------------------------------------

\* An optional thing: at most one of S.
Optional(S) == {a \in SUBSET S : \A x, y \in a : x = y}

LEMMA OfOne ==
  ASSUME NEW x
  PROVE  The({x}) = x
BY DEF The

LEMMA OfSome ==
  ASSUME NEW a, a # {}
  PROVE  The(a) \in a
BY DEF The

-----------------------------------------------------------------------------
(* Bearer tokens.                                                          *)

ProviderConfigs(Texts, Resolvers) ==
    [issuerUrl : SUBSET Texts, clientId : SUBSET Texts, audience : SUBSET Texts, requireAudience : SUBSET BOOLEAN,
     clockTolerance : SUBSET Int, resolveUser : SUBSET Resolvers, principalType : SUBSET Texts]

\* What a provider makes of a token is something only if the token was verified.
LEMMA AcceptedIsVerified ==
  ASSUME NEW static, NEW own, NEW token, NEW Keys, NEW now,
         OidcAuthenticate(static, {own}, token, Keys, now) # {}
  PROVE  LET e == Effective(static, own)
         IN /\ ~ (e.requireAudience = {TRUE} /\ Truthy(e.audience) = {})
            /\ VerifiedBy(The(own.issuerUrl), e.tolerance, e.audience, token, Keys, now)
<1>1. The(Else({own}, {static})) = own
  BY OfOne DEF Else
<1>2. Effective(static, own).of = own
  BY DEF Effective
<1> QED
  BY <1>1, <1>2 DEF OidcAuthenticate

\* The decision follows the effective configuration and the static principal type alone.
LEMMA SameEffectSameDecision ==
  ASSUME NEW static, NEW token, NEW Keys, NEW now, NEW f, NEW g,
         LET c == Effective(static, The(Else(f, {static})))
             d == Effective(static, The(Else(g, {static})))
         IN /\ c.of.issuerUrl = d.of.issuerUrl /\ c.of.clientId = d.of.clientId /\ c.audience = d.audience
            /\ c.requireAudience = d.requireAudience /\ c.tolerance = d.tolerance /\ c.resolveUser = d.resolveUser
  PROVE  OidcAuthenticate(static, f, token, Keys, now) = OidcAuthenticate(static, g, token, Keys, now)
BY DEF OidcAuthenticate, Configured

\* Whatever the static configuration, the request's own, the token and the keys: what is accepted was
\* signed for the issuer and the audience that is configured anywhere, is there when it is required,
\* and has not expired (authenticate of oidc-auth-provider.ts).
THEOREM BearerTokensAreJudged ==
  ASSUME NEW Texts, NEW Resolvers, NEW static \in ProviderConfigs(Texts, Resolvers),
         NEW own \in ProviderConfigs(Texts, Resolvers), NEW token, NEW Keys, NEW now
  PROVE  BearerIsJudged(static, own, token, Keys, now)
<1> DEFINE bare == [static EXCEPT !.audience = {}, !.requireAudience = {}, !.clockTolerance = {}, !.resolveUser = {}]
           Same(f) == OidcAuthenticate(static, f, token, Keys, now) = OidcAuthenticate(static, {}, token, Keys, now)
<1>1. ASSUME OidcAuthenticate(static, {own}, token, Keys, now) # {}
      PROVE  LET Opt(a) == IF own[a] # {} THEN own[a] ELSE static[a]
             IN /\ token.key \in Keys[The(own.issuerUrl)] /\ token.issuer = The(own.issuerUrl)
                /\ Truthy(Opt("audience")) \subseteq token.aud
                /\ Opt("requireAudience") = {TRUE} => token.aud # {}
                /\ \A e \in token.exp : e > now - The(Else(Opt("clockTolerance"), {30}))
  <2> DEFINE e == Effective(static, own)
             aud == Else(own.audience, static.audience)
             tol == Else(own.clockTolerance, Else(static.clockTolerance, {30}))
  <2>1. /\ ~ (e.requireAudience = {TRUE} /\ Truthy(e.audience) = {})
        /\ VerifiedBy(The(own.issuerUrl), e.tolerance, e.audience, token, Keys, now)
    BY <1>1, AcceptedIsVerified
  <2>2. e.audience = aud /\ e.requireAudience = Else(own.requireAudience, static.requireAudience) /\ e.tolerance = The(tol)
    BY DEF Effective
  <2>3. /\ token.key \in Keys[The(own.issuerUrl)] /\ token.issuer = The(own.issuerUrl)
        /\ Truthy(aud) \subseteq token.aud /\ \A x \in token.exp : x > now - The(tol)
    BY <2>1, <2>2 DEF VerifiedBy, JwtVerify
  <2>4. Else(own.requireAudience, static.requireAudience) = {TRUE} => Truthy(aud) # {}
    BY <2>1, <2>2
  <2>5. tol = Else(IF own.clockTolerance # {} THEN own.clockTolerance ELSE static.clockTolerance, {30})
    BY DEF Else
  <2>6. /\ aud = IF own.audience # {} THEN own.audience ELSE static.audience
        /\ Else(own.requireAudience, static.requireAudience)
             = IF own.requireAudience # {} THEN own.requireAudience ELSE static.requireAudience
    BY DEF Else
  <2> HIDE DEF aud, tol, e
  <2> QED
    BY <2>3, <2>4, <2>5, <2>6
<1>2. Same({static})
  <2>1. The(Else({static}, {static})) = static /\ The(Else({}, {static})) = static
    BY OfOne DEF Else
  <2>2. Effective(static, The(Else({static}, {static}))) = Effective(static, The(Else({}, {static})))
    BY <2>1
  <2> QED
    BY <2>2, SameEffectSameDecision
<1>3. Same({bare})
  <2>1. The(Else({bare}, {static})) = bare /\ The(Else({}, {static})) = static
    BY OfOne DEF Else
  <2>2. /\ bare.issuerUrl = static.issuerUrl /\ bare.clientId = static.clientId /\ bare.audience = {}
        /\ bare.requireAudience = {} /\ bare.clockTolerance = {} /\ bare.resolveUser = {}
    BY DEF ProviderConfigs
  <2> HIDE DEF bare
  <2> DEFINE c == Effective(static, bare)
             d == Effective(static, static)
  <2>3. /\ c.of.issuerUrl = d.of.issuerUrl /\ c.of.clientId = d.of.clientId /\ c.audience = d.audience
        /\ c.requireAudience = d.requireAudience /\ c.tolerance = d.tolerance /\ c.resolveUser = d.resolveUser
    BY <2>2 DEF Effective, Else
  <2>4. LET c1 == Effective(static, The(Else({bare}, {static})))
            d1 == Effective(static, The(Else({}, {static})))
        IN /\ c1.of.issuerUrl = d1.of.issuerUrl /\ c1.of.clientId = d1.of.clientId /\ c1.audience = d1.audience
           /\ c1.requireAudience = d1.requireAudience /\ c1.tolerance = d1.tolerance /\ c1.resolveUser = d1.resolveUser
    BY <2>1, <2>3
  <2> QED
    BY <2>4, SameEffectSameDecision
<1>4. ASSUME static.resolveUser = {}
      PROVE  OidcValidate(static, token, Keys, now) = OidcAuthenticate(static, {}, token, Keys, now)
  <2> DEFINE e == Effective(static, static)
  <2>1. The(Else({}, {static})) = static
    BY OfOne DEF Else
  <2>2. /\ e.of = static /\ e.audience = static.audience /\ e.requireAudience = static.requireAudience
        /\ e.tolerance = The(Else(static.clockTolerance, {30})) /\ e.resolveUser = {}
    BY <1>4 DEF Effective, Else
  <2> HIDE DEF e
  <2>3. OidcAuthenticate(static, {}, token, Keys, now)
          = IF ~Configured(e.of) \/ (e.requireAudience = {TRUE} /\ Truthy(e.audience) = {}) THEN {}
            ELSE IF ~VerifiedBy(The(e.of.issuerUrl), e.tolerance, e.audience, token, Keys, now) THEN {}
            ELSE IF e.resolveUser = {} THEN WithPrincipalType({DefaultClaimsMapper(token.claims)}, static.principalType)
            ELSE WithPrincipalType({[DefaultClaimsMapper(token.claims) EXCEPT !.sub = u] :
                                      u \in The(e.resolveUser)[DefaultClaimsMapper(token.claims).sub]}, static.principalType)
    BY <2>1 DEF OidcAuthenticate, e
  <2> QED
    BY <2>2, <2>3 DEF OidcValidate
<1> QED
  BY <1>1, <1>2, <1>3, <1>4 DEF BearerIsJudged

-----------------------------------------------------------------------------
(* What the factory makes.                                                 *)

FactoryConfigs(Texts, Flags) ==
    [type : {"jwt", "oidc"}, secret : SUBSET Texts, algorithms : SUBSET SUBSET Texts, issuer : SUBSET Texts,
     issuerUrl : SUBSET Texts, clientId : SUBSET Texts, clientSecret : SUBSET Texts, audience : SUBSET Texts,
     requireAudience : SUBSET Flags, clockTolerance : SUBSET Int, principalType : SUBSET Texts]

\* Whatever is configured, the provider that the factory makes accepts the tokens the configuration
\* accepts, and one that it refuses to make would accept none (createAuthProvider of auth-factory.ts).
THEOREM FactoriesAreFaithful ==
  ASSUME NEW Texts, NEW Flags, NEW c \in FactoryConfigs(Texts, Flags), NEW token, NEW Keys, NEW now
  PROVE  FactoryIsFaithful(c, token, Keys, now)
<1> DEFINE Common == {"type", "audience", "principalType", "requireAudience", "clockTolerance"}
           made == CreateAuthProvider(c)
<1>1. CASE c.type = "jwt"
  <2> DEFINE d == [f \in {"secret", "algorithms", "issuer"} \cup Common |-> c[f]]
  <2>1. made = IF Truthy(c.secret) = {} THEN {} ELSE {d}
    <3>1. {"secret", "algorithms", "issuer"} \cup {"requireAudience", "clockTolerance"} \cup {"type", "audience", "principalType"}
            = {"secret", "algorithms", "issuer"} \cup Common
      OBVIOUS
    <3> QED
      BY <1>1, <3>1 DEF CreateAuthProvider
  <2>2. /\ d.secret = c.secret /\ d.algorithms = c.algorithms /\ d.issuer = c.issuer /\ d.audience = c.audience
        /\ d.requireAudience = c.requireAudience /\ d.clockTolerance = c.clockTolerance
        /\ d.principalType = c.principalType
    OBVIOUS
  <2> HIDE DEF d
  <2>3. JwtValidate(d, token, now) = JwtValidate(c, token, now)
    BY <2>2 DEF JwtValidate
  <2>4. CASE Truthy(c.secret) = {}
    <3>1. token.key # "" => token.key \notin c.secret
      BY <2>4 DEF Truthy
    <3>2. token.key # "" => JwtValidate(c, token, now) = {}
      BY <3>1 DEF JwtValidate, JwtVerify
    <3> QED
      BY <1>1, <2>1, <2>4, <3>2 DEF FactoryIsFaithful
  <2>5. CASE Truthy(c.secret) # {}
    <3>1. The(made) = d /\ made # {}
      BY <2>1, <2>5, OfOne
    <3> QED
      BY <1>1, <2>3, <3>1 DEF FactoryIsFaithful
  <2> QED
    BY <2>4, <2>5
<1>2. CASE c.type = "oidc"
  <2> DEFINE d == [f \in {"issuerUrl", "clientId", "clientSecret"} \cup Common |-> c[f]]
  <2>1. made = IF Truthy(c.issuerUrl) = {} THEN {} ELSE {d}
    <3>1. {"issuerUrl", "clientId", "clientSecret"} \cup {"requireAudience", "clockTolerance"} \cup {"type", "audience", "principalType"}
            = {"issuerUrl", "clientId", "clientSecret"} \cup Common
      OBVIOUS
    <3> QED
      BY <1>2, <3>1 DEF CreateAuthProvider
  <2>2. /\ d.issuerUrl = c.issuerUrl /\ d.clientId = c.clientId /\ d.audience = c.audience
        /\ d.requireAudience = c.requireAudience /\ d.clockTolerance = c.clockTolerance
        /\ d.principalType = c.principalType
    OBVIOUS
  <2> HIDE DEF d
  <2>3. OidcValidate(d, token, Keys, now) = OidcValidate(c, token, Keys, now)
    BY <2>2 DEF OidcValidate, Configured
  <2>4. CASE Truthy(c.issuerUrl) = {}
    <3>1. OidcValidate(c, token, Keys, now) = {}
      BY <2>4 DEF OidcValidate, Configured
    <3> QED
      BY <1>2, <2>1, <2>4, <3>1 DEF FactoryIsFaithful
  <2>5. CASE Truthy(c.issuerUrl) # {}
    <3>1. The(made) = d /\ made # {}
      BY <2>1, <2>5, OfOne
    <3> QED
      BY <1>2, <2>3, <3>1 DEF FactoryIsFaithful
  <2> QED
    BY <2>4, <2>5
<1> QED
  BY <1>1, <1>2 DEF FactoryConfigs

-----------------------------------------------------------------------------
(* A sign-in.                                                              *)

\* The configuration's switches, and the two ends of a callback: one that may be tried again, and one that may not.
Verified(static) == static.verifyIdTokenSignature # {FALSE}
Checked(static) == static.verifyUserInfoSubject # {FALSE}
Again(status) == Responded(status, {}, TRUE)
Ended(status, session) == Responded(status, session, FALSE)

\* What ExchangeCode answers, with the ID token's claims it may hold.
LEMMA ExchangeOutcomes ==
  ASSUME NEW static, NEW config, NEW answer, NEW idToken, answer.idToken = idToken,
         \A x, y \in idToken : x = y
  PROVE  LET tokens == ExchangeCode(static, config, answer)
             subject == UNION {c.sub : c \in idToken}
             verified == Verified(static)
         IN \/ tokens = Failed("thrown")
            \/ /\ tokens = Failed("refused")
               /\ \A e \in answer.error : IsAuthorizationFlowError(The(answer.error))
            \/ /\ answer.error = {} /\ verified /\ subject # {}
               /\ tokens = Tokens(subject, idToken)
            \/ /\ answer.error = {} /\ tokens = Tokens({}, {})
               /\ verified /\ Checked(static) => idToken = {}
<1> DEFINE verified == Verified(static)
           claims == IF verified THEN idToken ELSE {}
           subject == UNION {c.sub : c \in claims}
<1>1. ~verified => subject = {}
  OBVIOUS
<1>2. verified => claims = idToken
  OBVIOUS
<1>3. ExchangeCode(static, config, answer) =
        IF ~Configured(config) THEN Failed("thrown")
        ELSE IF answer.error # {}
             THEN Failed(IF IsAuthorizationFlowError(The(answer.error)) THEN "refused" ELSE "thrown")
        ELSE IF subject # {} THEN Tokens(subject, claims)
        ELSE IF verified /\ Checked(static) /\ idToken # {} THEN Failed("refused")
        ELSE Tokens({}, {})
  BY DEF ExchangeCode, Verified, Checked
<1>4. verified => subject = UNION {c.sub : c \in idToken}
  BY <1>2
<1> HIDE DEF subject, claims
<1> QED
  BY <1>1, <1>2, <1>3, <1>4

\* The session of a user with the claims of the UserInfo endpoint, and of one whose UserInfo was denied.
Authorized(info) == {[user |-> info.claims, authorized |-> TRUE]}
Unauthorized(tokens) == {[user |-> i, authorized |-> FALSE] : i \in PickIdentityClaims(tokens.claims)}

\* What Admit makes of an answer: a session with the claims of the UserInfo endpoint, one with those of
\* the ID token, or none.
LEMMA AdmitOutcomes ==
  ASSUME NEW static, NEW config, NEW tokens, NEW info, NEW out, out = Admit(static, config, tokens, info)
  PROVE     \/ out = Again(500) \/ out = Ended(400, {}) \/ out = Ended(403, {})
            \/ /\ out = Ended(302, Authorized(info))
               /\ Checked(static) /\ tokens.subject # {} => info.claims.sub = tokens.subject
            \/ /\ out = Ended(302, Unauthorized(tokens))
               /\ info.error # {}
<1> DEFINE expected == IF Checked(static) THEN tokens.subject ELSE {}
           answer == FetchUserInfo(config, expected, info)
<1>1. \/ answer.kind = "thrown" \/ answer.kind = "mismatch"
      \/ answer.kind = "forbidden" /\ info.error # {}
      \/ /\ answer.kind = "claims" /\ answer.claims = info.claims
         /\ expected # {} => info.claims.sub = expected
  BY DEF FetchUserInfo, Failed
<1>2. Admit(static, config, tokens, info)
        = CASE answer.kind = "thrown" -> Again(500)
            [] answer.kind = "mismatch" -> Ended(400, {})
            [] answer.kind = "forbidden" -> HandleUserInfoDenied(static, tokens)
            [] OTHER -> Responded(302, {[user |-> answer.claims, authorized |-> TRUE]}, FALSE)
  BY DEF Admit, Again, Ended, Checked
<1>3. \/ HandleUserInfoDenied(static, tokens) = Ended(403, {})
      \/ HandleUserInfoDenied(static, tokens)
           = Ended(302, Unauthorized(tokens))
  BY DEF HandleUserInfoDenied, Unauthorized, Ended
<1>4. Checked(static) => expected = tokens.subject
  OBVIOUS
<1> HIDE DEF answer, expected
<1>5. CASE answer.kind = "thrown"
  BY <1>2, <1>5
<1>6. CASE answer.kind = "mismatch"
  BY <1>2, <1>6
<1>7. CASE answer.kind = "forbidden" /\ info.error # {}
  BY <1>2, <1>3, <1>7
<1>8. CASE /\ answer.kind = "claims" /\ answer.claims = info.claims
           /\ expected # {} => info.claims.sub = expected
  <2>1. out = Ended(302, Authorized(info))
    BY <1>2, <1>8 DEF Authorized, Ended
  <2> QED
    BY <1>4, <1>8, <2>1
<1> QED
  BY <1>1, <1>5, <1>6, <1>7, <1>8

\* An error of the flow is no failure of the server, when those of the codes that have none are not.
LEMMA FlowErrorIsNoServerFailure ==
  ASSUME NEW e, IsAuthorizationFlowError(e),
         e.class = "ClientError" /\ e.code \in FlowCodes => \A s \in e.status : s < 500
  PROVE  \A s \in e.status : s < 500
BY DEF IsAuthorizationFlowError, NotConform, FlowCodes

\* Whatever the configuration, the query and the answers: a session is of the user that was vouched
\* for, and the state outlives only what may be tried again (handleCallback of oidc-auth-controller.ts).
\* The codes of the library that stand for a refusal come from a response that was no server failure.
THEOREM CallbacksAreJudged ==
  ASSUME NEW static, NEW own, NEW query, NEW remembered, NEW answer, NEW info,
         \A x, y \in answer.idToken : x = y, \A x, y \in answer.error : x = y,
         \A e \in answer.error : e.class = "ClientError" /\ e.code \in FlowCodes => \A s \in e.status : s < 500
  PROVE  CallbackIsJudged(static, own, query, remembered, answer, info)
<1> DEFINE config == ResolveConfig(static, own)
           tokens == ExchangeCode(static, config, answer)
           idToken == answer.idToken
           idSubject == UNION {c.sub : c \in idToken}
           verified == Verified(static)
           checked == Checked(static)
           out == HandleCallback(static, own, query, remembered, answer, info)
           Vouched(s) == /\ s.authorized /\ verified /\ checked /\ idToken # {} => s.user.sub = idSubject /\ idSubject # {}
                         /\ ~s.authorized => /\ verified /\ s.user.sub = idSubject /\ s.user.other = {}
                                             /\ info.error # {}
           WithId == verified /\ idSubject # {} /\ tokens = Tokens(idSubject, idToken)
           WithoutId == tokens = Tokens({}, {}) /\ (verified /\ checked => idToken = {})
           Refused == out.status = 400 /\ query.state = remembered /\ ~out.stateKept
           Judged == /\ out.session # {} => /\ out.status = 302 /\ query.state = remembered
                                            /\ answer.error = {} /\ ~out.stateKept
                     /\ \A s \in out.session : Vouched(s)
                     /\ \A e \in answer.error : Refused => \A s \in e.status : s < 500
<1> SUFFICES Judged
  BY DEF CallbackIsJudged, Verified, Checked
<1>1. \/ out = Again(400)
      \/ /\ query.state = remembered
         /\ out = CASE tokens.kind = "thrown" -> Again(500)
                    [] tokens.kind = "refused" -> Ended(400, {})
                    [] OTHER -> Admit(static, config, tokens, info)
  BY DEF HandleCallback, Again, Ended
<1>2. \/ tokens = Failed("thrown")
      \/ /\ tokens = Failed("refused")
         /\ \A e \in answer.error : IsAuthorizationFlowError(The(answer.error))
      \/ answer.error = {} /\ (WithId \/ WithoutId)
  <2>1. \/ tokens = Failed("thrown")
        \/ /\ tokens = Failed("refused")
           /\ \A e \in answer.error : IsAuthorizationFlowError(The(answer.error))
        \/ /\ answer.error = {} /\ verified /\ idSubject # {}
           /\ tokens = Tokens(idSubject, idToken)
        \/ /\ answer.error = {} /\ tokens = Tokens({}, {})
           /\ verified /\ checked => idToken = {}
    BY ExchangeOutcomes
  <2> QED
    BY <2>1, Zenon
<1>3. ASSUME NEW status, out = Again(status) \/ (out = Ended(status, {}) /\ status # 400)
      PROVE  Judged
  <2>1. out.session = {}
    BY <1>3 DEF Responded, Again, Ended
  <2>2. ~Refused
    <3>1. ASSUME out = Again(status) PROVE out.stateKept
      BY <3>1 DEF Responded, Again
    <3>2. ASSUME out = Ended(status, {}), status # 400 PROVE out.status # 400
      BY <3>2 DEF Responded, Ended
    <3> HIDE DEF out
    <3> QED
      BY <1>3, <3>1, <3>2
  <2> HIDE DEF out, Vouched, Refused
  <2> QED
    BY <2>1, <2>2
<1>4. ASSUME out = Ended(400, {}), \A e \in answer.error : IsAuthorizationFlowError(The(answer.error))
      PROVE  Judged
  <2>1. out.session = {}
    BY <1>4 DEF Responded, Ended
  <2>2. ASSUME NEW e \in answer.error
        PROVE  \A s \in e.status : s < 500
    <3>1. The(answer.error) = e
      BY OfSome
    <3>2. IsAuthorizationFlowError(e)
      BY <1>4, <3>1
    <3> QED
      BY <3>2, FlowErrorIsNoServerFailure
  <2> HIDE DEF out, Vouched, Refused
  <2> QED
    BY <2>1, <2>2
<1>5. ASSUME NEW sessions, out = Ended(302, sessions), query.state = remembered, answer.error = {},
             \A s \in sessions : Vouched(s)
      PROVE  Judged
  <2>1. out.session = sessions /\ out.status = 302 /\ out.stateKept = FALSE
    BY <1>5 DEF Responded, Ended
  <2> HIDE DEF out, Vouched, Refused
  <2> QED
    BY <1>5, <2>1
<1>6. ASSUME query.state = remembered, answer.error = {}, out = Admit(static, config, tokens, info),
             WithId \/ WithoutId
      PROVE  Judged
  <2> HIDE DEF tokens, out, Judged
  <2>2. CASE out = Ended(400, {})
    <3> QED
      BY <2>2, <1>4, <1>6
  <2>3. CASE /\ out = Ended(302, Authorized(info))
             /\ Checked(static) /\ tokens.subject # {} => info.claims.sub = tokens.subject
    <3> DEFINE session == [user |-> info.claims, authorized |-> TRUE]
    <3>1. session.user.sub = info.claims.sub /\ session.authorized
      OBVIOUS
    <3>2. verified /\ checked /\ idToken # {} => tokens.subject = idSubject /\ idSubject # {}
      <4>1. CASE WithId
        BY <4>1 DEF Tokens
      <4>2. CASE WithoutId
        BY <4>2
      <4> HIDE DEF WithId, WithoutId
      <4> QED
        BY <1>6, <4>1, <4>2
    <3> HIDE DEF session, idSubject, idToken
    <3>3. Vouched(session)
      BY <2>3, <3>1, <3>2
    <3> HIDE DEF Vouched
    <3> QED
      BY <2>3, <3>3, <1>5, <1>6 DEF session, Authorized
  <2>4. CASE /\ out = Ended(302, Unauthorized(tokens))
             /\ info.error # {}
    <3> DEFINE sessions == Unauthorized(tokens)
    <3>1. ASSUME NEW s \in sessions
          PROVE  Vouched(s)
      <4>1. PICK i \in PickIdentityClaims(tokens.claims) : s = [user |-> i, authorized |-> FALSE]
        BY DEF Unauthorized
      <4>2. PICK c \in tokens.claims : i = [sub |-> c.sub, email |-> c.email, name |-> c.name, other |-> {}]
        BY <4>1 DEF PickIdentityClaims
      <4>3. verified /\ tokens.claims = idToken
        <5>1. CASE WithId
          BY <5>1 DEF Tokens
        <5>2. CASE WithoutId
          <6>1. tokens.claims = {}
            BY <5>2 DEF Tokens
          <6> QED
            BY <4>2, <6>1
        <5> HIDE DEF WithId, WithoutId
        <5> QED
          BY <1>6, <5>1, <5>2
      <4>4. idToken = {c}
        BY <4>2, <4>3
      <4>5. idSubject = c.sub
        BY <4>4
      <4>6. s.user.sub = c.sub /\ s.user.other = {} /\ ~s.authorized
        BY <4>1, <4>2
      <4> HIDE DEF idSubject, idToken
      <4> QED
        BY <2>4, <4>3, <4>5, <4>6
    <3> HIDE DEF Vouched, sessions
    <3> QED
      BY <2>4, <3>1, <1>5, <1>6 DEF sessions
  <2>5. \/ out = Again(500) \/ out = Ended(400, {}) \/ out = Ended(403, {})
        \/ /\ out = Ended(302, Authorized(info))
           /\ Checked(static) /\ tokens.subject # {} => info.claims.sub = tokens.subject
        \/ /\ out = Ended(302, Unauthorized(tokens))
           /\ info.error # {}
    <3>1. out = Admit(static, config, tokens, info)
      BY <1>6
    <3> HIDE DEF config
    <3> QED
      BY <3>1, AdmitOutcomes
  <2>6. ASSUME out = Again(500) PROVE Judged
    BY <1>3, <2>6
  <2>7. ASSUME out = Ended(403, {}) PROVE Judged
    <3>1. 403 # 400
      OBVIOUS
    <3> QED
      BY <1>3, <2>7, <3>1
  <2> QED
    BY <2>2, <2>3, <2>4, <2>5, <2>6, <2>7
<1>7. CASE out = Again(400)
  <2> HIDE DEF out, Judged
  <2> QED
    BY <1>3, <1>7
<1>8. CASE /\ query.state = remembered
           /\ out = CASE tokens.kind = "thrown" -> Again(500)
                      [] tokens.kind = "refused" -> Ended(400, {})
                      [] OTHER -> Admit(static, config, tokens, info)
  <2>1. CASE tokens = Failed("thrown")
    <3>1. out = Again(500)
      BY <1>8, <2>1 DEF Failed
    <3> HIDE DEF out, Judged
    <3> QED
      BY <1>3, <3>1
  <2>2. CASE /\ tokens = Failed("refused")
             /\ \A e \in answer.error : IsAuthorizationFlowError(The(answer.error))
    <3>1. out = Ended(400, {})
      BY <1>8, <2>2 DEF Failed
    <3> HIDE DEF out, Judged
    <3> QED
      BY <1>4, <2>2, <3>1
  <2>3. CASE answer.error = {} /\ (WithId \/ WithoutId)
    <3> HIDE DEF tokens, out
    <3>1. tokens.kind = "tokens"
      <4>1. ASSUME WithId PROVE tokens.kind = "tokens"
        BY <4>1 DEF Tokens
      <4>2. ASSUME WithoutId PROVE tokens.kind = "tokens"
        BY <4>2 DEF Tokens
      <4> HIDE DEF WithId, WithoutId
      <4> QED
        BY <2>3, <4>1, <4>2
    <3>2. out = Admit(static, config, tokens, info)
      BY <1>8, <3>1
    <3> HIDE DEF Judged, WithId, WithoutId
    <3> QED
      BY <1>6, <1>8, <2>3, <3>2
  <2> HIDE DEF out, Judged, tokens, WithId, WithoutId
  <2> QED
    BY <1>2, <2>1, <2>2, <2>3
<1> HIDE DEF out, Judged, tokens
<1> QED
  BY <1>1, <1>7, <1>8

SignInConfigs(Texts) ==
    [issuerUrl : SUBSET Texts, clientId : SUBSET Texts, redirectUri : Optional(Texts), scopes : SUBSET Texts,
     verifyIdTokenSignature : SUBSET BOOLEAN, verifyUserInfoSubject : SUBSET BOOLEAN, userInfoDenied : SUBSET Texts]

\* Whatever the query of the browser has, the parameters of the URL that decide about the callback are
\* the remembered ones, and the redirect is the one configured (handleLogin of
\* oidc-auth-controller.ts, buildAuthorizationUrl of oidc-auth-provider.ts).
THEOREM LoginsAreRemembered ==
  ASSUME NEW Texts, NEW static \in SignInConfigs(Texts), NEW own,
         own = {} \/ \E f : own = {f} /\ ("redirectUri" \in DOMAIN f => f.redirectUri \in Optional(Texts)),
         NEW query, NEW secrets
  PROVE  LoginIsRemembered(static, own, query, secrets)
<1> DEFINE config == ResolveConfig(static, own)
           extra == GetLoginParams(query)
           source == IF own # {} /\ "redirectUri" \in DOMAIN The(own) THEN The(own) ELSE static
           sent == [code_challenge |-> secrets.verifier, state |-> secrets.state, nonce |-> secrets.nonce,
                    redirect_uri |-> The(config.redirectUri),
                    scope |-> The(Else(config.scopes, {"openid profile email"}))]
           params == [p \in DOMAIN sent \cup DOMAIN extra |-> IF p \in DOMAIN extra THEN extra[p] ELSE sent[p]]
<1>1. config.redirectUri = source.redirectUri
  <2>1. CASE own = {}
    BY <2>1 DEF ResolveConfig
  <2>2. CASE own # {}
    <3>1. "redirectUri" \in DOMAIN static
      BY DEF SignInConfigs
    <3> QED
      BY <2>2, <3>1 DEF ResolveConfig
  <2> QED
    BY <2>1, <2>2
<1>2. source.redirectUri \in Optional(Texts)
  <2>1. static.redirectUri \in Optional(Texts)
    BY DEF SignInConfigs
  <2>2. CASE own = {}
    BY <2>1, <2>2
  <2>3. CASE own # {}
    <3>1. PICK f : own = {f} /\ ("redirectUri" \in DOMAIN f => f.redirectUri \in Optional(Texts))
      BY <2>3
    <3>2. The(own) = f
      BY <3>1, OfOne
    <3> QED
      BY <2>1, <3>1, <3>2
  <2> QED
    BY <2>2, <2>3
<1>3. DOMAIN extra \subseteq {"prompt", "login_hint"}
  BY DEF GetLoginParams
<1> HIDE DEF config, extra, source
<1>4. ASSUME NEW b \in BuildAuthorizationUrl(config, extra, secrets)
      PROVE  /\ b = [params |-> params, remembered |-> secrets]
             /\ Truthy(config.redirectUri) # {}
  BY DEF BuildAuthorizationUrl
<1>5. /\ params.state = secrets.state /\ params.nonce = secrets.nonce /\ params.code_challenge = secrets.verifier
      /\ params.redirect_uri = The(config.redirectUri)
  <2>1. DOMAIN sent = {"code_challenge", "state", "nonce", "redirect_uri", "scope"}
    OBVIOUS
  <2>2. \A p \in {"code_challenge", "state", "nonce", "redirect_uri"} : p \notin DOMAIN extra /\ p \in DOMAIN sent
    BY <1>3, <2>1
  <2>3. \A p \in {"code_challenge", "state", "nonce", "redirect_uri"} : params[p] = sent[p]
    <3> HIDE DEF sent
    <3> QED
      BY <2>2
  <2>4. /\ sent.state = secrets.state /\ sent.nonce = secrets.nonce /\ sent.code_challenge = secrets.verifier
        /\ sent.redirect_uri = The(config.redirectUri)
    OBVIOUS
  <2> HIDE DEF params, sent
  <2> QED
    BY <2>3, <2>4
<1>6. Truthy(config.redirectUri) # {} => {The(config.redirectUri)} = source.redirectUri
  <2> SUFFICES ASSUME config.redirectUri # {} PROVE {The(config.redirectUri)} = source.redirectUri
    BY DEF Truthy
  <2>1. The(config.redirectUri) \in config.redirectUri
    BY OfSome
  <2>2. \A x, y \in config.redirectUri : x = y
    BY <1>1, <1>2 DEF Optional
  <2> QED
    BY <1>1, <2>1, <2>2
<1> HIDE DEF params
<1>7. ASSUME NEW b \in BuildAuthorizationUrl(config, extra, secrets)
      PROVE  /\ b.params.state = b.remembered.state /\ b.params.nonce = b.remembered.nonce
             /\ b.params.code_challenge = b.remembered.verifier /\ {b.params.redirect_uri} = source.redirectUri
  BY <1>4, <1>5, <1>6
<1> QED
  BY <1>7 DEF LoginIsRemembered, config, extra, source

-----------------------------------------------------------------------------
(* Redirects.                                                              *)

Urls(Origins) == [origin : Origins, secure : BOOLEAN]
Requests(Origins, Methods, Headers) ==
    [url : Urls(Origins), method : Methods, body : BOOLEAN, manual : BOOLEAN, headers : SUBSET Headers]
Responses(Origins) == [status : Nat, location : SUBSET Urls(Origins)]
States(R) == [request : R, sent : Seq(R), settled : SUBSET Nat]

\* A request with its length is the request, but for that header.
LEMMA SentIsTheRequest ==
  ASSUME NEW Origins, NEW Methods, NEW Headers, "content-length" \in Headers,
         NEW r \in Requests(Origins, Methods, Headers)
  PROVE  /\ Sent(r) \in Requests(Origins, Methods, Headers)
         /\ Sent(r).url = r.url /\ Sent(r).method = r.method /\ Sent(r).body = r.body /\ Sent(r).manual = r.manual
         /\ Sent(r).headers = IF r.body THEN r.headers \cup {"content-length"} ELSE r.headers
BY DEF Sent, Requests

\* What a response with a redirect makes of a request.
Redirected(this, url, preserve) ==
    [this EXCEPT !.url = url, !.headers = NextHeaders(this, url, preserve),
                 !.method = IF preserve THEN @ ELSE "GET", !.body = @ /\ preserve]

LEMMA RedirectedIsARequest ==
  ASSUME NEW Origins, NEW Methods, NEW Headers, "GET" \in Methods,
         NEW this \in Requests(Origins, Methods, Headers), NEW url \in Urls(Origins), NEW preserve \in BOOLEAN
  PROVE  LET next == Redirected(this, url, preserve)
         IN /\ next \in Requests(Origins, Methods, Headers)
            /\ next.url = url /\ next.manual = this.manual /\ next.body = (this.body /\ preserve)
            /\ next.method = IF preserve THEN this.method ELSE "GET"
            /\ next.headers = NextHeaders(this, url, preserve)
<1>1. NextHeaders(this, url, preserve) \in SUBSET Headers
  BY DEF NextHeaders, Requests
<1> QED
  BY <1>1 DEF Redirected, Requests

\* One call: it settles, or leads to one other.
LEMMA HopOutcomes ==
  ASSUME NEW Origins, NEW Methods, NEW Headers, "GET" \in Methods, "content-length" \in Headers,
         NEW so \in States(Requests(Origins, Methods, Headers)), NEW a \in Responses(Origins)
  PROVE  LET h == Hop(so, a)
             this == Sent(so.request)
         IN /\ h \in States(Requests(Origins, Methods, Headers))
            /\ so.settled # {} => h = so
            /\ so.settled = {} =>
                 /\ h.sent = Append(so.sent, this)
                 /\ h.settled = {} =>
                      /\ ~this.manual /\ Len(so.sent) < MaxRedirects
                      /\ \E url \in Urls(Origins), preserve \in BOOLEAN :
                           (this.url.secure => url.secure) /\ h.request = Redirected(this, url, preserve)
<1> DEFINE R == Requests(Origins, Methods, Headers)
           h == Hop(so, a)
           this == Sent(so.request)
           url == The(a.location)
           preserve == a.status \in {307, 308}
           sent == Append(so.sent, this)
           Settled(status) == [so EXCEPT !.sent = sent, !.settled = {status}]
           Next == [so EXCEPT !.sent = sent, !.request = Redirected(this, url, preserve)]
           Ends == a.status \notin 300..399 \/ this.manual \/ a.location = {}
           Breaks == Len(so.sent) >= MaxRedirects \/ (this.url.secure /\ ~url.secure)
<1>1. so.request \in R /\ so.sent \in Seq(R) /\ so.settled \in SUBSET Nat
  BY DEF States
<1>2. this \in R
  BY <1>1, SentIsTheRequest
<1>3. sent \in Seq(R)
  BY <1>1, <1>2
<1>4. a.status \in Nat /\ a.location \in SUBSET Urls(Origins)
  BY DEF Responses
<1>5. preserve \in BOOLEAN
  OBVIOUS
<1>6. h = IF so.settled # {} THEN so ELSE IF Ends THEN Settled(a.status) ELSE IF Breaks THEN Settled(0) ELSE Next
  BY DEF Hop, Redirected
<1>7. ASSUME NEW status \in Nat
      PROVE  Settled(status) \in States(R) /\ Settled(status).sent = sent /\ Settled(status).settled # {}
  <2> HIDE DEF sent
  <2> QED
    BY <1>3, <1>7 DEF States
<1>8. ASSUME ~Ends, ~Breaks
      PROVE  /\ Next \in States(R) /\ Next.sent = sent /\ Next.request = Redirected(this, url, preserve)
             /\ ~this.manual /\ Len(so.sent) < MaxRedirects /\ (this.url.secure => url.secure) /\ url \in Urls(Origins)
  <2>1. url \in Urls(Origins)
    BY <1>4, <1>8, OfSome
  <2>2. Redirected(this, url, preserve) \in R
    <3> HIDE DEF this, url, preserve
    <3> QED
      BY <1>2, <1>5, <2>1, RedirectedIsARequest
  <2>3. Len(so.sent) \in Nat
    BY <1>1
  <2>4. Len(so.sent) < MaxRedirects
    BY <1>8, <2>3 DEF MaxRedirects
  <2>5. Next \in States(R) /\ Next.sent = sent /\ Next.request = Redirected(this, url, preserve)
    <3> HIDE DEF sent, url, preserve, this
    <3> QED
      BY <1>3, <2>2 DEF States
  <2>6. ~this.manual /\ (this.url.secure => url.secure)
    BY <1>8, Zenon
  <2> QED
    BY <2>1, <2>4, <2>5, <2>6
<1> HIDE DEF R, h, this, url, preserve, sent, Settled, Next, Ends, Breaks
<1>9. CASE so.settled # {}
  BY <1>6, <1>9 DEF R, h
<1>10. CASE so.settled = {} /\ Ends
  BY <1>4, <1>6, <1>7, <1>10 DEF R, h, this, sent
<1>11. CASE so.settled = {} /\ ~Ends /\ Breaks
  BY <1>6, <1>7, <1>11 DEF R, h, this, sent
<1>12. CASE so.settled = {} /\ ~Ends /\ ~Breaks
  <2>1. h = Next
    BY <1>6, <1>12
  <2> QED
    BY <1>5, <1>8, <1>12, <2>1 DEF R, h, this, sent
<1> QED
  BY <1>9, <1>10, <1>11, <1>12

\* The calls are what the recursion says: each a hop from the one before.
LEMMA CallsAreHops ==
  ASSUME NEW Origins, NEW Methods, NEW Headers, "GET" \in Methods, "content-length" \in Headers,
         NEW request \in Requests(Origins, Methods, Headers),
         NEW answers \in Seq(Responses(Origins)), Len(answers) > MaxRedirects
  PROVE  LET f == Calls(request, answers)
         IN /\ f \in [0..(MaxRedirects + 1) -> States(Requests(Origins, Methods, Headers))]
            /\ f[0] = [request |-> request, sent |-> <<>>, settled |-> {}]
            /\ \A n \in 1..(MaxRedirects + 1) : f[n] = Hop(f[n - 1], answers[n])
<1> DEFINE S == States(Requests(Origins, Methods, Headers))
           L == MaxRedirects + 1
           base == [request |-> request, sent |-> <<>>, settled |-> {}]
           step == [n \in 1..L |-> [so \in S |-> Hop(so, answers[n])]]
           Is(f) == f = [n \in 0..L |-> IF n = 0 THEN base ELSE Hop(f[n - 1], answers[n])]
           calls == Calls(request, answers)
<1>1. L \in Nat /\ base \in S
  BY DEF MaxRedirects, States
<1>2. \A n \in 1..L : answers[n] \in Responses(Origins)
  BY DEF MaxRedirects
<1>3. ASSUME NEW so \in S, NEW n \in 1..L PROVE Hop(so, answers[n]) \in S
  BY <1>2, HopOutcomes
<1> HIDE DEF S, L, base
<1>4. step \in [1..L -> [S -> S]]
  BY <1>3
<1>5. \A n \in 1..L, so \in S : step[n][so] = Hop(so, answers[n])
  OBVIOUS
<1> HIDE DEF step
<1>6. PICK f \in [0..L -> S] : Follows(f, L, base, step)
  BY <1>1, <1>4, RecursionExists
<1>7. Is(f)
  <2>1. ASSUME NEW n \in 0..L
        PROVE  f[n] = IF n = 0 THEN base ELSE Hop(f[n - 1], answers[n])
    <3>1. n # 0 => n \in 1..L /\ n - 1 \in 0..L
      BY <1>1
    <3> QED
      BY <1>5, <1>6, <3>1 DEF Follows
  <2> QED
    BY <2>1
<1>8. calls = CHOOSE g : Is(g)
  BY DEF Calls, L, base
<1>9. Is(calls)
  <2> HIDE DEF Is, calls
  <2> QED
    BY <1>7, <1>8
<1> HIDE DEF calls
<1>10. calls[0] = base /\ \A n \in 1..L : calls[n] = Hop(calls[n - 1], answers[n])
  <2>1. 0 \in 0..L /\ \A n \in 1..L : n \in 0..L /\ n # 0
    BY <1>1
  <2> QED
    BY <1>9, <2>1
<1>11. \A n \in 0..L : calls[n] \in S
  <2> DEFINE Q == {n \in 0..L : calls[n] \in S}
  <2>1. 0 \in Q
    BY <1>1, <1>10
  <2>2. ASSUME NEW n \in 0..L, n < L, n \in Q PROVE n + 1 \in Q
    <3>1. n + 1 \in 1..L /\ n + 1 \in 0..L /\ (n + 1) - 1 = n /\ calls[n] \in S
      BY <1>1, <2>2
    <3> QED
      BY <1>3, <1>10, <3>1
  <2> HIDE DEF Q
  <2>3. 0..L \subseteq Q
    BY <1>1, <2>1, <2>2, PositionInduction
  <2> QED
    BY <2>3 DEF Q
<1>12. calls = [n \in 0..L |-> calls[n]]
  BY <1>9
<1> QED
  BY <1>10, <1>11, <1>12 DEF calls, S, L, base

\* What may be sent next after sent, in a chain that began with first.
Fits(r, sent, first) ==
    /\ r.headers \cap Credentials # {} => /\ r.url.origin = first.url.origin
                                         /\ \A j \in DOMAIN sent : sent[j].url.origin = first.url.origin
    /\ "content-length" \in r.headers => r.body
    /\ r.body => r.method = first.method
    /\ \A j \in DOMAIN sent : sent[j].url.secure => r.url.secure
    /\ r.manual = first.manual

\* What was sent, as RedirectsAreSafe has it.
SafelySent(sent, first) ==
    \A i \in DOMAIN sent :
        /\ sent[i].headers \cap Credentials # {} => \A j \in 1..i : sent[j].url.origin = first.url.origin
        /\ "content-length" \in sent[i].headers <=> sent[i].body
        /\ sent[i].body => sent[i].method = first.method
        /\ \A j \in 1..i : sent[j].url.secure => sent[i].url.secure

LEMMA SentStaysSafe ==
  ASSUME NEW Origins, NEW Methods, NEW Headers, "content-length" \in Headers,
         NEW first \in Requests(Origins, Methods, Headers), NEW r \in Requests(Origins, Methods, Headers),
         NEW sent \in Seq(Requests(Origins, Methods, Headers)), SafelySent(sent, first), Fits(r, sent, first)
  PROVE  SafelySent(Append(sent, Sent(r)), first)
<1> DEFINE R == Requests(Origins, Methods, Headers)
           this == Sent(r)
           all == Append(sent, this)
           n == Len(sent) + 1
<1>1. /\ this.url = r.url /\ this.method = r.method /\ this.body = r.body
      /\ this.headers = IF r.body THEN r.headers \cup {"content-length"} ELSE r.headers
  BY DEF Sent, Requests
<1>2. /\ DOMAIN all = 1..n /\ DOMAIN sent = 1..(n - 1) /\ n \in Nat /\ n > 0
      /\ all[n] = this /\ \A j \in 1..(n - 1) : all[j] = sent[j]
  OBVIOUS
<1> HIDE DEF this, all, n, R
<1>3. ASSUME NEW i \in 1..(n - 1)
      PROVE  /\ all[i].headers \cap Credentials # {} => \A j \in 1..i : all[j].url.origin = first.url.origin
             /\ "content-length" \in all[i].headers <=> all[i].body
             /\ all[i].body => all[i].method = first.method
             /\ \A j \in 1..i : all[j].url.secure => all[i].url.secure
  <2>1. all[i] = sent[i] /\ \A j \in 1..i : all[j] = sent[j]
    BY <1>2
  <2>2. /\ sent[i].headers \cap Credentials # {} => \A j \in 1..i : sent[j].url.origin = first.url.origin
        /\ "content-length" \in sent[i].headers <=> sent[i].body
        /\ sent[i].body => sent[i].method = first.method
        /\ \A j \in 1..i : sent[j].url.secure => sent[i].url.secure
    BY <1>2 DEF SafelySent
  <2> QED
    BY <2>1, <2>2, Zenon
<1>4. \A j \in 1..n : j = n \/ j \in 1..(n - 1)
  BY <1>2
<1>5. this.headers \cap Credentials # {} => \A j \in 1..n : all[j].url.origin = first.url.origin
  <2>1. "content-length" \notin Credentials
    BY DEF Credentials
  <2>2. this.headers \cap Credentials # {} => r.headers \cap Credentials # {}
    BY <1>1, <2>1
  <2> QED
    BY <1>1, <1>2, <1>4, <2>2 DEF Fits
<1>6. "content-length" \in this.headers <=> this.body
  BY <1>1 DEF Fits
<1>7. this.body => this.method = first.method
  BY <1>1 DEF Fits
<1>8. \A j \in 1..n : all[j].url.secure => this.url.secure
  <2>1. \A j \in 1..(n - 1) : all[j].url.secure => r.url.secure
    <3>1. \A j \in 1..(n - 1) : sent[j].url.secure => r.url.secure
      BY <1>2, Zenon DEF Fits
    <3> QED
      BY <1>2, <3>1, Zenon
  <2> QED
    BY <1>1, <1>2, <1>4, <2>1, Zenon
<1>9. SafelySent(all, first)
  BY <1>2, <1>3, <1>4, <1>5, <1>6, <1>7, <1>8, Zenon DEF SafelySent
<1> QED
  BY <1>9 DEF all, this

LEMMA RedirectedFits ==
  ASSUME NEW Origins, NEW Methods, NEW Headers, "GET" \in Methods, "content-length" \in Headers,
         NEW first \in Requests(Origins, Methods, Headers), NEW r \in Requests(Origins, Methods, Headers),
         NEW sent \in Seq(Requests(Origins, Methods, Headers)), Fits(r, sent, first),
         NEW url \in Urls(Origins), NEW preserve \in BOOLEAN, Sent(r).url.secure => url.secure
  PROVE  Fits(Redirected(Sent(r), url, preserve), Append(sent, Sent(r)), first)
<1> DEFINE this == Sent(r)
           all == Append(sent, this)
           n == Len(sent) + 1
           next == Redirected(this, url, preserve)
<1>1. /\ this \in Requests(Origins, Methods, Headers) /\ this.manual = r.manual
      /\ this.url = r.url /\ this.method = r.method /\ this.body = r.body
      /\ this.headers = IF r.body THEN r.headers \cup {"content-length"} ELSE r.headers
  BY DEF Sent, Requests
<1>2. /\ DOMAIN all = 1..n /\ DOMAIN sent = 1..(n - 1) /\ n \in Nat /\ n > 0
      /\ all[n] = this /\ \A j \in 1..(n - 1) : all[j] = sent[j]
  OBVIOUS
<1> HIDE DEF this, all, n
<1>3. /\ next.url = url /\ next.manual = this.manual /\ next.body = (this.body /\ preserve)
      /\ next.method = IF preserve THEN this.method ELSE "GET"
      /\ next.headers = NextHeaders(this, url, preserve)
  BY <1>1, RedirectedIsARequest
<1>4. this.url.secure => url.secure
  BY DEF this
<1> HIDE DEF next
<1>5. \A j \in 1..n : j = n \/ j \in 1..(n - 1)
  BY <1>2
<1>6. next.headers \cap Credentials # {} => /\ next.url.origin = first.url.origin
                                           /\ \A j \in 1..n : all[j].url.origin = first.url.origin
  <2> SUFFICES ASSUME next.headers \cap Credentials # {}
               PROVE  /\ next.url.origin = first.url.origin
                      /\ \A j \in 1..n : all[j].url.origin = first.url.origin
    OBVIOUS
  <2>1. url.origin = this.url.origin
    BY <1>3 DEF NextHeaders
  <2>2. "content-length" \notin Credentials
    BY DEF Credentials
  <2>3. r.headers \cap Credentials # {}
    <3>1. PICK c \in Credentials : c \in next.headers
      OBVIOUS
    <3>2. c \in this.headers
      BY <1>3, <3>1 DEF NextHeaders
    <3> QED
      BY <1>1, <2>2, <3>1, <3>2
  <2>4. r.url.origin = first.url.origin /\ \A j \in 1..(n - 1) : sent[j].url.origin = first.url.origin
    BY <1>2, <2>3 DEF Fits
  <2> QED
    BY <1>1, <1>2, <1>3, <1>5, <2>1, <2>4
<1>7. "content-length" \in next.headers => next.body
  <2>1. "content-length" \in OfTheBody
    BY DEF OfTheBody
  <2>2. "content-length" \in next.headers => preserve /\ "content-length" \in this.headers
    BY <1>3, <2>1 DEF NextHeaders
  <2>3. "content-length" \in this.headers => r.body
    BY <1>1 DEF Fits
  <2> QED
    BY <1>1, <1>3, <2>2, <2>3, Zenon
<1>8. next.body => next.method = first.method
  BY <1>1, <1>3 DEF Fits
<1>9. \A j \in 1..n : all[j].url.secure => next.url.secure
  <2>1. \A j \in 1..(n - 1) : sent[j].url.secure => r.url.secure
    BY <1>2, Zenon DEF Fits
  <2>2. \A j \in 1..(n - 1) : all[j].url.secure => this.url.secure
    BY <1>1, <1>2, <2>1, Zenon
  <2>3. \A j \in 1..n : all[j].url.secure => this.url.secure
    BY <1>2, <1>5, <2>2, Zenon
  <2> QED
    BY <1>3, <1>4, <2>3, Zenon
<1>10. next.manual = first.manual
  BY <1>1, <1>3 DEF Fits
<1>11. Fits(next, all, first)
  BY <1>2, <1>6, <1>7, <1>8, <1>9, <1>10, Zenon DEF Fits
<1> QED
  BY <1>11 DEF next, all, this

\* What holds after n calls.
ChainInv(so, first, n) ==
    /\ SafelySent(so.sent, first)
    /\ Len(so.sent) <= MaxRedirects + 1
    /\ first.manual => Len(so.sent) <= 1
    /\ so.settled # {} => Len(so.sent) > 0
    /\ so.settled = {} => /\ Len(so.sent) = n /\ n <= MaxRedirects /\ (first.manual => n = 0)
                         /\ Fits(so.request, so.sent, first)

LEMMA HopKeepsTheChain ==
  ASSUME NEW Origins, NEW Methods, NEW Headers, "GET" \in Methods, "content-length" \in Headers,
         NEW first \in Requests(Origins, Methods, Headers),
         NEW so \in States(Requests(Origins, Methods, Headers)), NEW a \in Responses(Origins),
         NEW n \in Nat, ChainInv(so, first, n)
  PROVE  ChainInv(Hop(so, a), first, n + 1)
<1> DEFINE R == Requests(Origins, Methods, Headers)
           h == Hop(so, a)
           this == Sent(so.request)
<1>0. so.request \in R /\ so.sent \in Seq(R) /\ first.manual \in BOOLEAN
  BY DEF States, Requests
<1>1. /\ so.settled # {} => h = so
      /\ so.settled = {} =>
           /\ h.sent = Append(so.sent, this)
           /\ h.settled = {} =>
                /\ ~this.manual /\ Len(so.sent) < MaxRedirects
                /\ \E url \in Urls(Origins), preserve \in BOOLEAN :
                     (this.url.secure => url.secure) /\ h.request = Redirected(this, url, preserve)
  BY HopOutcomes
<1>2. this.manual = so.request.manual
  BY <1>0 DEF Sent, Requests
<1> HIDE DEF h
<1>3. CASE so.settled # {}
  <2>1. h = so
    BY <1>1, <1>3
  <2>2. ChainInv(so, first, n + 1)
    BY <1>3 DEF ChainInv
  <2> QED
    BY <2>1, <2>2 DEF h
<1>4. CASE so.settled = {}
  <2>1. /\ SafelySent(so.sent, first) /\ Len(so.sent) = n /\ n <= MaxRedirects
        /\ (first.manual => n = 0) /\ Fits(so.request, so.sent, first)
    BY <1>4 DEF ChainInv
  <2>2. h.sent = Append(so.sent, this)
    BY <1>1, <1>4
  <2>3. SafelySent(h.sent, first)
    BY <1>0, <2>1, <2>2, SentStaysSafe
  <2>4. Len(h.sent) = n + 1
    BY <1>0, <2>1, <2>2
  <2>5. /\ Len(h.sent) <= MaxRedirects + 1 /\ (first.manual => Len(h.sent) <= 1) /\ Len(h.sent) > 0
    BY <2>1, <2>4 DEF MaxRedirects
  <2>6. ASSUME h.settled = {}
        PROVE  n + 1 <= MaxRedirects /\ ~first.manual /\ Fits(h.request, h.sent, first)
    <3>1. PICK url \in Urls(Origins), preserve \in BOOLEAN :
            (this.url.secure => url.secure) /\ h.request = Redirected(this, url, preserve)
      BY <1>1, <1>4, <2>6
    <3>2. ~this.manual /\ n < MaxRedirects
      BY <1>1, <1>4, <2>1, <2>6
    <3>3. ~first.manual
      BY <1>2, <2>1, <3>2, Zenon DEF Fits
    <3>4. Fits(h.request, h.sent, first)
      BY <1>0, <2>1, <2>2, <3>1, RedirectedFits
    <3> QED
      BY <3>2, <3>3, <3>4 DEF MaxRedirects
  <2>7. ChainInv(h, first, n + 1)
    BY <2>3, <2>4, <2>5, <2>6, Zenon DEF ChainInv
  <2> QED
    BY <2>7 DEF h
<1> QED
  BY <1>3, <1>4

\* However many redirects the servers answer with: at most six requests are sent, and none of them
\* carries a credential that left its origin, a body by another method or a step from HTTPS to HTTP
\* (performRequest of tls-fetch.ts).
THEOREM RedirectChainsAreSafe ==
  ASSUME NEW Origins, NEW Methods, NEW Headers, "GET" \in Methods, "content-length" \in Headers,
         NEW request \in Requests(Origins, Methods, Headers),
         "content-length" \in request.headers => request.body,
         NEW answers \in Seq(Responses(Origins)), Len(answers) > MaxRedirects
  PROVE  RedirectsAreSafe(request, answers)
<1> DEFINE R == Requests(Origins, Methods, Headers)
           L == MaxRedirects + 1
           f == Calls(request, answers)
           Q == {n \in 0..L : ChainInv(f[n], request, n)}
<1>1. /\ f \in [0..L -> States(R)]
      /\ f[0] = [request |-> request, sent |-> <<>>, settled |-> {}]
      /\ \A n \in 1..L : f[n] = Hop(f[n - 1], answers[n])
  BY CallsAreHops
<1>2. L \in Nat /\ L = 6 /\ MaxRedirects = 5
  BY DEF MaxRedirects
<1>3. \A n \in 1..L : answers[n] \in Responses(Origins)
  BY <1>2
<1> HIDE DEF f, L
<1>4. 0 \in Q
  <2>1. f[0].request = request /\ f[0].sent = <<>> /\ f[0].settled = {}
    BY <1>1
  <2>2. SafelySent(<<>>, request)
    BY DEF SafelySent
  <2>3. Fits(request, <<>>, request)
    <3>1. \A j : j \notin DOMAIN <<>>
      OBVIOUS
    <3> QED
      BY <3>1, Zenon DEF Fits
  <2>4. Len(f[0].sent) = 0 /\ Len(f[0].sent) <= MaxRedirects + 1 /\ Len(f[0].sent) <= 1 /\ 0 <= MaxRedirects
    BY <1>2, <2>1
  <2>5. ChainInv(f[0], request, 0)
    BY <2>1, <2>2, <2>3, <2>4, Zenon DEF ChainInv
  <2> QED
    BY <1>2, <2>5
<1>5. ASSUME NEW n \in 0..L, n < L, n \in Q PROVE n + 1 \in Q
  <2>1. n + 1 \in 1..L /\ n + 1 \in 0..L /\ (n + 1) - 1 = n /\ n \in Nat
    BY <1>2, <1>5
  <2>2. f[n + 1] = Hop(f[n], answers[n + 1]) /\ f[n] \in States(R)
    BY <1>1, <2>1
  <2>3. ChainInv(f[n], request, n)
    BY <1>5
  <2>4. ChainInv(Hop(f[n], answers[n + 1]), request, n + 1)
    BY <1>3, <2>1, <2>2, <2>3, HopKeepsTheChain
  <2> QED
    BY <2>1, <2>2, <2>4
<1>6. ChainInv(f[L], request, L)
  <2> HIDE DEF Q
  <2>1. 0..L \subseteq Q
    BY <1>2, <1>4, <1>5, PositionInduction
  <2>2. L \in Q
    BY <1>2, <2>1
  <2> QED
    BY <2>2 DEF Q
<1>7. f[L].settled # {}
  BY <1>2, <1>6 DEF ChainInv
<1>8. /\ Len(f[L].sent) <= MaxRedirects + 1
      /\ request.manual => Len(f[L].sent) = 1
      /\ SafelySent(f[L].sent, request)
  <2>1. Len(f[L].sent) \in Nat
    <3>1. f[L] \in States(R)
      BY <1>1, <1>2
    <3> QED
      BY <3>1 DEF States
  <2>2. Len(f[L].sent) > 0
    BY <1>6, <1>7 DEF ChainInv
  <2>3. request.manual => Len(f[L].sent) = 1
    <3>1. request.manual => Len(f[L].sent) <= 1
      BY <1>6, Zenon DEF ChainInv
    <3>2. ASSUME NEW k, k \in Nat, k > 0 PROVE k <= 1 => k = 1
      BY <3>2
    <3>3. Len(f[L].sent) <= 1 => Len(f[L].sent) = 1
      BY <2>1, <2>2, <3>2, Zenon
    <3> QED
      BY <3>1, <3>3, Zenon
  <2> QED
    BY <1>6, <2>3 DEF ChainInv
<1>9. PerformRequest(request, answers) = f[L]
  BY DEF PerformRequest, f, L
<1>10. RedirectsAreSafe(request, answers)
  BY <1>7, <1>8, <1>9, Zenon DEF RedirectsAreSafe, SafelySent
<1> QED
  BY <1>10

-----------------------------------------------------------------------------
(* A provider with tokens in memory.                                       *)

Results(Subjects, Scopes, Kinds) == [sub : Subjects, scopes : Scopes, principalType : SUBSET Kinds]
Operations(Texts, Rs) == [add : BOOLEAN, token : Texts, result : Rs]
Holdings(Texts, Rs) == SUBSET [token : Texts, result : Rs]
Carriers(Texts) == [header : Optional([scheme : STRING, token : Texts]), cookie : Optional(Texts), query : SUBSET Texts]
TokenSources == {"header", "cookie", "query"}

\* A request shows one token or none.
LEMMA OneTokenIsExtracted ==
  ASSUME NEW Texts, NEW req \in Carriers(Texts), IsFiniteSet(req.query), NEW sources \in Seq(TokenSources)
  PROVE  ExtractToken(sources, req) \in Optional(Texts)
<1>1. ASSUME NEW s \in TokenSources PROVE Extracted(s, req) \in Optional(Texts)
  <2>1. CASE s = "header"
    <3>1. Extracted(s, req) = {h.token : h \in {g \in req.header : g.scheme = "Bearer "}}
      BY <2>1 DEF Extracted
    <3>2. req.header \in Optional([scheme : STRING, token : Texts])
      BY DEF Carriers
    <3> QED
      BY <3>1, <3>2 DEF Optional
  <2>2. CASE s = "cookie"
    BY <2>2 DEF Extracted, Carriers
  <2>3. CASE s = "query"
    <3>1. Extracted(s, req) = IF Cardinality(req.query) = 1 THEN req.query ELSE {}
      BY <2>3 DEF Extracted
    <3>2. Cardinality(req.query) = 1 => \E x : req.query = {x}
      BY FS_Singleton
    <3>3. req.query \in SUBSET Texts
      BY DEF Carriers
    <3>4. Cardinality(req.query) = 1 => req.query \in Optional(Texts)
      BY <3>2, <3>3 DEF Optional
    <3>5. {} \in Optional(Texts)
      BY DEF Optional
    <3> QED
      BY <3>1, <3>4, <3>5
  <2> QED
    BY <2>1, <2>2, <2>3 DEF TokenSources
<1> DEFINE found == {i \in DOMAIN sources : Truthy(Extracted(sources[i], req)) # {}}
<1>2. CASE found = {}
  BY <1>2 DEF ExtractToken, Optional
<1>3. CASE found # {}
  <2>1. found \subseteq Nat
    OBVIOUS
  <2>2. PICK m \in found : \A k \in found : m <= k
    <3> HIDE DEF found
    <3> QED
      BY <1>3, <2>1, LeastExists
  <2>3. Min(found) \in found
    <3> HIDE DEF found
    <3> QED
      BY <2>2 DEF Min
  <2>4. sources[Min(found)] \in TokenSources
    BY <2>3
  <2>5. ExtractToken(sources, req) = Extracted(sources[Min(found)], req)
    BY <1>3 DEF ExtractToken
  <2> QED
    BY <1>1, <2>4, <2>5
<1> QED
  BY <1>2, <1>3

\* What the recursion over the operations gives.
LEMMA TokensFollowOperations ==
  ASSUME NEW Texts, NEW Rs, NEW operations \in Seq(Operations(Texts, Rs))
  PROVE  LET f == TokensAfter(operations)
         IN /\ f[0] = {}
            /\ \A n \in 1..Len(operations) :
                 f[n] = IF operations[n].add THEN AddToken(f[n - 1], operations[n].token, operations[n].result)
                        ELSE RemoveToken(f[n - 1], operations[n].token)
<1> DEFINE S == Holdings(Texts, Rs)
           L == Len(operations)
           After(n, t) == IF operations[n].add THEN AddToken(t, operations[n].token, operations[n].result)
                          ELSE RemoveToken(t, operations[n].token)
           step == [n \in 1..L |-> [t \in S |-> After(n, t)]]
           Is(f) == f = [n \in 0..L |-> IF n = 0 THEN {} ELSE After(n, f[n - 1])]
           held == TokensAfter(operations)
<1>1. L \in Nat /\ {} \in S
  BY DEF Holdings
<1>2. ASSUME NEW t \in S, NEW n \in 1..L PROVE After(n, t) \in S
  <2>1. operations[n] \in Operations(Texts, Rs)
    OBVIOUS
  <2>2. operations[n].token \in Texts /\ operations[n].result \in Rs
    BY <2>1 DEF Operations
  <2> QED
    BY <2>2 DEF AddToken, RemoveToken, Holdings
<1> HIDE DEF S, L, After
<1>3. step \in [1..L -> [S -> S]]
  BY <1>2
<1>4. \A n \in 1..L, t \in S : step[n][t] = After(n, t)
  OBVIOUS
<1> HIDE DEF step
<1>5. PICK f \in [0..L -> S] : Follows(f, L, {}, step)
  BY <1>1, <1>3, RecursionExists
<1>6. Is(f)
  <2>1. ASSUME NEW n \in 0..L
        PROVE  f[n] = IF n = 0 THEN {} ELSE After(n, f[n - 1])
    <3>1. n # 0 => n \in 1..L /\ n - 1 \in 0..L
      BY <1>1
    <3> QED
      BY <1>4, <1>5, <3>1 DEF Follows
  <2> QED
    BY <2>1
<1>7. held = CHOOSE g : Is(g)
  BY DEF TokensAfter, L, After
<1>8. Is(held)
  <2> HIDE DEF Is, held
  <2> QED
    BY <1>6, <1>7
<1> HIDE DEF held
<1>9. held[0] = {} /\ \A n \in 1..L : held[n] = After(n, held[n - 1])
  <2>1. 0 \in 0..L /\ \A n \in 1..L : n \in 0..L /\ n # 0
    BY <1>1
  <2> QED
    BY <1>8, <2>1
<1> QED
  BY <1>9 DEF held, L, After

\* The operations that say what a token stands for after the first n: the last on it, if it adds.
Standing(operations, n) ==
    {i \in 1..n : operations[i].add /\ \A j \in 1..n : i < j => operations[j].token # operations[i].token}

Pair(o) == [token |-> o.token, result |-> o.result]
HeldAfter(operations, n) == {Pair(operations[i]) : i \in Standing(operations, n)}

LEMMA HeldAfterOneMore ==
  ASSUME NEW Texts, NEW Rs, NEW operations \in Seq(Operations(Texts, Rs)), NEW n \in Nat,
         n + 1 \in 1..Len(operations)
  PROVE  HeldAfter(operations, n + 1)
           = IF operations[n + 1].add
             THEN AddToken(HeldAfter(operations, n), operations[n + 1].token, operations[n + 1].result)
             ELSE RemoveToken(HeldAfter(operations, n), operations[n + 1].token)
<1> DEFINE o == operations[n + 1]
           Kept == {i \in Standing(operations, n) : operations[i].token # o.token}
           Before == HeldAfter(operations, n)
<1>0. o.add \in BOOLEAN
  <2>1. o \in Operations(Texts, Rs)
    OBVIOUS
  <2> QED
    BY <2>1 DEF Operations
<1>1. Standing(operations, n + 1) = IF o.add THEN Kept \cup {n + 1} ELSE Kept
  <2>1. /\ n + 1 \in 1..(n + 1) /\ \A j \in 1..(n + 1) : ~(n + 1 < j)
        /\ \A i \in 1..n : i \in 1..(n + 1) /\ i < n + 1 /\ i # n + 1
        /\ \A i \in 1..(n + 1) : i = n + 1 \/ i \in 1..n
    OBVIOUS
  <2>2. ASSUME NEW i \in 1..n
        PROVE  i \in Standing(operations, n + 1) <=> i \in Kept
    BY <2>1 DEF Standing
  <2>3. n + 1 \in Standing(operations, n + 1) <=> o.add
    BY <2>1, Zenon DEF Standing
  <2>4. n + 1 \notin Kept
    BY DEF Standing
  <2>5. Standing(operations, n + 1) \subseteq 1..(n + 1) /\ Kept \subseteq 1..n
    BY DEF Standing
  <2> DEFINE now == Standing(operations, n + 1)
  <2> HIDE DEF Kept, o, now
  <2>6. ASSUME o.add PROVE now = Kept \cup {n + 1}
    BY <2>1, <2>2, <2>3, <2>5, <2>6 DEF now
  <2>7. ASSUME ~o.add PROVE now = Kept
    BY <2>1, <2>2, <2>3, <2>5, <2>7 DEF now
  <2> QED
    BY <1>0, <2>6, <2>7 DEF now
<1>2. {t \in Before : t.token # o.token} = {Pair(operations[i]) : i \in Kept}
  BY DEF HeldAfter, Pair
<1>3. [token |-> o.token, result |-> o.result] = Pair(o)
  BY DEF Pair
<1> HIDE DEF Kept, o, Before
<1>4. HeldAfter(operations, n + 1) = {Pair(operations[i]) : i \in Standing(operations, n + 1)}
  BY DEF HeldAfter
<1>5. Pair(operations[n + 1]) = Pair(o)
  BY DEF o
<1>6. ASSUME o.add PROVE HeldAfter(operations, n + 1) = {t \in Before : t.token # o.token} \cup {Pair(o)}
  <2>1. Standing(operations, n + 1) = Kept \cup {n + 1}
    BY <1>1, <1>6
  <2> QED
    BY <1>2, <1>4, <1>5, <2>1
<1>7. ASSUME ~o.add PROVE HeldAfter(operations, n + 1) = {t \in Before : t.token # o.token}
  BY <1>1, <1>2, <1>4, <1>7
<1> QED
  BY <1>3, <1>6, <1>7 DEF AddToken, RemoveToken, o, Before

\* Whatever was added, replaced and removed before: a request's token stands for what the last operation
\* on it says (validate, addToken and removeToken of memory-auth-provider.ts, extractToken of
\* abstract-auth-provider.ts).
THEOREM MemoryAnswers ==
  ASSUME NEW Texts, NEW Subjects, NEW Scopes, NEW Kinds,
         NEW operations \in Seq(Operations(Texts, Results(Subjects, Scopes, Kinds))),
         NEW sources \in Seq(TokenSources), NEW req \in Carriers(Texts), IsFiniteSet(req.query)
  PROVE  MemoryAnswersForTokens(operations, sources, req)
<1> DEFINE Rs == Results(Subjects, Scopes, Kinds)
           L == Len(operations)
           held == TokensAfter(operations)
           extracted == ExtractToken(sources, req)
           about == {i \in DOMAIN operations : {operations[i].token} = extracted}
           newest == {j \in about : \A k \in about : k <= j}
           last == {operations[i] : i \in newest}
           answer == IF extracted = {} THEN {} ELSE MemoryValidate(held[L], The(extracted), {"user"})
           Q == {n \in 0..L : held[n] = HeldAfter(operations, n)}
<1>1. held[L] = HeldAfter(operations, L)
  <2>1. L \in Nat
    OBVIOUS
  <2>2. /\ held[0] = {}
        /\ \A n \in 1..L : held[n] = IF operations[n].add THEN AddToken(held[n - 1], operations[n].token, operations[n].result)
                                      ELSE RemoveToken(held[n - 1], operations[n].token)
    BY TokensFollowOperations
  <2> HIDE DEF held
  <2>3. 0 \in Q
    BY <2>1, <2>2 DEF HeldAfter, Standing
  <2>4. ASSUME NEW n \in 0..L, n < L, n \in Q PROVE n + 1 \in Q
    <3>1. n \in Nat /\ n + 1 \in 1..L /\ n + 1 \in 0..L /\ (n + 1) - 1 = n
      BY <2>1, <2>4
    <3>2. held[n] = HeldAfter(operations, n)
      BY <2>4
    <3>3. held[n + 1] = IF operations[n + 1].add
                        THEN AddToken(held[n], operations[n + 1].token, operations[n + 1].result)
                        ELSE RemoveToken(held[n], operations[n + 1].token)
      BY <2>2, <3>1
    <3>4. held[n + 1] = HeldAfter(operations, n + 1)
      BY <3>1, <3>2, <3>3, HeldAfterOneMore
    <3> QED
      BY <3>1, <3>4
  <2> HIDE DEF Q
  <2>5. 0..L \subseteq Q
    BY <2>1, <2>3, <2>4, PositionInduction
  <2>6. L \in Q
    BY <2>1, <2>5
  <2> QED
    BY <2>6 DEF Q
<1>2. extracted \in Optional(Texts)
  BY OneTokenIsExtracted
<1> HIDE DEF extracted, held
<1>3. CASE extracted = {}
  BY <1>3 DEF MemoryAnswersForTokens, extracted
<1>4. CASE extracted # {}
  <2>1. PICK token : extracted = {token} /\ The(extracted) = token
    BY <1>2, <1>4, OfSome DEF Optional
  <2>2. about = {i \in 1..L : operations[i].token = token}
    BY <2>1
  <2>3. {i \in Standing(operations, L) : operations[i].token = token} = {i \in newest : operations[i].add}
    <3>1. \A i, j \in 1..L : i < j <=> ~(j <= i)
      OBVIOUS
    <3>2. ASSUME NEW i \in 1..L
          PROVE  i \in Standing(operations, L) /\ operations[i].token = token <=> i \in newest /\ operations[i].add
      BY <2>2, <3>1 DEF Standing
    <3>3. Standing(operations, L) \subseteq 1..L /\ newest \subseteq 1..L
      BY DEF Standing
    <3> HIDE DEF newest
    <3> QED
      BY <3>2, <3>3
  <2> DEFINE found == {operations[i].result : i \in {j \in Standing(operations, L) : operations[j].token = token}}
  <2>4. {t.result : t \in {u \in held[L] : u.token = token}} = found
    <3>1. \A i \in 1..L : Pair(operations[i]).token = operations[i].token /\ Pair(operations[i]).result = operations[i].result
      BY DEF Pair
    <3>2. held[L] = {Pair(operations[i]) : i \in Standing(operations, L)} /\ Standing(operations, L) \subseteq 1..L
      BY <1>1 DEF HeldAfter, Standing
    <3> QED
      BY <3>1, <3>2
  <2> DEFINE WithKind(r) == [r EXCEPT !.principalType = Else(@, {"user"})]
  <2>5. answer = {WithKind(r) : r \in found}
    <3> HIDE DEF found
    <3> QED
      BY <1>4, <2>1, <2>4 DEF MemoryValidate, WithPrincipalType
  <2>6. found \subseteq Rs
    <3>1. \A i \in 1..L : operations[i].result \in Rs
      <4> HIDE DEF Rs
      <4>1. ASSUME NEW i \in 1..L PROVE operations[i] \in Operations(Texts, Rs)
        BY DEF Rs
      <4> QED
        BY <4>1 DEF Operations
    <3>2. Standing(operations, L) \subseteq 1..L
      BY DEF Standing
    <3> HIDE DEF Rs
    <3> QED
      BY <3>1, <3>2
  <2>7. \A r \in Rs : WithKind(r).sub = r.sub
    BY DEF Results
  <2>8. {a.sub : a \in answer} = {r.sub : r \in found}
    <3> HIDE DEF found, answer, Rs, WithKind
    <3> QED
      BY <2>5, <2>6, <2>7
  <2>9. {r.sub : r \in found} = {o.result.sub : o \in {p \in last : p.add}}
    <3> HIDE DEF newest
    <3> QED
      BY <2>3
  <2> HIDE DEF answer, last
  <2>10. {a.sub : a \in answer} = {o.result.sub : o \in {p \in last : p.add}}
    BY <2>8, <2>9
  <2> QED
    BY <2>10 DEF MemoryAnswersForTokens, answer, last, extracted, held
<1> QED
  BY <1>3, <1>4
=============================================================================

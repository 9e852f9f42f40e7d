---------------------------- MODULE AuthDecisions ----------------------------
(***************************************************************************)
(* packages/webafx-auth: how one request is judged.  The bearer token it   *)
(* carries, by the providers that verify tokens themselves; the callback   *)
(* of a sign-in, from the answers of the identity provider to the session  *)
(* that is stored; and the redirects that the provider's own requests      *)
(* follow.                                                                 *)
(*                                                                         *)
(* Optional things are sets of at most one element; a configuration is a   *)
(* record of them, and what a request's own configuration leaves out comes *)
(* from the static one.                                                    *)
(***************************************************************************)
EXTENDS Integers, Sequences, FiniteSets, FiniteSetsExt

Else(a, b) == IF a # {} THEN a ELSE b           \* a ?? b
Truthy(a) == a \ {""}
The(a) == CHOOSE x \in a : TRUE

-----------------------------------------------------------------------------
(* abstract-auth-provider.ts                                               *)

\* A query parameter that is given twice is not a string.
Extracted(source, req) ==
    CASE source = "header" -> {h.token : h \in {g \in req.header : g.scheme = "Bearer "}}
      [] source = "cookie" -> req.cookie
      [] source = "query" -> IF Cardinality(req.query) = 1 THEN req.query ELSE {}
ExtractToken(sources, req) ==
    LET found == {i \in DOMAIN sources : Truthy(Extracted(sources[i], req)) # {}}
    IN IF found = {} THEN {} ELSE Extracted(sources[Min(found)], req)

\* The scopes are a text, or an array under either name.
DefaultClaimsMapper(claims) ==
    [sub |-> The(Else(Else(claims.sub, claims.subject), {"unknown"})),
     scopes |-> IF claims.scope.form = "text" THEN Truthy(claims.scope.values)
                ELSE IF claims.scopes.form = "array" THEN claims.scopes.values
                ELSE IF claims.scope.form = "array" THEN claims.scope.values ELSE {},
     principalType |-> {}]

\* What resolveUser and mapClaims answered comes first.
WithPrincipalType(result, principalType) ==
    {[r EXCEPT !.principalType = Else(@, principalType)] : r \in result}

-----------------------------------------------------------------------------
(* Verification of a token (external: jose).                               *)

JwtVerify(token, keys, o, now) ==
    /\ token.key \in keys
    /\ \A a \in o.algorithms : token.alg \in a
    /\ \A i \in o.issuer : token.issuer = i
    /\ \A a \in o.audience : a \in token.aud
    /\ \A e \in token.exp : e > now - o.tolerance

-----------------------------------------------------------------------------
(* jwt-auth-provider.ts                                                    *)

JwtValidate(c, token, now) ==
    LET verified ==
            JwtVerify(token, c.secret,
                      [algorithms |-> Else(c.algorithms, {{"HS256"}}), issuer |-> Truthy(c.issuer),
                       audience |-> Truthy(c.audience), tolerance |-> The(Else(c.clockTolerance, {0}))], now)
    IN IF (c.requireAudience = {TRUE} /\ Truthy(c.audience) = {}) \/ ~verified THEN {}
       ELSE WithPrincipalType({DefaultClaimsMapper(token.claims)}, c.principalType)

-----------------------------------------------------------------------------
(* oidc-auth-provider.ts: bearer tokens.  Keys(i): what the discovery of   *)
(* the issuer i names; {} when there is none.                              *)

VerifiedBy(issuer, tolerance, audience, token, Keys, now) ==
    /\ issuer \in DOMAIN Keys
    /\ JwtVerify(token, Keys[issuer],
                 [algorithms |-> {}, issuer |-> {issuer}, audience |-> Truthy(audience), tolerance |-> tolerance], now)

Configured(c) == Truthy(c.issuerUrl) # {} /\ Truthy(c.clientId) # {}

OidcValidate(c, token, Keys, now) ==
    LET tolerance == The(Else(c.clockTolerance, {30}))
    IN IF ~Configured(c) \/ (c.requireAudience = {TRUE} /\ Truthy(c.audience) = {}) THEN {}
       ELSE IF ~VerifiedBy(The(c.issuerUrl), tolerance, c.audience, token, Keys, now) THEN {}
       ELSE WithPrincipalType({DefaultClaimsMapper(token.claims)}, c.principalType)

\* Mutant of Effective: the factory's configuration stands alone.
FactoryAlone(static, own) == [of |-> own, audience |-> own.audience, requireAudience |-> own.requireAudience,
                              tolerance |-> The(Else(own.clockTolerance, {30})), resolveUser |-> own.resolveUser]

\* own: the configuration that configFactory returned, or the static one.
Effective(static, own) ==
    [of |-> own,
     audience |-> Else(own.audience, static.audience),
     requireAudience |-> Else(own.requireAudience, static.requireAudience),
     tolerance |-> The(Else(own.clockTolerance, Else(static.clockTolerance, {30}))),
     resolveUser |-> Else(own.resolveUser, static.resolveUser)]

\* authenticate, with a bearer token.  A user resolver is a function from subjects to users, or to
\* {} for a user it does not know.
OidcAuthenticate(static, factory, token, Keys, now) ==
    LET e == Effective(static, The(Else(factory, {static})))
        mapped == DefaultClaimsMapper(token.claims)
    IN IF ~Configured(e.of) \/ (e.requireAudience = {TRUE} /\ Truthy(e.audience) = {}) THEN {}
       ELSE IF ~VerifiedBy(The(e.of.issuerUrl), e.tolerance, e.audience, token, Keys, now) THEN {}
       ELSE IF e.resolveUser = {} THEN WithPrincipalType({mapped}, static.principalType)
       ELSE WithPrincipalType({[mapped EXCEPT !.sub = u] : u \in The(e.resolveUser)[mapped.sub]}, static.principalType)

-----------------------------------------------------------------------------
(* memory-auth-provider.ts                                                 *)

\* A set of tokens and who they stand for.
MemoryValidate(tokens, token, principalType) ==
    WithPrincipalType({t.result : t \in {u \in tokens : u.token = token}}, principalType)
AddToken(tokens, token, result) == {t \in tokens : t.token # token} \cup {[token |-> token, result |-> result]}
RemoveToken(tokens, token) == {t \in tokens : t.token # token}

\* What is there after each of a provider's first operations.
TokensAfter(operations) ==
    LET after[n \in 0..Len(operations)] ==
            IF n = 0 THEN {}
            ELSE LET o == operations[n]
                 IN IF o.add THEN AddToken(after[n - 1], o.token, o.result) ELSE RemoveToken(after[n - 1], o.token)
    IN after

-----------------------------------------------------------------------------
(* auth-factory.ts                                                         *)

\* The kind of provider, and the configuration it gets: {} where the factory throws.
CreateAuthProvider(c) ==
    LET whole == {Truthy(c.introspectionUrl), Truthy(c.clientId), Truthy(c.clientSecret)}
        Of(fields) == {[f \in fields \cup {"type", "audience", "principalType"} |-> c[f]]}
        token == {"requireAudience", "clockTolerance"}
    IN CASE c.type = "jwt" -> IF Truthy(c.secret) = {} THEN {} ELSE Of({"secret", "algorithms", "issuer"} \cup token)
         [] c.type = "introspection" /\ {} \notin whole ->
                Of({"introspectionUrl", "clientId", "clientSecret", "configFactory"})
         [] c.type = "introspection" /\ {} \in whole -> IF c.configFactory = {} THEN {} ELSE Of({"configFactory"})
         [] c.type = "oidc" -> IF Truthy(c.issuerUrl) = {} THEN {}
                               ELSE Of({"issuerUrl", "clientId", "clientSecret"} \cup token)
         [] c.type = "memory" -> Of({"validTokens"})
         [] OTHER -> {}

-----------------------------------------------------------------------------
(* oidc-auth-provider.ts and oidc-auth-controller.ts: a sign-in.           *)

\* resolveConfig: what the request's configuration names replaces the static one.
ResolveConfig(static, own) ==
    IF own = {} THEN static
    ELSE [f \in DOMAIN static |-> IF f \in DOMAIN The(own) THEN The(own)[f] ELSE static[f]]

\* The controller hands over only these parameters of the login request.
GetLoginParams(query) == [p \in {"prompt", "login_hint"} \cap {q \in DOMAIN query : query[q] # ""} |-> query[p]]

\* The parameters of the URL, where extra ones replace those of their name, and what is remembered
\* with the state: secrets are fresh values.
BuildAuthorizationUrl(config, extra, secrets) ==
    IF ~Configured(config) \/ Truthy(config.redirectUri) = {} THEN {}
    ELSE LET own == [code_challenge |-> secrets.verifier, state |-> secrets.state, nonce |-> secrets.nonce,
                     redirect_uri |-> The(config.redirectUri),
                     scope |-> The(Else(config.scopes, {"openid profile email"}))]
         IN {[params |-> [p \in DOMAIN own \cup DOMAIN extra |-> IF p \in DOMAIN extra THEN extra[p] ELSE own[p]],
              remembered |-> secrets]}

FlowCodes == {"OAUTH_INVALID_RESPONSE", "OAUTH_JWT_CLAIM_COMPARISON_FAILED", "OAUTH_JWT_TIMESTAMP_CHECK_FAILED",
              "OAUTH_KEY_SELECTION_FAILED", "OAUTH_PARSE_ERROR"}
NotConform == "OAUTH_RESPONSE_IS_NOT_CONFORM"

\* An error of the client library: its class, its code, and the HTTP status of it or of its cause.
IsAuthorizationFlowError(e) ==
    CASE e.class \in {"ResponseBodyError", "WWWAuthenticateChallengeError"} -> \A s \in e.status : s < 500
      [] e.class = "ClientError" /\ e.code = NotConform -> e.status # {} /\ \A s \in e.status : s < 500
      [] e.class = "ClientError" -> e.code \in FlowCodes
      [] OTHER -> FALSE
IsUserInfoForbidden(e) ==
    \/ e.class = "WWWAuthenticateChallengeError" /\ e.status = {403}
    \/ e.class = "ClientError" /\ e.code = NotConform /\ e.status = {403}

Tokens(subject, claims) == [kind |-> "tokens", subject |-> subject, claims |-> claims]
Failed(kind) == [kind |-> kind]

\* answer: an error, or the ID token's claims, if any.  The library checked them, the nonce and,
\* where the static configuration does not disable it, the signature.
ExchangeCode(static, config, answer) ==
    LET verified == static.verifyIdTokenSignature # {FALSE}
        claims == IF verified THEN answer.idToken ELSE {}
        subject == UNION {c.sub : c \in claims}
    IN IF ~Configured(config) THEN Failed("thrown")
       ELSE IF answer.error # {}
            THEN Failed(IF IsAuthorizationFlowError(The(answer.error)) THEN "refused" ELSE "thrown")
       ELSE IF subject # {} THEN Tokens(subject, claims)
       ELSE IF verified /\ static.verifyUserInfoSubject # {FALSE} /\ answer.idToken # {} THEN Failed("refused")
       ELSE Tokens({}, {})

FetchUserInfo(config, expected, info) ==
    IF ~Configured(config) THEN Failed("thrown")
    ELSE IF info.error # {} THEN Failed(IF IsUserInfoForbidden(The(info.error)) THEN "forbidden" ELSE "thrown")
    ELSE IF expected # {} /\ info.claims.sub # expected THEN Failed("mismatch")
    ELSE [kind |-> "claims", claims |-> info.claims]

\* pickIdentityClaims: {} without a subject.
PickIdentityClaims(claims) ==
    {[sub |-> c.sub, email |-> c.email, name |-> c.name, other |-> {}] : c \in {d \in claims : d.sub # {}}}

Responded(status, session, stateKept) == [status |-> status, session |-> session, stateKept |-> stateKept]

HandleUserInfoDenied(static, tokens) ==
    LET identity == IF static.userInfoDenied = {"unauthorized-session"} THEN PickIdentityClaims(tokens.claims) ELSE {}
    IN IF identity = {} THEN Responded(403, {}, FALSE)
       ELSE Responded(302, {[user |-> i, authorized |-> FALSE] : i \in identity}, FALSE)

Admit(static, config, tokens, info) ==
    LET expected == IF static.verifyUserInfoSubject # {FALSE} THEN tokens.subject ELSE {}
        answer == FetchUserInfo(config, expected, info)
    IN CASE answer.kind = "thrown" -> Responded(500, {}, TRUE)
         [] answer.kind = "mismatch" -> Responded(400, {}, FALSE)
         [] answer.kind = "forbidden" -> HandleUserInfoDenied(static, tokens)
         [] OTHER -> Responded(302, {[user |-> answer.claims, authorized |-> TRUE]}, FALSE)

\* handleCallback: query is what the browser brought back, remembered the state behind its cookie.
HandleCallback(static, own, query, remembered, answer, info) ==
    LET config == ResolveConfig(static, own)
        tokens == ExchangeCode(static, config, answer)
    IN IF Truthy(query.error) # {} \/ Truthy(query.code) = {} THEN Responded(400, {}, TRUE)
       ELSE IF remembered = {} \/ query.state # remembered THEN Responded(400, {}, TRUE)
       ELSE CASE tokens.kind = "thrown" -> Responded(500, {}, TRUE)
              [] tokens.kind = "refused" -> Responded(400, {}, FALSE)
              [] OTHER -> Admit(static, config, tokens, info)

-----------------------------------------------------------------------------
(* tls-fetch.ts: the requests of the provider where certificates or plain  *)
(* HTTP are configured.                                                    *)

MaxRedirects == 5
Credentials == {"authorization", "cookie", "proxy-authorization"}
OfTheBody == {"content-length", "content-type", "content-encoding", "content-language", "content-location"}

Sent(request) ==
    [request EXCEPT !.headers = IF request.body THEN @ \cup {"content-length"} ELSE @]

NextHeaders(request, url, preserve) ==
    (request.headers \ (IF url.origin # request.url.origin THEN Credentials ELSE {}))
    \ (IF preserve THEN {} ELSE OfTheBody)

\* One call of performRequest, answered a.  so: what it is called with and what was sent before it; a
\* call that settles, which an error does with 0, makes no other.
Hop(so, a) ==
    LET this == Sent(so.request)
        url == The(a.location)
        preserve == a.status \in {307, 308}
        Settled(status) == [so EXCEPT !.sent = Append(@, this), !.settled = {status}]
    IN IF so.settled # {} THEN so
       ELSE IF a.status \notin 300..399 \/ this.manual \/ a.location = {} THEN Settled(a.status)
       ELSE IF Len(so.sent) >= MaxRedirects \/ (this.url.secure /\ ~url.secure) THEN Settled(0)
       ELSE [so EXCEPT !.sent = Append(@, this),
                       !.request = [this EXCEPT !.url = url, !.headers = NextHeaders(this, url, preserve),
                                                !.method = IF preserve THEN @ ELSE "GET", !.body = @ /\ preserve]]

\* After each of the calls that there can be.  answers: the status and the location of each response.
Calls(request, answers) ==
    LET after[n \in 0..(MaxRedirects + 1)] ==
            IF n = 0 THEN [request |-> request, sent |-> <<>>, settled |-> {}] ELSE Hop(after[n - 1], answers[n])
    IN after
PerformRequest(request, answers) == Calls(request, answers)[MaxRedirects + 1]

-----------------------------------------------------------------------------

\* Whichever provider verifies a token and wherever its configuration comes from: what is accepted
\* was signed for the issuer, for the audience that is configured anywhere, which must be there when
\* it is required anywhere, and is not past its expiry; and a factory that returns the static
\* configuration, or leaves out what the static one says, decides like the static one.
BearerIsJudged(static, own, token, Keys, now) ==
    LET accepted == OidcAuthenticate(static, {own}, token, Keys, now) # {}
        Opt(a) == IF own[a] # {} THEN own[a] ELSE static[a]
        audience == Opt("audience")
        bare == [static EXCEPT !.audience = {}, !.requireAudience = {}, !.clockTolerance = {}, !.resolveUser = {}]
        alone == OidcAuthenticate(static, {}, token, Keys, now)
    IN /\ accepted => /\ token.key \in Keys[The(own.issuerUrl)] /\ token.issuer = The(own.issuerUrl)
                      /\ Truthy(audience) \subseteq token.aud
                      /\ Opt("requireAudience") = {TRUE} => token.aud # {}
                      /\ \A e \in token.exp : e > now - The(Else(Opt("clockTolerance"), {30}))
       /\ OidcAuthenticate(static, {static}, token, Keys, now) = alone
       /\ OidcAuthenticate(static, {bare}, token, Keys, now) = alone
       /\ static.resolveUser = {} => OidcValidate(static, token, Keys, now) = alone

\* A session that is stored is of the user the identity provider vouched for: authorized, with the
\* answer of its UserInfo endpoint, whose subject is that of the verified ID token wherever there
\* is one and the check is on; unauthorized, only with claims of a verified ID token.  No
\* configuration of a request turns the verification off.  The state outlives only what may be
\* tried again, and a sign-in that was refused for good never leaves it.
CallbackIsJudged(static, own, query, remembered, answer, info) ==
    LET out == HandleCallback(static, own, query, remembered, answer, info)
        idSubject == UNION {c.sub : c \in answer.idToken}
    IN /\ out.session # {} => out.status = 302 /\ query.state = remembered /\ answer.error = {} /\ ~out.stateKept
       /\ \A s \in out.session :
            /\ s.authorized /\ static.verifyIdTokenSignature # {FALSE} /\ static.verifyUserInfoSubject # {FALSE}
                 /\ answer.idToken # {} => s.user.sub = idSubject /\ idSubject # {}
            /\ ~s.authorized => /\ static.verifyIdTokenSignature # {FALSE} /\ s.user.sub = idSubject
                                /\ s.user.other = {} /\ info.error # {}
       /\ \A e \in answer.error : out.status = 400 /\ query.state = remembered /\ ~out.stateKept =>
                                     \A s \in e.status : s < 500

\* A request is who its first non-empty source says, by what was last done with that token; another
\* source is not tried for a token that is unknown.
MemoryAnswersForTokens(operations, sources, req) ==
    LET extracted == ExtractToken(sources, req)
        about == {i \in DOMAIN operations : {operations[i].token} = extracted}
        last == {operations[i] : i \in {j \in about : \A k \in about : k <= j}}
        answer == IF extracted = {} THEN {} ELSE MemoryValidate(TokensAfter(operations)[Len(operations)], The(extracted), {"user"})
    IN {a.sub : a \in answer} = {o.result.sub : o \in {p \in last : p.add}}

\* What the factory makes of a configuration decides like the configuration, and it makes nothing of
\* an incomplete one that could verify no token.
FactoryIsFaithful(c, token, Keys, now) ==
    LET made == CreateAuthProvider(c)
        Decision(d) == CASE c.type = "jwt" -> JwtValidate(d, token, now)
                         [] c.type = "oidc" -> OidcValidate(d, token, Keys, now)
    IN IF made = {} THEN token.key # "" => Decision(c) = {}
       ELSE Decision(The(made)) = Decision(c)

\* The controller's sign-in sends the user away with the state, nonce and challenge that the callback
\* will be held against, whatever the browser's query asks for.
LoginIsRemembered(static, own, query, secrets) ==
    \A b \in BuildAuthorizationUrl(ResolveConfig(static, own), GetLoginParams(query), secrets) :
        /\ b.params.state = b.remembered.state /\ b.params.nonce = b.remembered.nonce
        /\ b.params.code_challenge = b.remembered.verifier
        /\ {b.params.redirect_uri} = (IF own # {} /\ "redirectUri" \in DOMAIN The(own) THEN The(own) ELSE static).redirectUri

\* Every request is answered.  A credential leaves its origin at no hop, not even for one that leads back; a body goes with
\* its length and is sent again only by the method it was meant for; no redirect leads from HTTPS
\* to HTTP, and there are at most five.
RedirectsAreSafe(request, answers) ==
    LET sent == PerformRequest(request, answers).sent
    IN /\ PerformRequest(request, answers).settled # {}
       /\ Len(sent) <= MaxRedirects + 1 /\ (request.manual => Len(sent) = 1)
       /\ \A i \in DOMAIN sent :
            /\ sent[i].headers \cap Credentials # {} =>
                 \A j \in 1..i : sent[j].url.origin = request.url.origin
            /\ "content-length" \in sent[i].headers <=> sent[i].body
            /\ sent[i].body => sent[i].method = request.method
            /\ \A j \in 1..i : sent[j].url.secure => sent[i].url.secure
=============================================================================

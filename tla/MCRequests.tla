------------------------------ MODULE MCRequests ------------------------------
(* What a request meets: its bearer token or sign-in, and the redirects of the provider's own         *)
(* requests; identities with their claims; settings, builders, windows of requests, and applications; *)
(* catalogs of two keys and up to two files, and two sources of translations with their loads.        *)
EXTENDS Translation

A == INSTANCE AuthDecisions
Z == INSTANCE Authorization
W == INSTANCE RequestHandling

-----------------------------------------------------------------------------
(* Configurations of two issuers, sign-ins with every answer of the identity provider, redirects.     *)

Now == 100
IssuerKeys == [one |-> {"key1"}, two |-> {"key2"}]
ClaimsOf(sub) == [sub |-> {sub}, subject |-> {}, scope |-> [form |-> "text", values |-> {"", "read"}],
                scopes |-> [form |-> "none", values |-> {}]]
Bearers ==
    {[key |-> k, alg |-> alg, issuer |-> i, aud |-> aud, exp |-> exp, claims |-> ClaimsOf(sub)] :
        k \in {"key1", "key2"}, alg \in {"HS256", "RS256"}, i \in {"one", "two"}, aud \in {{}, {"shop"}},
        exp \in {{}, {80}, {101}}, sub \in {"ann"}}

Configurations ==
    {[issuerUrl |-> i, clientId |-> c, audience |-> a, requireAudience |-> r, clockTolerance |-> t,
      resolveUser |-> u, principalType |-> {}] :
        i \in {{"one"}, {"two"}}, c \in {{}, {"app"}}, a \in {{}, {""}, {"shop"}, {"desk"}}, r \in {{}, {TRUE}},
        t \in {{}, {0}}, u \in {{}, {[ann |-> {"local"}]}, {[ann |-> {}]}}}
Statics == {c \in Configurations : c.issuerUrl = {"one"} /\ c.clientId = {"app"}}
Owns == {c \in Configurations : Cardinality(c.resolveUser) = 0 \/ c.requireAudience = {}}

Factories ==
    {[type |-> type, secret |-> s, algorithms |-> alg, issuer |-> i, issuerUrl |-> i, clientId |-> c, clientSecret |-> {},
      audience |-> a, requireAudience |-> r, clockTolerance |-> t, principalType |-> {"service"}] :
        type \in {"jwt", "oidc"}, s \in {{}, {"key1"}}, alg \in {{}, {{"RS256"}}}, i \in {{}, {"one"}}, c \in {{}, {"app"}},
        a \in {{}, {"shop"}}, r \in {{}, {TRUE}}, t \in {{}, {30}}}

-----------------------------------------------------------------------------

SignIns ==
    {[issuerUrl |-> {"one"}, clientId |-> {"app"}, redirectUri |-> {"/back"}, scopes |-> s, verifyIdTokenSignature |-> v,
      verifyUserInfoSubject |-> u, userInfoDenied |-> d] :
        s \in {{}, {"openid"}}, v \in {{}, {TRUE}, {FALSE}}, u \in {{}, {TRUE}, {FALSE}}, d \in {{}, {"reject"}, {"unauthorized-session"}}}
OwnSignIns ==
    {{}} \cup {{[issuerUrl |-> {"two"}, clientId |-> c, redirectUri |-> {"/two"}]} : c \in {{}, {"app2"}}}
Queries ==
    {[error |-> e, code |-> c, state |-> s] : e \in {{}, {"access_denied"}}, c \in {{}, {"code"}}, s \in {{}, {"s1"}, {"s2"}}}
\* The class and the code of what the library throws, with the status where there was a response.
LibraryErrors ==
    {[class |-> k[1], code |-> k[2], status |-> {s}] :
        k \in {<<"ResponseBodyError", "">>, <<"WWWAuthenticateChallengeError", "">>, <<"ClientError", A!NotConform>>},
        s \in {401, 403, 503}}
    \cup {[class |-> k[1], code |-> k[2], status |-> {}] :
        k \in {<<"ClientError", A!NotConform>>, <<"ClientError", "OAUTH_JWT_TIMESTAMP_CHECK_FAILED">>,
               <<"ClientError", "OAUTH_TIMEOUT">>, <<"TypeError", "">>}}
IdTokens == {{}} \cup {{[sub |-> s, email |-> {}, name |-> {"n"}]} : s \in {{}, {"ann"}}}
Answers ==
    {[error |-> e, idToken |-> i] : e \in {{}} \cup {{x} : x \in LibraryErrors}, i \in IdTokens}
Infos ==
    {[error |-> e, claims |-> [sub |-> s, email |-> {}, name |-> {}, other |-> {"role"}]] :
        e \in {{}} \cup {{x} : x \in {y \in LibraryErrors : y.status \in {{403}, {503}}}}, s \in {{}, {"ann"}, {"bob"}}}

LoginQueries ==
    {("prompt" :> p @@ "login_hint" :> h @@ "state" :> "forged" @@ "redirect_uri" :> "/else") : p \in {"", "login"}, h \in {"", "ann"}}
Secrets == [verifier |-> "v1", state |-> "s1", nonce |-> "n1"]

-----------------------------------------------------------------------------

Urls == {[origin |-> o, secure |-> TRUE] : o \in {"one", "two"}} \cup {[origin |-> "plain", secure |-> FALSE]}
RedirectRequests ==
    {[url |-> u, method |-> m[1], body |-> m[2], manual |-> manual,
      headers |-> {"authorization", "cookie", "accept"} \cup (IF m[2] THEN {"content-type"} ELSE {})] :
        u \in Urls, m \in {<<"GET", FALSE>>, <<"POST", TRUE>>}, manual \in BOOLEAN}
Redirects == {[status |-> s, location |-> l] : s \in {302, 307}, l \in {{u} : u \in Urls}}
Ends == {[status |-> 200, location |-> {}], [status |-> 304, location |-> {}]}
\* What comes after the answers of a probe: one more redirect, until an end.
Rests == {<<last, last, last, e, e, e>> : last \in Redirects, e \in Ends}

-----------------------------------------------------------------------------

Result(sub) == [sub |-> sub, scopes |-> {}, principalType |-> {}]
MemoryOperations == {[add |-> a, token |-> t, result |-> Result(sub)] : a \in BOOLEAN, t \in {"t1", "t2"}, sub \in {"ann", "bob"}}
Carried ==
    {[header |-> h, cookie |-> c, query |-> q] :
        h \in {{}} \cup {{[scheme |-> s, token |-> "t1"]} : s \in {"Bearer ", "Basic "}}, c \in {{}, {""}, {"t2"}},
        q \in {{}, {"t1"}, {"t1", "t2"}}}
SourceOrders == {<<"header">>, <<"cookie", "header">>, <<"query", "cookie">>}

-----------------------------------------------------------------------------
(* Identities, settings, builders, limiters, applications.                                            *)

Key(source, value) == [source |-> source, value |-> value]
AllKeys == {Key("role", "admin"), Key("role", "staff"), Key("permission", "write"), Key("scp", "Files.Read"), Key("", "plain")}
Grant(roles, permissions) == [roles |-> roles, permissions |-> permissions]
Maps ==
    {m @@ n : m \in {[k \in {} |-> Grant(<<>>, <<>>)], Key("role", "admin") :> Grant(<<>>, <<>>),
                     Key("role", "admin") :> Grant(<<"staff", "staff", "boss">>, <<"write", Z!Foreign>>)},
              n \in {[k \in {} |-> Grant(<<>>, <<>>)], Key("scp", "Files.Read") :> Grant(<<"boss">>, <<"read">>)}}
Allowed == {[roles |-> r, permissions |-> p] : r \in {{}, {"admin", "staff"}}, p \in {{}, {"write"}}}
KeySequences == UNION {[1..n -> AllKeys] : n \in 0..3}

List(s) == [form |-> "list", entries |-> s]
Claims ==
    {[c \in {} |-> Z!Absent], "roles" :> List(<<"admin">>), "roles" :> [form |-> "text", entries |-> <<"admin">>],
     "roles" :> List(<<Z!Foreign, "staff">>) @@ "permissions" :> List(<<"write">>) @@ "groups" :> List(<<"g">>),
     "scp" :> [form |-> "text", entries |-> <<"Files.Read", "">>]}
Token(form, claims) == [form |-> form, claims |-> claims]
Tokens == {[idToken |-> Token("jwt", b), accessToken |-> Token(f, c)] : b, c \in Claims, f \in {"jwt", "opaque"}}
Requirements ==
    {[roles |-> r, permissions |-> p, mode |-> m] : r \in {{}, {"staff"}}, p \in {{}, {"write", "read"}}, m \in {"any", "all"}}

-----------------------------------------------------------------------------

Files == {{}} \cup {{f} : f \in {[k \in {} |-> 0], "PORT" :> 3000, "PORT" :> W!InvalidPort, "ENV_MODE" :> "development",
                                 "LOG_LEVEL" :> "INFO" @@ "DEBUG" :> TRUE, "SHUTDOWN_TIMEOUT" :> 3, "BUCKET" :> "b"}}
Configs == {[k \in {} |-> 0], "PORT" :> 80, "PORT" :> W!InvalidPort, "ENV_MODE" :> "test", "BUCKET" :> "a"}

Call(name) == [name |-> name, path |-> "/a", service |-> " ", fn |-> "f", schema |-> "s"]
Calls == {Call("get"), [Call("post") EXCEPT !.path = "/b"], Call("secure"), [Call("secure") EXCEPT !.service = "user"],
          [Call("secure") EXCEPT !.service = "agent"], Call("middleware"), [Call("middleware") EXCEPT !.fn = "g"],
          Call("authorize"), Call("validate"), Call("handle")}

Limiters == {[max |-> m, window |-> w] : m \in {1, 2}, w \in {2, 3}}
MaxNow == 6
MaxLog == 5
Keys == {"a", "b"}
Idle == [hits |-> W!NoHits, log |-> [k \in Keys |-> <<>>], now |-> 0]

-----------------------------------------------------------------------------

Paths == {"/health", "/", "/app", "/items", "/app.js"}
NoInput == [k \in {} |-> 0]
Csrf(expected, cookie) ==
    [kind |-> "csrf", name |-> "csrf", priority |-> 50, health |-> {}, files |-> {}, spa |-> FALSE, under |-> {},
     csrf |-> [safeMethods |-> {"GET", "HEAD", "OPTIONS"}, exempt |-> {<<"POST", "/">>}, expected |-> expected, cookie |-> cookie]]
StaticFiles(name, priority, files, spa, under) ==
    [kind |-> "static", name |-> name, priority |-> priority, health |-> {}, files |-> files, spa |-> spa, under |-> under]
Auth(healthy) == [kind |-> "auth", name |-> "auth", priority |-> 20, health |-> {healthy}]
PluginLists ==
    {<<>>, <<Csrf({}, TRUE), StaticFiles("static-files", 20, {"/app.js"}, TRUE, Paths), Auth(TRUE)>>,
     <<Csrf({[ann |-> {"t1"}, nobody |-> {}]}, FALSE), Auth(FALSE)>>,
     <<StaticFiles("static-files:/app", 60, {"/items"}, TRUE, {"/app"}), Csrf({[ann |-> {""}, nobody |-> {}]}, TRUE)>>}
Schema == {[i \in {"id" :> 1, "id" :> 2} |-> "id" :> 7]}
Item(method, secure, authorize, validation) ==
    [method |-> method, path |-> {"/items"}, secure |-> secure, authorize |-> authorize, validation |-> validation,
     middleware |-> <<>>, handler |-> W!Answer("", 200)]
RouteLists ==
    {<<>>} \cup
    {<<Item(m, s, a, v)>> : m \in {"GET", "POST"}, s \in {{}, {"true"}, {"agent"}, {"nothing"}}, a \in {{}, {{{"ann"}}}}, v \in {{}, Schema}}
    \cup {<<[Item("POST", {}, {}, {}) EXCEPT !.middleware = <<W!Pass, W!Throw("limit", 429)>>],
            [Item("POST", {}, {}, {}) EXCEPT !.handler = W!Throw("", 409)]>>,
          <<[Item("GET", {}, {}, {}) EXCEPT !.path = Paths, !.handler = W!Throw("", 500)], Item("GET", {}, {}, {})>>}
Applications ==
    {[plugins |-> p, routes |-> r, mode |-> m, services |-> {"user", "agent"}] :
        p \in PluginLists, r \in RouteLists, m \in {"production", "test"}}
Requests ==
    {[method |-> m, path |-> path, extension |-> path = "/app.js", acceptsHtml |-> html, malformedBody |-> bad /\ m = "POST",
      user |-> who, token |-> token, cookie |-> IF html THEN {"t1"} ELSE {}, params |-> "id" :> 1, query |-> q,
      body |-> IF m = "POST" THEN "id" :> 2 ELSE NoInput,
      principal |-> [user |-> IF who = "nobody" THEN {} ELSE {who}, agent |-> IF bad THEN {"error"} ELSE {"bot"}]] :
        m \in {"GET", "HEAD", "POST"}, path \in Paths, html, bad \in BOOLEAN, who \in {"ann", "nobody"},
        token \in {{}, {""}, {"t1"}}, q \in {NoInput, "id" :> 3}}

-----------------------------------------------------------------------------
(* Translations.                                                                                      *)

nl == <<"nl">>
nlNL == <<"nl", "_", "NL">>
nlDash == <<"nl", "-", "NL">>
Locales == {nl, nlNL, nlDash, <<"en">>, <<"nl", "_">>, <<"zh", "-", "Hant", "-", "TW">>, <<"zh", "_", "Hant", "-", "TW">>, <<"zh">>}
Text(s) == <<[path |-> "", text |-> s, default |-> {}]>>
Greeting == Text("hi ") \o <<[path |-> "name", text |-> "", default |-> {"you"}], [path |-> "day", text |-> "", default |-> {}]>>
ValuesOf(n) == {<<Text("a")>>, <<Text("b"), Greeting>>, <<Greeting>>}
Entries == {Nothing} \cup {l :> v : l \in Locales, v \in ValuesOf(1)}
           \cup {l :> <<Text("x")>> @@ m :> <<Text("y")>> : l \in {nl, <<"zh">>}, m \in Locales}
Params == {Nothing, "name" :> "Ann", "name" :> ""}

TextItem(key, text) == [key |-> key, is |-> "text", text |-> text, texts |-> Nothing]
Object(key, texts) == [key |-> key, is |-> "object", text |-> <<>>, texts |-> texts]
Datas == {<<>>, <<TextItem("k", <<"1">>)>>, <<TextItem("k", <<"2">>), TextItem("l", <<"3", "4">>)>>,
          <<Object("l", nl :> <<"5">> @@ <<"en">> :> <<"6">>)>>, <<Object("k", nl :> <<"7">>)>>,
          <<Object("k", nl :> <<"8">>), TextItem("l", <<"9">>)>>}
Names == {<<"nl", ".", "json">>, <<"app", ".", "en", ".", "json">>}
CatalogFiles == {[name |-> n, data |-> d, malformed |-> m] : n \in Names, d \in Datas, m \in {FALSE}}
         \cup {[name |-> nl \o <<".", "json">>, data |-> <<>>, malformed |-> TRUE]}
Others == {Nothing, RowsLoad(<<[key |-> "k", locale |-> nl, value |-> <<"db">>], [key |-> "m", locale |-> nl, value |-> <<"db">>]>>)}
ContentNames == {<<"nl", ".", "a", ".", "b", ".", "md">>, <<"nl", ".", "a", ".", "html">>, <<"nl", ".", "md">>, <<".", "a", ".", "md">>,
                 <<"nl", ".", ".", "md">>, <<"readme">>, <<"nl", "-", "NL", ".", "a", ".", "png">>}

Headers == LET e == {[locale |-> l, quality |-> q] : l \in {nlDash, <<"en">>, <<"*">>}, q \in {-1, 0, 5, 10}}
           IN UNION {[1..n -> e] : n \in 0..2} \cup {<<a, [locale |-> <<"de">>, quality |-> 5], b>> : a, b \in e}
Ask == {[query |-> q, acceptLanguage |-> h, cookie |-> c] : q \in {{}, {<<>>}, {nlDash}}, h \in Headers, c \in {{}, {<<"fr">>}}}

MaxVersions == 2
MaxLoads == 2
Newer(a, b) == [s \in DOMAIN a |-> IF a[s] > b[s] THEN a[s] ELSE b[s]]
Reloads(i) ==
    {[i EXCEPT !.versions[s] = @ + 1] : s \in {t \in {1, 2} : i.versions[t] < MaxVersions}}
    \cup {ReloadSources(i) : more \in {Len(i.loads)} \cap 0..(MaxLoads - 1)}
    \cup {LoadNext(i, k) : k \in {l \in DOMAIN i.loads : i.loads[l].open /\ Len(i.loads[l].read) < 2}}
    \cup {Swap(i, k) : k \in {l \in DOMAIN i.loads : i.loads[l].open /\ Len(i.loads[l].read) = 2}}
    \cup {LoadFails(i, k) : k \in {l \in DOMAIN i.loads : i.loads[l].open}}

-----------------------------------------------------------------------------

\* With a token or a sign-in, everything that it is judged with.
Judged(p) == [keys |-> IssuerKeys, now |-> Now] @@ p
Start == {[of |-> "memory", operations |-> <<>>, orders |-> SourceOrders, requests |-> Carried]}
         \cup {[of |-> "bearer", static |-> c] : c \in Statics}
         \cup {Judged([of |-> "factory", c |-> c, tokens |-> Bearers]) : c \in Factories}
         \cup {[of |-> "callback", static |-> c, answer |-> a, owns |-> OwnSignIns, queries |-> Queries, infos |-> Infos,
                remembered |-> {"s1"}, logins |-> LoginQueries, secrets |-> Secrets] : c \in SignIns, a \in Answers}
         \cup {[of |-> "request", request |-> r, answers |-> <<>>, rests |-> Rests] : r \in RedirectRequests}
         \cup {[of |-> "keys", map |-> m, allowed |-> a, lists |-> KeySequences, tokens |-> Tokens, infos |-> Claims,
                requirements |-> Requirements] : m \in Maps, a \in Allowed}
         \cup {[of |-> "settings", config |-> c, files |-> {<<f, g>> : f, g \in Files}] : c \in Configs}
         \cup {[of |-> "builder", calls |-> <<>>]}
         \cup {[of |-> "limiter", limiter |-> l, s |-> Idle] : l \in Limiters}
         \cup {[of |-> "application", app |-> a, requests |-> Requests] : a \in Applications}
         \cup {[of |-> "catalog", entry |-> e] : e \in Entries} \cup {[of |-> "files", first |-> f] : f \in CatalogFiles}
         \cup {[of |-> "ask"], [of |-> "reloads", i18n |-> NoLoads, newest |-> NoLoads.catalog]}
Steps(p) ==
    CASE p.of = "bearer" -> {Judged([of |-> "token", static |-> p.static, own |-> c, token |-> t]) :
                                c \in Owns, t \in {u \in Bearers : u.alg = "RS256"}}
      [] p.of = "request" /\ Len(p.answers) < 3 -> {[p EXCEPT !.answers = Append(@, a)] : a \in Redirects}
      [] p.of = "memory" /\ Len(p.operations) < 3 -> {[p EXCEPT !.operations = Append(@, o)] : o \in MemoryOperations}
      [] p.of = "builder" /\ Len(p.calls) < 4 -> {[p EXCEPT !.calls = Append(@, c)] : c \in Calls}
      [] p.of = "limiter" ->
            {[p EXCEPT !.s = W!Requested(p.limiter, @, k)] :
                k \in {l \in Keys : Len(p.s.log[l]) < MaxLog /\ (l \in DOMAIN p.s.hits => p.s.hits[l].count <= p.limiter.max)}}
            \cup {[p EXCEPT !.s = W!Cleaned(@)]}
            \cup {[p EXCEPT !.s = W!Later(@, t + 1)] : t \in {p.s.now} \cap 0..(MaxNow - 1)}
      [] p.of = "reloads" -> {[p EXCEPT !.i18n = i, !.newest = Newer(@, i.catalog)] : i \in Reloads(p.i18n)}
      [] OTHER -> {}
Holds(p) ==
    CASE p.of = "catalog" -> \A l \in Locales, q \in Params, k \in {"k", "other"} : LocaleFindsItsText("k" :> p.entry, k, l, q)
      [] p.of = "files" -> \A f \in CatalogFiles, o \in Others : LastSourceDecides(<<p.first, f>>, o)
      [] p.of = "ask" -> /\ \A r \in Ask : LocaleIsAskedFor(r, <<"en">>)
                         /\ \A n \in ContentNames : ContentIsFound(n, {<<"md">>, <<"html">>})
      [] p.of = "reloads" -> ReloadsAreHonest(p.i18n, p.newest)
      [] OTHER -> TRUE
=============================================================================

--------------------------- MODULE RequestHandling ---------------------------
(***************************************************************************)
(* packages/webafx: one request on its way through the layers that         *)
(* initialize() stacks up, from the settings the application has to the    *)
(* response of a handler, the error handler or a file.                     *)
(*                                                                         *)
(* A route's path is the set of request paths it matches; a schema is the  *)
(* set of inputs it accepts, with what it makes of them; optional things   *)
(* are sets of at most one element.                                        *)
(***************************************************************************)
EXTENDS Integers, Sequences, FiniteSets, FiniteSetsExt

\* An object with a field that is set, and one whose fields replace those of another.
With(object, field, value) == [f \in DOMAIN object \cup {field} |-> IF f = field THEN value ELSE object[f]]
Over(newer, older) == [f \in DOMAIN newer \cup DOMAIN older |-> IF f \in DOMAIN newer THEN newer[f] ELSE older[f]]

-----------------------------------------------------------------------------
(* application-settings.ts.  A configuration is a function from the keys   *)
(* it sets to their values.                                                *)

InvalidPort == 70000
Ports == 0..65535
ValidateConfig(config) == "PORT" \in DOMAIN config => config.PORT \in Ports

Get(config, key, default) == IF key \in DOMAIN config THEN config[key] ELSE default

\* The level that is derived once stays, as if it had been set.
LoadFromFile(config, file) ==
    LET merged == Over(file, config)
        mode == Get(merged, "ENV_MODE", "production")
        level == Get(merged, "LOG_LEVEL",
                     IF Get(merged, "DEBUG", FALSE) \/ mode # "production" THEN "DEBUG" ELSE "ERROR")
    IN [config |-> With(With(merged, "LOG_LEVEL", level), "ENV_MODE", mode), failed |-> ~ValidateConfig(merged)]

\* The constructor, and loadConfiguration in start(): a missing file is {}.  start() reads the port
\* and the shutdown's time before.
Started(config, files) ==
    LET own == IF "ENV_MODE" \in DOMAIN config THEN config ELSE With(config, "ENV_MODE", "production")
        after[n \in 0..Len(files)] ==
            IF n = 0 THEN [config |-> own, failed |-> FALSE]
            ELSE IF files[n] = {} \/ after[n - 1].failed THEN after[n - 1]
            ELSE LoadFromFile(after[n - 1].config, CHOOSE f \in files[n] : TRUE)
        loaded == after[Len(files)]
    IN [config |-> loaded.config, failed |-> loaded.failed \/ ~ValidateConfig(own),
        port |-> Get(own, "PORT", 4000),
        delay |-> IF own.ENV_MODE = "production" THEN Get(own, "SHUTDOWN_TIMEOUT", 7) ELSE 1]

-----------------------------------------------------------------------------
(* route-builder.ts.  A definition has what was called; handle() ends it.  *)

NoRoute == [failed |-> TRUE]
NewRoute == [middleware |-> <<>>]
Build(def, call) ==
    IF def = NoRoute THEN NoRoute
    ELSE
    CASE call.name \in {"get", "post", "put", "patch", "delete"} -> With(With(def, "path", call.path), "method", call.name)
      [] call.name = "secure" -> IF call.service = " " THEN NoRoute ELSE With(def, "secure", call.service)
      [] call.name = "authorize" -> With(def, "authorize", call.fn)
      [] call.name = "middleware" -> [def EXCEPT !.middleware = Append(@, call.fn)]
      [] call.name = "validate" -> With(def, "validation", call.schema)
      [] call.name = "handle" -> IF {"method", "path"} \subseteq DOMAIN def THEN With(def, "handler", call.fn) ELSE NoRoute
Route(calls) ==
    LET after[n \in 0..Len(calls)] == IF n = 0 THEN NewRoute ELSE Build(after[n - 1], calls[n])
    IN after[Len(calls)]

-----------------------------------------------------------------------------
(* rate-limiter.ts: a window per key, opened by its first request.         *)

NoHits == [k \in {} |-> 0]
\* Mutant of Hit: the window moves with every request.
HitMoves(limiter, hits, key, now) ==
    LET old == key \in DOMAIN hits /\ hits[key].resetTime > now
        count == IF old THEN hits[key].count + 1 ELSE 1
    IN [hits |-> With(hits, key, [count |-> count, resetTime |-> now + limiter.window]),
        admitted |-> ~old \/ count <= limiter.max]
Hit(limiter, hits, key, now) ==
    LET old == key \in DOMAIN hits /\ hits[key].resetTime > now
        count == IF old THEN hits[key].count + 1 ELSE 1
    IN [hits |-> With(hits, key, [count |-> count,
                                resetTime |-> IF old THEN hits[key].resetTime ELSE now + limiter.window]),
        admitted |-> ~old \/ count <= limiter.max]
\* The interval.
Cleanup(hits, now) == [k \in {l \in DOMAIN hits : hits[l].resetTime > now} |-> hits[k]]

\* What goes on at a limiter: s has the times of the requests it admitted, oldest first, under each key.
Requested(limiter, s, key) ==
    LET hit == Hit(limiter, s.hits, key, s.now)
    IN [s EXCEPT !.hits = hit.hits, !.log[key] = IF hit.admitted THEN Append(@, s.now) ELSE @]
Cleaned(s) == [s EXCEPT !.hits = Cleanup(@, s.now)]
Later(s, now) == [s EXCEPT !.now = now]

-----------------------------------------------------------------------------
(* csrf.ts                                                                 *)

ConstantTimeTokenMatch(provided, expected) == provided # {} /\ provided = expected /\ expected # {""}
CsrfAccepts(csrf, req) ==
    \/ req.method \in csrf.safeMethods
    \/ <<req.method, req.path>> \in csrf.exempt
    \/ ConstantTimeTokenMatch(req.token, IF csrf.expected # {} THEN (CHOOSE f \in csrf.expected : TRUE)[req.user]
                                         ELSE IF csrf.cookie THEN req.cookie ELSE {})

-----------------------------------------------------------------------------
(* web-application.ts, static-files-plugin.ts: the layers.  A layer passes *)
(* the request on, answers it, or throws.                                  *)

Pass == [kind |-> "next", by |-> "", status |-> 0]
Answer(by, status) == [kind |-> "answer", by |-> by, status |-> status]
Throw(by, status) == [kind |-> "throw", by |-> by, status |-> status]

\* A request container: what get() resolves the principal's service to; a thrown error is "error".
Principal(app, route, req) ==
    LET name == IF route.secure \in {{}, {"true"}} THEN "user" ELSE CHOOSE n \in route.secure : TRUE
    IN IF name \in app.services THEN req.principal[name] ELSE {}

\* The last source wins.
Parameters(req) == Over(Over(req.body, req.query), req.params)

WrapRouteHandler(app, route, req) ==
    LET principal == Principal(app, route, req)
        merged == Parameters(req)
    IN IF (route.secure # {} \/ route.authorize # {}) /\ principal = {"error"} THEN Throw("principal", 500)
       ELSE IF route.secure # {} /\ principal = {} THEN Throw("guard", 401)
       ELSE IF \E f \in route.authorize : principal \notin f THEN Throw("authorize", 403)
       ELSE IF \E schema \in route.validation : merged \notin DOMAIN schema THEN Throw("validation", 422)
       ELSE [kind |-> route.handler.kind, by |-> "handler", status |-> route.handler.status,
             input |-> IF route.validation = {} THEN merged ELSE (CHOOSE s \in route.validation : TRUE)[merged]]

Static(plugin, req) ==
    IF req.method \in {"GET", "HEAD"} /\ req.path \in plugin.files THEN Answer("static", 200) ELSE Pass
SpaFallback(plugin, req) ==
    IF req.method = "GET" /\ req.path \in plugin.under /\ ~req.extension /\ req.acceptsHtml THEN Answer("spa", 200) ELSE Pass

PluginLayer(plugin, req) ==
    CASE plugin.kind = "static" -> Static(plugin, req)
      [] plugin.kind = "csrf" -> IF CsrfAccepts(plugin.csrf, req) THEN Pass ELSE Answer("csrf", 403)
      [] OTHER -> Pass

\* Object.values and a stable sort: by priority, then as registered.
Before(p, q, i, j) == p.priority < q.priority \/ (p.priority = q.priority /\ i < j)
Installed(plugins) ==
    LET Place(i) == Cardinality({j \in DOMAIN plugins : Before(plugins[j], plugins[i], j, i)}) + 1
    IN [k \in DOMAIN plugins |-> plugins[CHOOSE i \in DOMAIN plugins : Place(i) = k]]

\* A GET route also answers HEAD (external: express).
Matches(route, req) ==
    req.path \in route.path /\ (route.method = req.method \/ (route.method = "GET" /\ req.method = "HEAD"))

\* A stack of layers (external: express): what the first of them does that does not pass the request on.
Stack(layers) ==
    LET answering == {i \in DOMAIN layers : layers[i].kind # "next"}
    IN IF answering = {} THEN Pass ELSE layers[Min(answering)]

\* A route is a stack of its own; each of its middleware passes, answers or throws.
RouteLayer(app, route, req) ==
    IF Matches(route, req) THEN Stack(Append(route.middleware, WrapRouteHandler(app, route, req))) ELSE Pass

Healthy(plugins) == \A i \in DOMAIN plugins : \A h \in plugins[i].health : h
Health(plugins, req) ==
    IF req.method \in {"GET", "HEAD"} /\ req.path = "/health"
    THEN Answer("health", IF Healthy(plugins) THEN 200 ELSE 503) ELSE Pass

Terminal(plugin, req) == IF plugin.kind = "static" /\ plugin.spa THEN SpaFallback(plugin, req) ELSE Pass

\* What becomes of a request, in the order of initialize().
Handle(app, req) ==
    LET plugins == Installed(app.plugins)
    IN Stack(<<IF req.malformedBody THEN Throw("body", 400) ELSE Pass,
               Stack([i \in DOMAIN plugins |-> PluginLayer(plugins[i], req)]),
               Stack([i \in DOMAIN app.routes |-> RouteLayer(app, app.routes[i], req)]),
               Health(plugins, req),
               Stack([i \in DOMAIN plugins |-> Terminal(plugins[i], req)]),
               Throw("404", 404)>>)

\* error-handler-middleware.ts: an error of another class is the server's, and its text is only for
\* development.
ApiErrors == {400, 401, 403, 404, 409, 422, 429}
ErrorHandler(app, thrown) ==
    LET api == thrown.by # "body" /\ thrown.status \in ApiErrors
    IN [by |-> thrown.by, status |-> IF api THEN thrown.status ELSE 500,
        message |-> api \/ app.mode # "production", stack |-> app.mode # "production"]

Respond(app, first) ==
    IF first.kind = "throw" THEN ErrorHandler(app, first)
    ELSE [by |-> first.by, status |-> first.status, message |-> TRUE, stack |-> FALSE]

-----------------------------------------------------------------------------

\* Later sources of the settings win; a file that breaks the rules stops the start.
\* (What start() listens on, and a log level that an earlier file derived, do not follow the files.)
SettingsAreMerged(config, files) ==
    LET started == Started(config, files)
        Sources(i) == IF i = 0 THEN {config} ELSE files[i]
        Settings(k) == {i \in 0..Len(files) : \E source \in Sources(i) : k \in DOMAIN source}
    IN ~started.failed =>
         /\ \A k \in DOMAIN started.config : Settings(k) # {} \/ k \in {"ENV_MODE", "LOG_LEVEL"}
         /\ \A i \in 0..Len(files) : \A source \in Sources(i) : \A k \in DOMAIN source :
              /\ k \in DOMAIN started.config
              /\ (\A j \in Settings(k) : j <= i) => started.config[k] = source[k]
              /\ k = "PORT" => source.PORT \in Ports

\* A builder's last word of each kind counts, wherever it comes in the chain; no route comes of it
\* without a method, a path and a handler, nor with a principal that has no name.
BuilderKeepsTheLast(calls) ==
    LET route == Route(calls)
        At(names) == {i \in DOMAIN calls : calls[i].name \in names}
        LastOf(names) == calls[CHOOSE i \in At(names) : \A j \in At(names) : j <= i]
        methods == {"get", "post", "put", "patch", "delete"}
    IN IF route = NoRoute
       THEN \/ \E i \in DOMAIN calls : calls[i].name = "secure" /\ calls[i].service = " "
            \/ \E i \in At({"handle"}) : \A j \in 1..i : calls[j].name \notin methods
       ELSE /\ "handler" \in DOMAIN route => At(methods) # {}
            /\ At(methods) # {} => route.method = LastOf(methods).name /\ route.path = LastOf(methods).path
            /\ At({"secure"}) # {} => route.secure = LastOf({"secure"}).service
            /\ Len(route.middleware) = Cardinality(At({"middleware"}))
            /\ \A i \in At({"middleware"}) : route.middleware[Cardinality(At({"middleware"}) \cap 1..i)] = calls[i].fn

\* s is as above.  Among any 2 max + 1 requests of one key that were admitted lies a whole window; so a
\* window never admits more than the maximum, whenever the interval cleans up, and it does not refuse
\* the first request after it.
LimitIsKept(limiter, s) ==
    \A k \in DOMAIN s.log :
        LET own == s.log[k]
        IN \A i \in DOMAIN own :
             /\ i + 2 * limiter.max \in DOMAIN own => own[i + 2 * limiter.max] - own[i] >= limiter.window
             /\ i = Len(own) /\ s.now >= own[i] + limiter.window => Hit(limiter, s.hits, k, s.now).admitted

\* A handler runs only behind everything that was put before it: the body was read, the CSRF check
\* passed wherever the plugin was registered, the guard found a principal and asked about that one,
\* and it gets what the schema made of the merged input.  A file or the page of the single-page
\* application answers no request that could change anything, and neither hides what a route answers
\* unless the file is there.  Outside development no error tells more than its class allows.
RequestIsHandled(app, req) ==
    LET first == Handle(app, req)
        response == Respond(app, first)
        csrf == {i \in DOMAIN app.plugins : app.plugins[i].kind = "csrf"}
        matching == {i \in DOMAIN app.routes : Matches(app.routes[i], req)}
        static == {i \in DOMAIN app.plugins : app.plugins[i].kind = "static" /\ req.path \in app.plugins[i].files}
    IN /\ response.by = "handler" =>
            /\ ~req.malformedBody /\ \A i \in csrf : CsrfAccepts(app.plugins[i].csrf, req)
            /\ \E i \in matching :
                 LET route == app.routes[i]
                 IN /\ \A j \in DOMAIN route.middleware : route.middleware[j].kind = "next"
                    /\ route.secure # {} => Principal(app, route, req) \notin {{}, {"error"}}
                    /\ \A f \in route.authorize : Principal(app, route, req) \in f
                    /\ \A s \in route.validation : Parameters(req) \in DOMAIN s /\ first.input = s[Parameters(req)]
                    /\ \A k \in DOMAIN req.body : route.validation = {} => first.input[k] = req.body[k]
       /\ response.by \in {"static", "spa"} => req.method \in {"GET", "HEAD"}
       /\ response.by = "static" => static # {}
       /\ matching # {} => response.by \notin {"spa", "health", "404"}
       /\ response.by = "404" => matching = {} /\ response.status = 404
       /\ app.mode = "production" => ~response.stack /\ (response.status = 500 /\ first.kind = "throw" => ~response.message)
=============================================================================

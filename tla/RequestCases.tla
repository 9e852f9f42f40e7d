---------------------------- MODULE RequestCases ----------------------------
(***************************************************************************)
(* What is said of requests by AuthDecisions, Authorization and            *)
(* RequestHandling, of one probe at a time: probe.of names the algorithm,  *)
(* the other fields are its input, and the fields in the plural are the    *)
(* sets of what it is asked with.                                          *)
(***************************************************************************)
EXTENDS AuthDecisions, Authorization, RequestHandling

VARIABLE probe

\* Whoever judges a request, a bearer token, a sign-in or the answer of another server: see
\* BearerIsJudged, FactoryIsFaithful, CallbackIsJudged, LoginIsRemembered, RedirectsAreSafe and
\* MemoryAnswersForTokens.
RequestsAreJudged ==
    /\ probe.of = "token" => BearerIsJudged(probe.static, probe.own, probe.token, probe.keys, probe.now)
    /\ probe.of = "factory" => \A token \in probe.tokens : FactoryIsFaithful(probe.c, token, probe.keys, probe.now)
    /\ probe.of = "callback" =>
         \A own \in probe.owns :
            /\ \A query \in probe.queries, info \in probe.infos :
                 CallbackIsJudged(probe.static, own, query, probe.remembered, probe.answer, info)
            /\ \A query \in probe.logins : LoginIsRemembered(probe.static, own, query, probe.secrets)
    /\ probe.of = "request" => \A rest \in probe.rests : RedirectsAreSafe(probe.request, probe.answers \o rest)
    /\ probe.of = "memory" =>
         \A order \in probe.orders, req \in probe.requests : MemoryAnswersForTokens(probe.operations, order, req)

\* Whatever a request meets on its way to a handler: see GrantsAreEarned, AccessFollowsClaims,
\* SettingsAreMerged, BuilderKeepsTheLast, LimitIsKept and RequestIsHandled.
RequestsAreHandled ==
    /\ probe.of = "keys" =>
         /\ \A keys \in probe.lists : GrantsAreEarned(keys, probe.map, probe.allowed)
         /\ \A tokens \in probe.tokens, userInfo \in probe.infos, requirement \in probe.requirements :
              AccessFollowsClaims(tokens, userInfo, probe.map, probe.allowed, requirement)
    /\ probe.of = "settings" => \A files \in probe.files : SettingsAreMerged(probe.config, files)
    /\ probe.of = "builder" => BuilderKeepsTheLast(probe.calls)
    /\ probe.of = "limiter" => LimitIsKept(probe.limiter, probe.s)
    /\ probe.of = "application" => \A req \in probe.requests : RequestIsHandled(probe.app, req)
=============================================================================

------------------------------ MODULE ApiClient ------------------------------
(***************************************************************************)
(* packages/api-client: createApiClient().request with its one retry after *)
(* a 401, BearerAuth with its shared refresh, and TokenStore, which        *)
(* OidcClientCredentialsAuth fills.  Tokens are numbered in the order the  *)
(* server (external) issues them; 0 is the token of the application's own  *)
(* getToken().  A step is the code between two awaits.                     *)
(***************************************************************************)
EXTENDS Naturals, Sequences, FiniteSets

CONSTANTS Request,     \* concurrent calls of request()
          MaxToken,    \* bound on the tokens the server issues
          MaxClock,    \* bound of the clock
          Validity     \* refreshedTokenTtlMs, or expires_in less the skew, in ticks

VARIABLES strategy,    \* "bearer", "bearerOnly" (no refresh option), "oidc" or "none"
          call,        \* each request: its step, the tokens it was sent with, its error
          cached,      \* refreshedToken, or the token of the store, with its time
          refreshing,  \* the refresh under way: who awaits it, and the token it was answered
          issued,      \* tokens issued so far
          revoked,     \* tokens the server does not accept
          clock

apiVars == <<strategy, call, cached, refreshing, issued, revoked, clock>>

NoToken == [token |-> 0, at |-> 0, held |-> FALSE]
NoRefresh == [open |-> FALSE, by |-> {}]
New == [step |-> "new", sent |-> <<>>, error |-> "none"]

ApiInit ==
    /\ strategy \in {"bearer", "bearerOnly", "oidc", "none"}
    /\ call = [r \in Request |-> New]
    /\ cached = NoToken /\ refreshing = NoRefresh
    /\ issued = 0 /\ revoked = {} /\ clock = 0

\* currentToken of BearerAuth, the test of TokenStore.get.
Usable == cached.held /\ clock - cached.at < Validity

Step(r, s) == call' = [call EXCEPT ![r].step = s]
Finish(r, e) == call' = [call EXCEPT ![r].step = "done", ![r].error = e]

\* A request URL, its body and its headers are built first: a missing path parameter throws.
Start(r) ==
    /\ call[r].step = "new"
    /\ \/ Step(r, "authenticate")
       \/ Finish(r, "missing parameter")
    /\ UNCHANGED <<strategy, cached, refreshing, issued, revoked, clock>>

SendWith(r, token) ==
    call' = [call EXCEPT ![r].step = "sent", ![r].sent = Append(@, token)]

\* auth.apply with what is at hand: the cached token, or the application's.
Authenticate(r) ==
    /\ call[r].step = "authenticate"
    /\ \/ Usable /\ SendWith(r, cached.token)
       \/ ~Usable /\ strategy # "oidc" /\ SendWith(r, 0)
    /\ UNCHANGED <<strategy, cached, refreshing, issued, revoked, clock>>

\* getToken() rejects.
AuthenticateFails(r) ==
    /\ call[r].step = "authenticate" /\ ~Usable /\ strategy \in {"bearer", "bearerOnly"}
    /\ Finish(r, "transport")
    /\ UNCHANGED <<strategy, cached, refreshing, issued, revoked, clock>>

\* Whoever needs a refresh starts it or joins the one that is open.
Join(r) ==
    /\ refreshing' = [open |-> TRUE, by |-> refreshing.by \cup {r}]
    /\ UNCHANGED <<strategy, cached, issued, revoked, clock>>

FetchFirst(r) ==
    /\ call[r].step = "authenticate" /\ ~Usable /\ strategy = "oidc"
    /\ Step(r, "fetching")
    /\ Join(r)

\* Mutant of Answer: the retry after a 401 is not remembered, so that it may be repeated.
AnswerAgain(r) ==
    /\ call[r].step = "sent" /\ Len(call[r].sent) < 4
    /\ IF call[r].sent[Len(call[r].sent)] \notin revoked THEN Finish(r, "none")
       ELSE Step(r, "rejected")
    /\ UNCHANGED <<strategy, cached, refreshing, issued, revoked, clock>>

\* The server's answer.
Answer(r) ==
    /\ call[r].step = "sent"
    /\ LET token == call[r].sent[Len(call[r].sent)] IN
       IF token \notin revoked THEN \/ Finish(r, "none") \/ Finish(r, "api")
       ELSE IF Len(call[r].sent) = 1 /\ strategy \in {"bearer", "bearerOnly", "oidc"}
            THEN Step(r, "rejected")
            ELSE Finish(r, "api")
    /\ UNCHANGED <<strategy, cached, refreshing, issued, revoked, clock>>

\* adapter.send rejects: the network, or the caller's AbortSignal.
SendFails(r) ==
    /\ call[r].step = "sent"
    /\ Finish(r, "transport")
    /\ UNCHANGED <<strategy, cached, refreshing, issued, revoked, clock>>

RefreshOnUnauthorized(r) ==
    /\ call[r].step = "rejected" /\ strategy # "bearerOnly"
    /\ Step(r, "refreshing")
    /\ Join(r)

\* Without a refresh option refreshOnUnauthorized is false, and the 401 is the answer.
NoRefreshOption(r) ==
    /\ call[r].step = "rejected" /\ strategy = "bearerOnly"
    /\ Finish(r, "api")
    /\ UNCHANGED <<strategy, cached, refreshing, issued, revoked, clock>>

\* The refresh is answered: its token is stored, then everyone who awaited it goes on.
RefreshDone ==
    /\ refreshing.open /\ issued < MaxToken
    /\ issued' = issued + 1
    /\ cached' = [token |-> issued + 1, at |-> clock, held |-> TRUE]
    /\ refreshing' = NoRefresh
    /\ call' = [r \in Request |->
                  IF r \notin refreshing.by THEN call[r]
                  ELSE IF call[r].step = "fetching"
                       THEN [call[r] EXCEPT !.step = "sent", !.sent = Append(@, issued + 1)]
                       ELSE [call[r] EXCEPT !.step = "authenticate"]]
    /\ UNCHANGED <<strategy, revoked, clock>>

RefreshFails ==
    /\ refreshing.open
    /\ refreshing' = NoRefresh
    /\ call' = [r \in Request |->
                  IF r \in refreshing.by THEN [call[r] EXCEPT !.step = "done", !.error = "transport"]
                  ELSE call[r]]
    /\ UNCHANGED <<strategy, cached, issued, revoked, clock>>

\* BearerAuth.invalidate, on logout or rotation.
Invalidate ==
    /\ strategy = "bearer"
    /\ cached' = NoToken
    /\ UNCHANGED <<strategy, call, refreshing, issued, revoked, clock>>

Revoke(token) ==
    /\ token \in 0..issued \ revoked
    /\ revoked' = revoked \cup {token}
    /\ UNCHANGED <<strategy, call, cached, refreshing, issued, clock>>

ClockTicks ==
    /\ clock < MaxClock
    /\ clock' = clock + 1
    /\ UNCHANGED <<strategy, call, cached, refreshing, issued, revoked>>

RequestStep(r) ==
    \/ Start(r) \/ Authenticate(r) \/ AuthenticateFails(r) \/ FetchFirst(r)
    \/ Answer(r) \/ SendFails(r) \/ RefreshOnUnauthorized(r) \/ NoRefreshOption(r)

ApiNext ==
    \/ \E r \in Request : RequestStep(r)
    \/ RefreshDone \/ RefreshFails \/ Invalidate \/ ClockTicks
    \/ \E token \in 0..MaxToken : Revoke(token)

-----------------------------------------------------------------------------

\* A request that was refused is sent at most once more, and with a token issued after the one
\* that was refused, although it may have joined a refresh that others began: only the expiry of
\* the refreshed token, or invalidate(), brings the application's own token back.  A call that joined
\* just before the answer, or just after a failure, is not left waiting for a refresh that is over.
RetryIsNewer ==
    /\ refreshing.by = {r \in Request : call[r].step \in {"fetching", "refreshing"}}
    /\ refreshing.open <=> refreshing.by # {}
    /\ \A r \in Request :
        /\ Len(call[r].sent) <= 2
        /\ Len(call[r].sent) = 2 => call[r].sent[2] > call[r].sent[1] \/ call[r].sent[2] = 0
=============================================================================

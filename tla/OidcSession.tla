------------------------------ MODULE OidcSession ------------------------------
(***************************************************************************)
(* The sessions of the OIDC backend-for-frontend: login, callback,         *)
(* refresh, logout and me (oidc-auth-controller.ts) of one browser, served *)
(* by several instances of the application on one session store            *)
(* (oidc-auth-provider.ts). A step is the code between two awaits. The     *)
(* refreshes of one session share a flight within an instance              *)
(* (oidc-refresh.ts). Identity provider, store and network may fail.       *)
(***************************************************************************)
EXTENDS Naturals, FiniteSets

CONSTANTS
    Requests,     \* requests that may be under way at once
    Instances,    \* processes that serve them
    Ids,          \* session ids (randomUUID)
    SignIns,      \* sign-ins, each with a state id, an authorization code and at most a session
    MaxToken,     \* bound: how often a refresh token is replaced
    MaxNow,       \* bound: how far the clock runs
    AbsoluteTtl,  \* sessionAbsoluteTtl
    None,
    Keep          \* the response does not set this cookie

Kinds == {"login", "callback", "refresh", "logout", "me"}

\* What is stored under a session id. `login` says which sign-in made it, token 0
\* that it has no refresh token; `created` is stamped when it is stored.
Sessions == [login : SignIns, token : 0..MaxToken, created : (0..MaxNow) \cup {None}]

\* A refresh that is under way: `next` is the id that it rotates to.
Flights == [pc : {"read", "drop", "grant", "store", "clear"},
            session : Sessions \cup {None}, next : Ids \cup {None}]

ASSUME OidcAssumption ==
    /\ MaxToken \in Nat \ {0} /\ MaxNow \in Nat /\ AbsoluteTtl \in Nat
    /\ None \notin Instances \cup Ids \cup SignIns \cup Sessions \cup Flights \cup Nat
    /\ Keep \notin Ids \cup SignIns \cup {None}

VARIABLES
    now,
    rotating,     \* rotateSessionIdOnRefresh
    store,        \* session id -> session
    pkce,         \* sign-in -> its transient state: "unused", "stored", "gone"
    code,         \* at the identity provider: "none", "issued", "spent"
    current,      \* at the identity provider: the refresh token it accepts
    cookie,       \* the browser's session cookie
    stateCookie,  \* and its state cookie
    pc,           \* what the handler of a request does next
    req,          \* kind, instance and cookies of a request, and its response's cookies
    flight,       \* instance -> session id -> the shared refresh
    disturbed,    \* history: a store or grant failed half way, a process died in
                  \* between, or two instances refreshed one session at once
    born,         \* history: when the session of a sign-in was first stored
    loggedOut     \* history: "no", "alone" or "raced" with a refresh

idp == <<code, current>>
browser == <<cookie, stateCookie>>
history == <<disturbed, born, loggedOut>>
handlers == <<pc, req, flight>>
vars == <<now, rotating, store, pkce, idp, browser, handlers, history>>

Idle == [kind |-> "me", at |-> None, sid |-> None, state |-> None, back |-> None,
         login |-> None, cookie |-> Keep, setState |-> Keep]
----------------------------------------------------------------------------
Past(s) == s.created # None /\ s.created + AbsoluteTtl <= now

\* mutant: every store stamps the session anew
StampedAgain(s) == [s EXCEPT !.created = now]

\* mutant: the deadline is stored instead
StampedWithDeadline(s) == IF s.created = None THEN [s EXCEPT !.created = now + AbsoluteTtl] ELSE s

Stamped(s) == IF s.created = None THEN [s EXCEPT !.created = now] ELSE s

\* Nothing refers to an id that randomUUID has just made.
Fresh(n) ==
    /\ store[n] = None
    /\ cookie # n
    /\ \A r \in Requests : req[r].sid # n /\ req[r].cookie # n
    /\ \A i \in Instances : /\ flight[i][n] = None
                            /\ \A m \in Ids : flight[i][m] # None => flight[i][m].next # n

Waits(r, i, n) == pc[r] = "wait" /\ req[r].at = i /\ req[r].sid = n

\* the flights that have read a session of sign-in l
Holds(i, n, l) == /\ flight[i][n] # None
                  /\ flight[i][n].session # None
                  /\ flight[i][n].session.login = l

Goto(r, p) == pc' = [pc EXCEPT ![r] = p]

Answer(r, c, s) ==
    /\ pc' = [pc EXCEPT ![r] = "answered"]
    /\ req' = [req EXCEPT ![r] = [Idle EXCEPT !.cookie = c, !.setState = s]]

\* A flight settles for all requests that wait for it: with the id to present, or Keep.
Settle(i, n, c) ==
    /\ flight' = [flight EXCEPT ![i][n] = None]
    /\ pc' = [r \in Requests |-> IF Waits(r, i, n) THEN "answered" ELSE pc[r]]
    /\ req' = [r \in Requests |->
                  IF Waits(r, i, n) THEN [Idle EXCEPT !.cookie = c] ELSE req[r]]

Advance(i, n, p) == /\ flight' = [flight EXCEPT ![i][n].pc = p]
                    /\ UNCHANGED <<pc, req>>
----------------------------------------------------------------------------
Init ==
    /\ now = 0
    /\ rotating \in BOOLEAN
    /\ store = [n \in Ids |-> None]
    /\ pkce = [l \in SignIns |-> "unused"]
    /\ code = [l \in SignIns |-> "none"]
    /\ current = [l \in SignIns |-> 0]
    /\ cookie = None
    /\ stateCookie = None
    /\ pc = [r \in Requests |-> "idle"]
    /\ req = [r \in Requests |-> Idle]
    /\ flight = [i \in Instances |-> [n \in Ids |-> None]]
    /\ disturbed = FALSE
    /\ born = [l \in SignIns |-> None]
    /\ loggedOut = [l \in SignIns |-> "no"]

FirstStep == [k \in Kinds |-> CASE k = "login" -> "login" [] k = "callback" -> "state"
                                [] k = "me" -> "auth" [] OTHER -> "read"]

\* The browser sends its cookies (kept here if the handler looks at them). `back` is the
\* state that the identity provider's redirect carries; a reload sends it again.
Send(r, k, i, back) ==
    /\ pc[r] = "idle"
    /\ IF k = "callback" THEN back \in SignIns /\ code[back] # "none" ELSE back = None
    /\ req' = [req EXCEPT ![r] =
                 [Idle EXCEPT !.kind = k, !.at = i, !.back = back,
                              !.sid = IF k \in {"login", "callback"} THEN None ELSE cookie,
                              !.state = IF k = "callback" THEN stateCookie ELSE None]]
    /\ Goto(r, FirstStep[k])
    /\ UNCHANGED <<now, rotating, store, pkce, idp, browser, flight, history>>

\* Responses arrive in any order, or not at all.
Deliver(r) ==
    /\ pc[r] = "answered"
    /\ cookie' = IF req[r].cookie = Keep THEN cookie ELSE req[r].cookie
    /\ stateCookie' = IF req[r].setState = Keep THEN stateCookie ELSE req[r].setState
    /\ Goto(r, "idle")
    /\ req' = [req EXCEPT ![r] = Idle]
    /\ UNCHANGED <<now, rotating, store, pkce, idp, flight, history>>

Lose(r) ==
    /\ pc[r] = "answered"
    /\ Goto(r, "idle")
    /\ req' = [req EXCEPT ![r] = Idle]
    /\ UNCHANGED <<now, rotating, store, pkce, idp, browser, flight, history>>
----------------------------------------------------------------------------
(* handleLogin and handleCallback *)

\* The provider will redirect back with a code, once the user has signed in there.
Login(r, l) ==
    /\ pc[r] = "login"
    /\ pkce[l] = "unused"
    /\ pkce' = [pkce EXCEPT ![l] = "stored"]
    /\ code' = [code EXCEPT ![l] = "issued"]
    /\ Answer(r, Keep, l)
    /\ UNCHANGED <<now, rotating, store, current, browser, flight, history>>

GetState(r) ==
    /\ pc[r] = "state"
    /\ IF /\ req[r].state # None
          /\ pkce[req[r].state] = "stored"
          /\ req[r].state = req[r].back
       THEN Goto(r, "exchange") /\ UNCHANGED req
       ELSE Answer(r, Keep, Keep)
    /\ UNCHANGED <<now, rotating, store, pkce, idp, browser, flight, history>>

\* Userinfo may be refused (with an unauthorized session or none), or be another subject's.
Admit(r) == \E p \in {"store", "forget"} : Goto(r, p)

\* exchangeCode, fetchUserInfo and onCallback. A code that is spent is refused.
Exchange(r) ==
    /\ pc[r] = "exchange"
    /\ LET l == req[r].back
       IN IF code[l] = "issued"
          THEN /\ code' = [code EXCEPT ![l] = "spent"]
               /\ Admit(r)
          ELSE /\ UNCHANGED code
               /\ Goto(r, "forget")
    /\ UNCHANGED <<now, rotating, store, pkce, current, browser, req, flight, history>>

\* storeSession and the cookie. The tokens came with the exchange, perhaps no refresh token.
StoreNew(r, n, t) ==
    /\ pc[r] = "store"
    /\ Fresh(n)
    /\ LET l == req[r].back
       IN /\ store' = [store EXCEPT ![n] = Stamped([login |-> l, token |-> t, created |-> None])]
          /\ current' = [current EXCEPT ![l] = t]
          /\ born' = [born EXCEPT ![l] = now]
    /\ req' = [req EXCEPT ![r].cookie = n]
    /\ Goto(r, "forget")
    /\ UNCHANGED <<now, rotating, pkce, code, browser, flight, disturbed, loggedOut>>

\* mutant: only the cookie is cleared
ForgetCookie(r) ==
    /\ pc[r] = "forget"
    /\ Answer(r, req[r].cookie, None)
    /\ UNCHANGED <<now, rotating, store, pkce, idp, browser, flight, history>>

Forget(r) ==
    /\ pc[r] = "forget"
    /\ pkce' = [pkce EXCEPT ![req[r].back] = "gone"]
    /\ Answer(r, req[r].cookie, None)
    /\ UNCHANGED <<now, rotating, store, idp, browser, flight, history>>

\* An infrastructure failure after the code was spent leaves the state behind. A cookie
\* that was set before it is sent with the error.
CallbackFails(r) ==
    /\ pc[r] \in {"exchange", "store", "forget"}
    /\ code' = [code EXCEPT ![req[r].back] = "spent"]
    /\ Answer(r, req[r].cookie, Keep)
    /\ disturbed' = TRUE
    /\ UNCHANGED <<now, rotating, store, pkce, current, browser, flight, born, loggedOut>>
----------------------------------------------------------------------------
(* getSession, handleMe, handleRefresh and handleLogout *)

Found(n) == n # None /\ store[n] # None

\* authenticate() in front of `me`; an access token past its expiry is refused, too
Auth(r) ==
    /\ pc[r] = "auth"
    /\ IF Found(req[r].sid)
       THEN IF Past(store[req[r].sid])
            THEN Goto(r, "drop") /\ UNCHANGED req
            ELSE (Goto(r, "read") /\ UNCHANGED req) \/ Answer(r, Keep, Keep)
       ELSE Answer(r, Keep, Keep)
    /\ UNCHANGED <<now, rotating, store, pkce, idp, browser, flight, history>>

\* what a handler does with the session it has read, or without one; a wrong CSRF token
\* ends each of them but `me`
Proceed(r, s) ==
    \/ Answer(r, Keep, Keep)
    \/ /\ req[r].kind = "refresh" /\ s # None
       /\ s.token # 0
       /\ Goto(r, "join") /\ UNCHANGED req
    \/ /\ req[r].kind = "logout"
       /\ Goto(r, "leave")
       /\ req' = [req EXCEPT ![r].login = IF s = None THEN None ELSE s.login]

Read(r) ==
    /\ pc[r] = "read"
    /\ IF Found(req[r].sid)
       THEN IF Past(store[req[r].sid])
            THEN Goto(r, "drop") /\ UNCHANGED req
            ELSE Proceed(r, store[req[r].sid])
       ELSE Proceed(r, None)
    /\ UNCHANGED <<now, rotating, store, pkce, idp, browser, flight, history>>

\* A session past its absolute deadline is deleted and reported as absent.
Drop(r) ==
    /\ pc[r] = "drop"
    /\ store' = [store EXCEPT ![req[r].sid] = None]
    /\ Proceed(r, None)
    /\ UNCHANGED <<now, rotating, pkce, idp, browser, flight, history>>

\* resolveConfig, then refreshFlights.run: join the flight of the session, or start it.
Join(r) ==
    LET i == req[r].at n == req[r].sid
    IN /\ pc[r] = "join"
       /\ Goto(r, "wait")
       /\ IF flight[i][n] # None
          THEN UNCHANGED <<flight, disturbed>>
          ELSE /\ flight' = [flight EXCEPT ![i][n] =
                                [pc |-> "read", session |-> None, next |-> None]]
               /\ disturbed' = (disturbed \/ \E j \in Instances : flight[j][n] # None)
       /\ UNCHANGED <<now, rotating, store, pkce, idp, browser, req, born, loggedOut>>

\* what becomes of loggedOut when a logout that has read sign-in l's session clears id n
Leaving(n, l) ==
    IF l = None THEN loggedOut
    ELSE [loggedOut EXCEPT ![l] =
            IF \/ @ = "alone"
               \/ store[n] # None /\ \A i \in Instances, m \in Ids : ~Holds(i, m, l)
            THEN "alone" ELSE "raced"]

\* mutant: the session stays in the store
LeaveBrowser(r) ==
    /\ pc[r] = "leave"
    /\ loggedOut' = Leaving(req[r].sid, req[r].login)
    /\ Answer(r, None, Keep)
    /\ UNCHANGED <<now, rotating, store, pkce, idp, browser, flight, disturbed, born>>

\* onLogout and revokeToken, then clearSession.
Leave(r) ==
    /\ pc[r] = "leave"
    /\ LET n == req[r].sid
       IN store' = IF n = None THEN store ELSE [store EXCEPT ![n] = None]
    /\ loggedOut' = Leaving(req[r].sid, req[r].login)
    /\ Answer(r, None, Keep)
    /\ UNCHANGED <<now, rotating, pkce, idp, browser, flight, disturbed, born>>

\* The store, the identity provider's discovery or a hook fails before anything is changed.
RequestFails(r) ==
    /\ pc[r] \in {"login", "state", "exchange", "auth", "read", "drop", "join", "leave"}
    /\ Answer(r, Keep, Keep)
    /\ UNCHANGED <<now, rotating, store, pkce, idp, browser, flight, history>>
----------------------------------------------------------------------------
(* executeSessionRefresh of session id n in instance i *)

At(i, n, p) == flight[i][n] # None /\ flight[i][n].pc = p

FlightRead(i, n) ==
    /\ At(i, n, "read")
    /\ IF Found(n)
       THEN IF Past(store[n]) THEN Advance(i, n, "drop")
            ELSE IF store[n].token = 0 THEN Settle(i, n, Keep)
            ELSE /\ flight' = [flight EXCEPT ![i][n].pc = "grant", ![i][n].session = store[n]]
                 /\ UNCHANGED <<pc, req>>
       ELSE Settle(i, n, Keep)
    /\ UNCHANGED <<now, rotating, store, pkce, idp, browser, history>>

FlightDrop(i, n) ==
    /\ At(i, n, "drop")
    /\ store' = [store EXCEPT ![n] = None]
    /\ Settle(i, n, Keep)
    /\ UNCHANGED <<now, rotating, pkce, idp, browser, history>>

\* mutant: the new refresh token is not kept
GrantKeepsToken(i, n) ==
    /\ At(i, n, "grant")
    /\ LET s == flight[i][n].session
       IN IF s.token = current[s.login]
          THEN \E t \in {s.token, s.token + 1} \cap 1..MaxToken :
                  /\ current' = [current EXCEPT ![s.login] = t]
                  /\ Advance(i, n, "store")
          ELSE /\ Settle(i, n, Keep)
               /\ UNCHANGED current
    /\ UNCHANGED <<now, rotating, store, pkce, code, browser, history>>

\* The provider accepts its current token only, and may replace it.
Grant(i, n) ==
    /\ At(i, n, "grant")
    /\ LET s == flight[i][n].session
       IN IF s.token = current[s.login]
          THEN \E t \in {s.token, s.token + 1} \cap 1..MaxToken :
                  /\ current' = [current EXCEPT ![s.login] = t]
                  /\ flight' = [flight EXCEPT ![i][n].pc = "store", ![i][n].session.token = t]
                  /\ UNCHANGED <<pc, req>>
          ELSE /\ Settle(i, n, Keep)
               /\ UNCHANGED current
    /\ UNCHANGED <<now, rotating, store, pkce, code, browser, history>>

FlightStore(i, n) ==
    /\ At(i, n, "store")
    /\ ~rotating
    /\ store' = [store EXCEPT ![n] = Stamped(flight[i][n].session)]
    /\ Settle(i, n, n)
    /\ UNCHANGED <<now, rotating, pkce, idp, browser, history>>

FlightMove(i, n, m) ==
    /\ At(i, n, "store")
    /\ rotating
    /\ Fresh(m)
    /\ store' = [store EXCEPT ![m] = Stamped(flight[i][n].session)]
    /\ flight' = [flight EXCEPT ![i][n].pc = "clear", ![i][n].next = m]
    /\ UNCHANGED <<now, rotating, pkce, idp, browser, pc, req, history>>

\* mutant: the old id stays
FlightKeepsOld(i, n) ==
    /\ At(i, n, "clear")
    /\ Settle(i, n, flight[i][n].next)
    /\ UNCHANGED <<now, rotating, store, pkce, idp, browser, history>>

FlightClear(i, n) ==
    /\ At(i, n, "clear")
    /\ store' = [store EXCEPT ![n] = None]
    /\ Settle(i, n, flight[i][n].next)
    /\ UNCHANGED <<now, rotating, pkce, idp, browser, history>>

\* A rejection anywhere rejects every request that waits. A grant may have been made or
\* the session stored, though the answer was lost (what is stored under a new id, which
\* then nobody knows, is left out).
FlightFails(i, n) ==
    /\ flight[i][n] # None
    /\ LET f == flight[i][n]
       IN /\ \/ UNCHANGED <<store, current>>
             \/ /\ f.pc = "grant" /\ f.session.token = current[f.session.login]
                /\ f.session.token < MaxToken
                /\ current' = [current EXCEPT ![f.session.login] = f.session.token + 1]
                /\ UNCHANGED store
             \/ /\ f.pc = "store" /\ ~rotating
                /\ store' = [store EXCEPT ![n] = Stamped(f.session)]
                /\ UNCHANGED current
          /\ disturbed' = (disturbed \/ f.pc \in {"grant", "store", "clear"})
    /\ Settle(i, n, Keep)
    /\ UNCHANGED <<now, rotating, pkce, code, browser, born, loggedOut>>
----------------------------------------------------------------------------
(* The store drops entries (TTL, memory), time passes, a process dies. *)

Evict(n) ==
    /\ store[n] # None
    /\ store' = [store EXCEPT ![n] = None]
    /\ UNCHANGED <<now, rotating, pkce, idp, browser, handlers, history>>

ExpireState(l) ==
    /\ pkce[l] = "stored"
    /\ pkce' = [pkce EXCEPT ![l] = "gone"]
    /\ UNCHANGED <<now, rotating, store, idp, browser, handlers, history>>

Tick ==
    /\ now < MaxNow
    /\ now' = now + 1
    /\ UNCHANGED <<rotating, store, pkce, idp, browser, handlers, history>>

Serving(i) == {r \in Requests : req[r].at = i /\ pc[r] \notin {"idle", "answered"}}

Crash(i) ==
    /\ Serving(i) # {}
    /\ pc' = [r \in Requests |-> IF r \in Serving(i) THEN "idle" ELSE pc[r]]
    /\ req' = [r \in Requests |-> IF r \in Serving(i) THEN Idle ELSE req[r]]
    /\ flight' = [flight EXCEPT ![i] = [n \in Ids |-> None]]
    /\ disturbed' = TRUE
    /\ UNCHANGED <<now, rotating, store, pkce, idp, browser, born, loggedOut>>
----------------------------------------------------------------------------
Handle(r) ==
    \/ \E l \in SignIns : Login(r, l)
    \/ GetState(r) \/ Exchange(r) \/ Forget(r) \/ CallbackFails(r)
    \/ \E n \in Ids, t \in {0, 1} : StoreNew(r, n, t)
    \/ Auth(r) \/ Read(r) \/ Drop(r) \/ Join(r) \/ Leave(r) \/ RequestFails(r)

Fly(i, n) ==
    \/ FlightRead(i, n) \/ FlightDrop(i, n) \/ Grant(i, n) \/ FlightStore(i, n)
    \/ \E m \in Ids : FlightMove(i, n, m)
    \/ FlightClear(i, n) \/ FlightFails(i, n)

Next ==
    \/ \E r \in Requests :
        \/ \E k \in Kinds, i \in Instances, back \in SignIns \cup {None} : Send(r, k, i, back)
        \/ Deliver(r) \/ Lose(r) \/ Handle(r)
    \/ \E i \in Instances : Crash(i) \/ \E n \in Ids : Fly(i, n)
    \/ \E n \in Ids : Evict(n)
    \/ \E l \in SignIns : ExpireState(l)
    \/ Tick

Spec == Init /\ [][Next]_vars
----------------------------------------------------------------------------
Moves(i, m, n) == At(i, m, "clear") /\ flight[i][m].next = n
Stored(l) == {n \in Ids : store[n] # None /\ store[n].login = l}

\* What a request is: `sid`, `state` and `back` come with it, `cookie` and `setState`
\* go back, `login` is the sign-in whose session a logout has read.
Reqs == [kind : Kinds, at : Instances \cup {None}, sid : Ids \cup {None},
         state : SignIns \cup {None}, back : SignIns \cup {None},
         login : SignIns \cup {None}, cookie : Ids \cup {None, Keep},
         setState : SignIns \cup {None, Keep}]

Steps == {"idle", "login", "state", "exchange", "store", "forget", "auth", "read", "drop",
          "join", "wait", "leave", "answered"}

\* Types of the variables.
TypeOK ==
    /\ now \in 0..MaxNow
    /\ rotating \in BOOLEAN
    /\ store \in [Ids -> Sessions \cup {None}]
    /\ pkce \in [SignIns -> {"unused", "stored", "gone"}]
    /\ code \in [SignIns -> {"none", "issued", "spent"}]
    /\ current \in [SignIns -> 0..MaxToken]
    /\ cookie \in Ids \cup {None}
    /\ stateCookie \in SignIns \cup {None}
    /\ pc \in [Requests -> Steps]
    /\ req \in [Requests -> Reqs]
    /\ flight \in [Instances -> [Ids -> {None} \cup Flights]]
    /\ disturbed \in BOOLEAN
    /\ born \in [SignIns -> (0..MaxNow) \cup {None}]
    /\ loggedOut \in [SignIns -> {"no", "alone", "raced"}]

\* Rotation leaves one id that opens a session, but for the moment between storing the
\* new one and clearing the old one, and no request holds the new one by then.
OneIdPerSession ==
    ~disturbed =>
        \A l \in SignIns : \A m, n \in Stored(l) :
            m # n => \E i \in Instances : Moves(i, m, n) \/ Moves(i, n, m)

\* Requests that share a flight, and flights that follow one another, never present a
\* refresh token that the provider has replaced: it may take that for theft.
TokenIsCurrent ==
    ~disturbed =>
        \A i \in Instances, n \in Ids :
            At(i, n, "grant") =>
                flight[i][n].session.token = current[flight[i][n].session.login]

\* A logout that no refresh was in the way of is final: no request that was under way,
\* no late flight brings the session back, under this id or another.
LogoutIsFinal ==
    ~disturbed => \A l \in SignIns : loggedOut[l] = "alone" => Stored(l) = {}

\* Refresh and rotation never move the absolute deadline, even when stores fail and
\* instances refresh one session at once.
DeadlineIsKept ==
    \A l \in SignIns : \A n \in Stored(l) : store[n].created = born[l]

\* A code that was redeemed leaves no state behind that a replayed callback would find.
CodeTakesState ==
    ~disturbed =>
        \A l \in SignIns :
            code[l] = "spent" /\ pkce[l] = "stored" =>
                \E r \in Requests : pc[r] \in {"store", "forget"} /\ req[r].back = l

\* "Clears session and cookie": once a logout is answered, the session it has read is
\* gone for good. (It is not when a refresh was under way.)
LogoutSticks ==
    ~disturbed =>
        \A l \in SignIns :
            loggedOut[l] # "no" /\ (\A r \in Requests : pc[r] = "idle") => Stored(l) = {}
=============================================================================

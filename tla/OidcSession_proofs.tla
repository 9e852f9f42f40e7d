--------------------------- MODULE OidcSession_proofs ---------------------------
(***************************************************************************)
(* OidcSession, for any number of requests, instances, session ids and     *)
(* sign-ins. The properties rest on one invariant: nobody knows the id a   *)
(* flight is rotating to (Secret), what is seen under an id is one         *)
(* sign-in's (OneLogin), and as long as nothing has been disturbed one     *)
(* flight at most holds a session, and what is stored of it lies under     *)
(* that flight's two ids (OneHolder).                                      *)
(***************************************************************************)
EXTENDS OidcSession, TLAPS

Times == (0..MaxNow) \cup {None}

Open(i, n) == flight[i][n] # None
Leaves(r, l) == pc[r] = "leave" /\ req[r].login = l
Rotates(i, n, m) == Open(i, n) /\ flight[i][n].next = m
Keeps(n, l) == store[n] # None /\ store[n].login = l

\* A session of sign-in l, created at c, is stored under n or held by n's flight.
Copy(n, l, c) ==
    \/ Keeps(n, l) /\ store[n].created = c
    \/ \E i \in Instances : Holds(i, n, l) /\ flight[i][n].session.created = c

Sees(n, l) ==
    \/ \E c \in Times : Copy(n, l, c)
    \/ \E r \in Requests : Leaves(r, l) /\ req[r].sid = n

Known(n) ==
    \/ cookie = n
    \/ \E r \in Requests : req[r].sid = n \/ req[r].cookie = n
    \/ \E i \in Instances : Open(i, n)

RequestShape ==
    \A r \in Requests :
        /\ pc[r] \in {"drop", "join", "wait"} => req[r].sid \in Ids
        /\ pc[r] = "leave" /\ req[r].login # None => req[r].sid \in Ids
        /\ pc[r] \notin {"idle", "answered"} => req[r].at \in Instances
        /\ pc[r] \in {"exchange", "store", "forget"} =>
              req[r].back \in SignIns /\ pkce[req[r].back] # "unused"

\* What the steps of a flight have put into it.
FlightShape ==
    \A i \in Instances, n \in Ids : Open(i, n) =>
        /\ (flight[i][n].pc \in {"read", "drop"}) <=> (flight[i][n].session = None)
        /\ (flight[i][n].pc = "clear") <=> (flight[i][n].next # None)

\* A code is redeemed once, and the session it brings is stored once.
Codes ==
    /\ \A l \in SignIns : /\ pkce[l] = "unused" => code[l] = "none"
                          /\ code[l] # "spent" => born[l] = None
    /\ \A r \in Requests : pc[r] = "store" =>
          /\ code[req[r].back] = "spent"
          /\ born[req[r].back] = None
          /\ \A q \in Requests : pc[q] = "store" /\ req[q].back = req[r].back => q = r

\* Nobody knows the id that a flight is rotating to.
Secret ==
    \A i \in Instances, n, m \in Ids : Rotates(i, n, m) =>
        /\ ~Known(m)
        /\ \A j \in Instances, k \in Ids : Rotates(j, k, m) => j = i /\ k = n

\* The sessions seen under one id are one sign-in's.
OneLogin == \A n \in Ids, k, l \in SignIns : Sees(n, k) /\ Sees(n, l) => k = l

\* A sign-in has a session only once a callback has stored it.
Born ==
    \A l \in SignIns : born[l] = None => loggedOut[l] = "no" /\ \A n \in Ids : ~Sees(n, l)

Deadlines == \A n \in Ids, l \in SignIns, c \in Times : Copy(n, l, c) => c = born[l]

\* What holds as long as nothing has been disturbed.
OneFlight ==
    \A i, j \in Instances, n \in Ids : Open(i, n) /\ Open(j, n) => i = j

OneHolder ==
    \A l \in SignIns :
        /\ \A i \in Instances, n \in Ids : Holds(i, n, l) =>
              /\ \A m \in Ids : Keeps(m, l) => m = n \/ m = flight[i][n].next
              /\ \A j \in Instances, m \in Ids : Holds(j, m, l) => j = i /\ m = n
        /\ \A m, n \in Ids : Keeps(m, l) /\ Keeps(n, l) /\ m # n =>
              \E i \in Instances, k \in Ids : Holds(i, k, l)

Granted(n, l) == \E i \in Instances : Holds(i, n, l) /\ flight[i][n].pc \in {"store", "clear"}

Tokens ==
    \A l \in SignIns, n \in Ids :
        /\ \A i \in Instances : Holds(i, n, l) => flight[i][n].session.token = current[l]
        /\ Keeps(n, l) /\ ~Granted(n, l) => store[n].token = current[l]

Final ==
    \A l \in SignIns : loggedOut[l] = "alone" =>
        \A n \in Ids : ~Keeps(n, l) /\ \A i \in Instances : ~Holds(i, n, l)

Undisturbed == OneFlight /\ OneHolder /\ Tokens /\ Final

IInv ==
    /\ TypeOK
    /\ RequestShape /\ FlightShape /\ Codes
    /\ Secret /\ OneLogin /\ Born /\ Deadlines
    /\ ~disturbed => Undisturbed
    /\ CodeTakesState
----------------------------------------------------------------------------
(* What the operators that several actions share do to a request, a flight *)
(* and a session.                                                          *)

LEMMA NoneApart == /\ None \notin Ids /\ None \notin SignIns /\ None \notin Sessions
                   /\ None \notin Nat /\ None \notin Instances /\ None \notin Flights
                   /\ Keep \notin Ids /\ Keep \notin SignIns /\ Keep # None
  BY OidcAssumption

LEMMA IdleType == Idle \in Reqs
  BY DEF Idle, Reqs, Kinds

LEMMA SessionFields ==
  ASSUME NEW s \in Sessions
  PROVE  /\ s # None /\ s.login \in SignIns /\ s.token \in 0..MaxToken /\ s.created \in Times
         /\ s.created # None => Stamped(s) = s
  BY NoneApart DEF Sessions, Times, Stamped

LEMMA FlightFields ==
  ASSUME TypeOK, NEW i \in Instances, NEW n \in Ids, Open(i, n)
  PROVE  /\ flight[i][n] \in Flights
         /\ flight[i][n].session # None => flight[i][n].session \in Sessions
         /\ flight[i][n].next \in Ids \cup {None}
  BY NoneApart DEF Open, Flights, TypeOK

LEMMA AnswerEffect ==
  ASSUME TypeOK, NEW r \in Requests, NEW c \in Ids \cup {None, Keep},
         NEW s \in SignIns \cup {None, Keep}, Answer(r, c, s)
  PROVE  /\ req' \in [Requests -> Reqs]
         /\ pc' = [pc EXCEPT ![r] = "answered"] /\ pc'[r] = "answered"
         /\ req'[r].sid = None /\ req'[r].cookie = c
         /\ \A q \in Requests \ {r} : pc'[q] = pc[q] /\ req'[q] = req[q]
<1> DEFINE a == [Idle EXCEPT !.cookie = c, !.setState = s]
<1>1. a \in Reqs /\ a.sid = None /\ a.cookie = c
  BY NoneApart DEF Idle, Reqs, Kinds
<1>2. req' = [req EXCEPT ![r] = a] /\ pc' = [pc EXCEPT ![r] = "answered"]
  BY DEF Answer
<1>3. DOMAIN pc = Requests /\ pc = [q \in Requests |-> pc[q]]
  BY DEF TypeOK
<1> HIDE DEF a
<1> QED
  BY <1>1, <1>2, <1>3 DEF TypeOK

LEMMA SettleEffect ==
  ASSUME TypeOK, NEW i \in Instances, NEW n \in Ids, NEW c \in Ids \cup {None, Keep},
         Settle(i, n, c)
  PROVE  /\ req' \in [Requests -> Reqs]
         /\ flight' \in [Instances -> [Ids -> {None} \cup Flights]]
         /\ flight'[i][n] = None
         /\ \A j \in Instances, k \in Ids : j # i \/ k # n => flight'[j][k] = flight[j][k]
         /\ \A q \in Requests :
               \/ pc'[q] = pc[q] /\ req'[q] = req[q]
               \/ /\ pc[q] = "wait" /\ pc'[q] = "answered"
                  /\ req'[q].sid = None /\ req'[q].cookie = c
<1> DEFINE a == [Idle EXCEPT !.cookie = c]
<1>1. a \in Reqs /\ a.sid = None /\ a.cookie = c
  BY NoneApart DEF Idle, Reqs, Kinds
<1>2. /\ flight' = [flight EXCEPT ![i][n] = None]
      /\ pc' = [r \in Requests |-> IF Waits(r, i, n) THEN "answered" ELSE pc[r]]
      /\ req' = [r \in Requests |-> IF Waits(r, i, n) THEN a ELSE req[r]]
  BY DEF Settle
<1> HIDE DEF a
<1> QED
  BY <1>1, <1>2 DEF Waits, TypeOK

LEMMA FlightSet ==
  ASSUME TypeOK, NEW i \in Instances, NEW n \in Ids, NEW f \in Flights,
         flight' = [flight EXCEPT ![i][n] = f]
  PROVE  /\ flight' \in [Instances -> [Ids -> {None} \cup Flights]]
         /\ flight'[i][n] = f
         /\ \A j \in Instances, k \in Ids : j # i \/ k # n => flight'[j][k] = flight[j][k]
  BY DEF TypeOK
----------------------------------------------------------------------------
(* Types *)

\* What a handler does to its own request, as far as types go.
LEMMA ProceedType ==
  ASSUME TypeOK, NEW r \in Requests, NEW s \in Sessions \cup {None}, Proceed(r, s)
  PROVE  /\ req' \in [Requests -> Reqs]
         /\ pc' = [pc EXCEPT ![r] = pc'[r]]
         /\ pc'[r] \in {"answered", "join", "leave"}
         /\ req'[r].sid \in {req[r].sid, None}
         /\ req'[r].cookie \in {req[r].cookie, Keep}
         /\ req'[r].at = req[r].at \/ pc'[r] = "answered"
         /\ pc'[r] = "join" => s # None /\ req'[r] = req[r]
         /\ pc'[r] = "leave" /\ req'[r].login # None =>
               s # None /\ req'[r].login = s.login /\ req'[r].sid = req[r].sid
         /\ \A q \in Requests \ {r} : pc'[q] = pc[q] /\ req'[q] = req[q]
<1>1. CASE Answer(r, Keep, Keep)
  <2>1. pc' = [pc EXCEPT ![r] = "answered"] /\ pc'[r] = "answered"
    BY <1>1, AnswerEffect
  <2> QED BY <1>1, <2>1, AnswerEffect
<1>2. CASE s # None /\ Goto(r, "join") /\ UNCHANGED req
  BY <1>2 DEF Goto, Steps, TypeOK
<1>3. CASE /\ Goto(r, "leave")
           /\ req' = [req EXCEPT ![r].login = IF s = None THEN None ELSE s.login]
  <2>1. (IF s = None THEN None ELSE s.login) \in SignIns \cup {None}
    BY SessionFields
  <2> DEFINE l == IF s = None THEN None ELSE s.login
  <2>2. req' = [req EXCEPT ![r] = [req[r] EXCEPT !.login = l]]
    BY <1>3
  <2>3. req[r] \in Reqs
    BY DEF TypeOK
  <2>4. /\ [req[r] EXCEPT !.login = l] \in Reqs
        /\ [req[r] EXCEPT !.login = l].login = l
        /\ [req[r] EXCEPT !.login = l].sid = req[r].sid
        /\ [req[r] EXCEPT !.login = l].at = req[r].at
        /\ [req[r] EXCEPT !.login = l].cookie = req[r].cookie
    BY <2>1, <2>3 DEF Reqs
  <2>5. req' \in [Requests -> Reqs] /\ req'[r] = [req[r] EXCEPT !.login = l]
        /\ \A q \in Requests \ {r} : req'[q] = req[q]
    BY <2>2, <2>4 DEF TypeOK
  <2>6. pc' = [pc EXCEPT ![r] = "leave"] /\ pc'[r] = "leave"
        /\ \A q \in Requests \ {r} : pc'[q] = pc[q]
    BY <1>3 DEF Goto, Steps, TypeOK
  <2> QED
    BY <2>4, <2>5, <2>6
<1> QED
  BY <1>1, <1>2, <1>3 DEF Proceed

LEMMA LeaveType ==
  ASSUME TypeOK, NEW r \in Requests, Leave(r)
  PROVE  loggedOut' \in [SignIns -> {"no", "alone", "raced"}]
  BY DEF Leave, Leaving, TypeOK

LEMMA SettleType ==
  ASSUME TypeOK, NEW i \in Instances, NEW n \in Ids, NEW c \in Ids \cup {None, Keep},
         Settle(i, n, c)
  PROVE  /\ req' \in [Requests -> Reqs]
         /\ flight' \in [Instances -> [Ids -> {None} \cup Flights]]
         /\ pc' \in [Requests -> Steps]
<1>1. \A r \in Requests : pc[r] \in Steps
  BY DEF TypeOK
<1>2. pc' \in [Requests -> Steps]
  BY <1>1 DEF Settle, Steps
<1> QED
  BY <1>2, SettleEffect

LEMMA StampedType ==
  ASSUME TypeOK, NEW s \in Sessions
  PROVE  Stamped(s) \in Sessions
  BY DEF TypeOK, Sessions, Stamped

LEMMA GrantedFlight ==
  ASSUME NEW f \in Flights, NEW s \in Sessions
  PROVE  /\ [f EXCEPT !.pc = "store", !.session = s] \in Flights
         /\ [f EXCEPT !.pc = "store", !.session = s].pc = "store"
         /\ [f EXCEPT !.pc = "store", !.session = s].session = s
         /\ [f EXCEPT !.pc = "store", !.session = s].next = f.next
  BY DEF Flights

LEMMA FlyType ==
  ASSUME TypeOK, FlightShape, NEW i \in Instances, NEW n \in Ids, Fly(i, n)
  PROVE  TypeOK'
<1> USE DEF idp, browser, history, handlers
<1>1. CASE FlightRead(i, n)
  <2>1. CASE Settle(i, n, Keep)
    BY <1>1, <2>1, SettleType DEF FlightRead, TypeOK
  <2>2. CASE Advance(i, n, "drop")
    <3>1. flight' = [flight EXCEPT ![i][n] = [flight[i][n] EXCEPT !.pc = "drop"]]
          /\ UNCHANGED <<pc, req>>
      BY <2>2 DEF Advance
    <3>2. [flight[i][n] EXCEPT !.pc = "drop"] \in Flights
      BY <1>1, FlightFields DEF FlightRead, At, Open, Flights
    <3> QED BY <1>1, <3>1, <3>2 DEF FlightRead, TypeOK
  <2>3. CASE /\ flight' = [flight EXCEPT ![i][n].pc = "grant", ![i][n].session = store[n]]
             /\ UNCHANGED <<pc, req>>
             /\ store[n] # None
    <3> DEFINE f == [flight[i][n] EXCEPT !.pc = "grant", !.session = store[n]]
    <3>1. flight' = [flight EXCEPT ![i][n] = f]
      BY <2>3
    <3>2. f \in Flights
      <4>1. store[n] \in Sessions
        BY <2>3 DEF TypeOK
      <4> QED BY <1>1, <4>1, FlightFields DEF FlightRead, At, Open, Flights
    <3> HIDE DEF f
    <3>3. flight' \in [Instances -> [Ids -> {None} \cup Flights]]
      BY <3>1, <3>2, FlightSet
    <3> QED BY <1>1, <2>3, <3>3 DEF FlightRead, TypeOK
  <2> QED BY <1>1, <2>1, <2>2, <2>3 DEF FlightRead, Found
<1>2. CASE FlightDrop(i, n)
  <2>1. Settle(i, n, Keep)
    BY <1>2 DEF FlightDrop
  <2> QED BY <1>2, <2>1, SettleType DEF FlightDrop, TypeOK
<1>3. CASE Grant(i, n)
  <2>1. CASE Settle(i, n, Keep) /\ UNCHANGED current
    BY <1>3, <2>1, SettleType DEF Grant, TypeOK
  <2>2. ASSUME NEW t \in 1..MaxToken,
               current' = [current EXCEPT ![flight[i][n].session.login] = t],
               flight' = [flight EXCEPT ![i][n].pc = "store", ![i][n].session.token = t],
               UNCHANGED <<pc, req>>
        PROVE  TypeOK'
    <3>1. flight[i][n].session \in Sessions /\ flight[i][n] \in Flights
      BY <1>3, FlightFields DEF Grant, At, Open, FlightShape
    <3> DEFINE s == [flight[i][n].session EXCEPT !.token = t]
    <3> DEFINE f == [flight[i][n] EXCEPT !.pc = "store", !.session = s]
    <3>2. s \in Sessions
      <4>1. t \in 0..MaxToken
        BY OidcAssumption
      <4> QED BY <3>1, <4>1 DEF Sessions
    <3>3. flight' = [flight EXCEPT ![i][n] = f]
      BY <2>2, <3>1 DEF TypeOK, Flights, Sessions
    <3> HIDE DEF s
    <3>4. f \in Flights
      BY <3>1, <3>2, GrantedFlight
    <3>5. current' \in [SignIns -> 0..MaxToken]
      <4>1. t \in 0..MaxToken /\ current \in [SignIns -> 0..MaxToken]
        BY OidcAssumption DEF TypeOK
      <4> QED BY <2>2, <4>1
    <3> HIDE DEF f
    <3>6. flight' \in [Instances -> [Ids -> {None} \cup Flights]]
      BY <3>3, <3>4, FlightSet
    <3> QED BY <1>3, <2>2, <3>5, <3>6 DEF Grant, TypeOK
  <2> QED BY <1>3, <2>1, <2>2 DEF Grant
<1>4. CASE FlightStore(i, n)
  <2>1. flight[i][n].session \in Sessions /\ Settle(i, n, n)
    BY <1>4, FlightFields DEF FlightStore, At, Open, FlightShape
  <2>2. Stamped(flight[i][n].session) \in Sessions
    BY <2>1, StampedType
  <2> QED BY <1>4, <2>1, <2>2, SettleType DEF FlightStore, TypeOK
<1>5. ASSUME NEW m \in Ids, FlightMove(i, n, m) PROVE TypeOK'
  <2>1. flight[i][n].session \in Sessions /\ flight[i][n] \in Flights
    BY <1>5, FlightFields DEF FlightMove, At, Open, FlightShape
  <2>2. store' \in [Ids -> Sessions \cup {None}]
    BY <1>5, <2>1, StampedType DEF FlightMove, TypeOK
  <2> DEFINE f == [flight[i][n] EXCEPT !.pc = "clear", !.next = m]
  <2>3. f \in Flights /\ flight' = [flight EXCEPT ![i][n] = f]
    BY <1>5, <2>1 DEF FlightMove, Flights
  <2> HIDE DEF f
  <2>4. flight' \in [Instances -> [Ids -> {None} \cup Flights]]
    BY <2>3, FlightSet
  <2> QED BY <1>5, <2>2, <2>4 DEF FlightMove, TypeOK
<1>6. CASE FlightClear(i, n)
  <2>1. Settle(i, n, flight[i][n].next) /\ flight[i][n].next \in Ids \cup {None}
    BY <1>6, FlightFields DEF FlightClear, At, Open
  <2> QED BY <1>6, <2>1, SettleType DEF FlightClear, TypeOK
<1>7. CASE FlightFails(i, n)
  <2>1. Settle(i, n, Keep)
    BY <1>7 DEF FlightFails
  <2>2. /\ store' \in [Ids -> Sessions \cup {None}]
        /\ current' \in [SignIns -> 0..MaxToken]
    <3>1. CASE UNCHANGED <<store, current>>
      BY <3>1 DEF TypeOK
    <3>2. CASE ~UNCHANGED <<store, current>>
      <4>1. flight[i][n].session \in Sessions
        BY <1>7, <3>2, FlightFields DEF FlightFails, Open, FlightShape
      <4>2. Stamped(flight[i][n].session) \in Sessions
        BY <4>1, StampedType
      <4>3. /\ flight[i][n].session.login \in SignIns
            /\ flight[i][n].session.token < MaxToken =>
                  flight[i][n].session.token + 1 \in 0..MaxToken
        BY <4>1, SessionFields, OidcAssumption
      <4> QED BY <1>7, <3>2, <4>2, <4>3 DEF FlightFails, TypeOK
    <3> QED BY <3>1, <3>2
  <2> QED BY <1>7, <2>1, <2>2, SettleType DEF FlightFails, TypeOK
<1>8. TypeOK'
  BY <1>1, <1>2, <1>3, <1>4, <1>5, <1>6, <1>7 DEF Fly
<1> QED
  BY <1>8

LEMMA TypesKept == TypeOK /\ RequestShape /\ FlightShape /\ [Next]_vars => TypeOK'
<1> SUFFICES ASSUME TypeOK, RequestShape, FlightShape, [Next]_vars PROVE TypeOK'
  OBVIOUS
<1> USE DEF idp, browser, history, handlers
<1>0. ASSUME UNCHANGED vars PROVE TypeOK'
  BY <1>0 DEF vars, TypeOK
<1>1. ASSUME NEW r \in Requests, NEW k \in Kinds, NEW i \in Instances,
             NEW b \in SignIns \cup {None}, Send(r, k, i, b)
      PROVE  TypeOK'
  <2>1. FirstStep[k] \in {"login", "state", "auth", "read"}
    BY DEF FirstStep, Kinds
  <2> DEFINE a == [Idle EXCEPT !.kind = k, !.at = i, !.back = b,
                      !.sid = IF k \in {"login", "callback"} THEN None ELSE cookie,
                      !.state = IF k = "callback" THEN stateCookie ELSE None]
  <2>2. a \in Reqs
    BY DEF Idle, Reqs, TypeOK
  <2>3. req' = [req EXCEPT ![r] = a]
    BY <1>1 DEF Send
  <2> HIDE DEF a
  <2> QED BY <1>1, <2>1, <2>2, <2>3 DEF Send, Goto, Steps, TypeOK
<1>2. ASSUME NEW r \in Requests, Deliver(r) \/ Lose(r) PROVE TypeOK'
  <2>1. req[r] \in Reqs /\ (cookie' \in Ids \cup {None}) /\ (stateCookie' \in SignIns \cup {None})
    BY <1>2 DEF Deliver, Lose, TypeOK, Reqs
  <2> QED BY <1>2, <2>1, IdleType DEF Deliver, Lose, Goto, Steps, TypeOK
<1>3. ASSUME NEW r \in Requests, NEW l \in SignIns, Login(r, l) PROVE TypeOK'
  <2>1. Answer(r, Keep, l)
    BY <1>3 DEF Login
  <2>2. req' \in [Requests -> Reqs] /\ pc' = [pc EXCEPT ![r] = "answered"]
    BY <2>1, AnswerEffect
  <2> QED BY <1>3, <2>2 DEF Login, Steps, TypeOK
<1>4. ASSUME NEW r \in Requests, GetState(r) \/ Auth(r) \/ RequestFails(r) PROVE TypeOK'
  <2>1. CASE Answer(r, Keep, Keep)
    <3>1. req' \in [Requests -> Reqs] /\ pc' = [pc EXCEPT ![r] = "answered"]
      BY <2>1, AnswerEffect
    <3> QED BY <1>4, <3>1 DEF GetState, Auth, RequestFails, Steps, TypeOK
  <2>2. CASE ~Answer(r, Keep, Keep)
    BY <1>4, <2>2 DEF GetState, Auth, RequestFails, Goto, Steps, TypeOK
  <2> QED BY <2>1, <2>2
<1>5. ASSUME NEW r \in Requests, Exchange(r) PROVE TypeOK'
  <2>1. pc' \in [Requests -> Steps]
    BY <1>5 DEF Exchange, Admit, Goto, Steps, TypeOK
  <2> QED BY <1>5, <2>1 DEF Exchange, TypeOK
<1>6. ASSUME NEW r \in Requests, NEW n \in Ids, NEW t \in {0, 1}, StoreNew(r, n, t)
      PROVE  TypeOK'
  <2> DEFINE l == req[r].back
  <2>1. l \in SignIns /\ current' = [current EXCEPT ![l] = t] /\ t \in 0..MaxToken
    BY <1>6, OidcAssumption DEF StoreNew, RequestShape
  <2>2. /\ store' \in [Ids -> Sessions \cup {None}]
        /\ born' \in [SignIns -> (0..MaxNow) \cup {None}]
    <3> DEFINE s == [login |-> l, token |-> t, created |-> now]
    <3>1. s \in Sessions
      BY <2>1 DEF Sessions, TypeOK
    <3>2. store' = [store EXCEPT ![n] = s] /\ born' = [born EXCEPT ![l] = now]
      <4>1. Stamped([login |-> l, token |-> t, created |-> None]) = s
        BY DEF Stamped
      <4> HIDE DEF s
      <4> QED BY <1>6, <4>1 DEF StoreNew
    <3> HIDE DEF s
    <3> QED BY <3>1, <3>2 DEF TypeOK
  <2>3. req' \in [Requests -> Reqs] /\ current' \in [SignIns -> 0..MaxToken]
    <3>0. req[r] \in Reqs
      BY DEF TypeOK
    <3>1. [req[r] EXCEPT !.cookie = n] \in Reqs
      BY <3>0 DEF Reqs
    <3>2. req' = [req EXCEPT ![r] = [req[r] EXCEPT !.cookie = n]]
      BY <1>6 DEF StoreNew
    <3> QED BY <2>1, <3>1, <3>2 DEF TypeOK
  <2> QED BY <1>6, <2>2, <2>3 DEF StoreNew, Goto, Steps, TypeOK
<1>7. ASSUME NEW r \in Requests, Forget(r) \/ CallbackFails(r) PROVE TypeOK'
  <2>1. PICK s \in {None, Keep} : Answer(r, req[r].cookie, s)
    BY <1>7 DEF Forget, CallbackFails
  <2>2. req[r].cookie \in Ids \cup {None, Keep}
    BY DEF TypeOK, Reqs
  <2>3. req' \in [Requests -> Reqs] /\ pc' = [pc EXCEPT ![r] = "answered"]
    BY <2>1, <2>2, AnswerEffect
  <2> QED BY <1>7, <2>3 DEF Forget, CallbackFails, Steps, TypeOK
<1>8. ASSUME NEW r \in Requests, Read(r) \/ Drop(r) PROVE TypeOK'
  <2>1. CASE UNCHANGED req /\ Goto(r, "drop") /\ Read(r)
    BY <2>1 DEF Read, Goto, Steps, TypeOK
  <2>2. ASSUME NEW s \in Sessions \cup {None}, Proceed(r, s) PROVE TypeOK'
    <3>1. /\ req' \in [Requests -> Reqs]
          /\ pc' = [pc EXCEPT ![r] = pc'[r]] /\ pc'[r] \in {"answered", "join", "leave"}
      BY <2>2, ProceedType
    <3>2. store' \in [Ids -> Sessions \cup {None}]
      BY <1>8 DEF Read, Drop, TypeOK
    <3>3. pc' \in [Requests -> Steps]
      BY <3>1 DEF Steps, TypeOK
    <3> QED BY <1>8, <3>1, <3>2, <3>3 DEF Read, Drop, TypeOK
  <2>3. req[r].sid # None => store[req[r].sid] \in Sessions \cup {None}
    BY DEF TypeOK, Reqs
  <2> QED BY <1>8, <2>1, <2>2, <2>3 DEF Read, Drop, Found
<1>9. ASSUME NEW r \in Requests, Join(r) PROVE TypeOK'
  <2>1. flight' \in [Instances -> [Ids -> {None} \cup Flights]]
    <3> DEFINE f == [pc |-> "read", session |-> None, next |-> None]
    <3>1. f \in Flights
      BY DEF Flights
    <3>2. flight' = flight \/ flight' = [flight EXCEPT ![req[r].at][req[r].sid] = f]
      BY <1>9 DEF Join
    <3>3. req[r].at \in Instances /\ req[r].sid \in Ids
      BY <1>9 DEF Join, RequestShape
    <3> HIDE DEF f
    <3> QED BY <3>1, <3>2, <3>3, FlightSet DEF TypeOK
  <2> QED BY <1>9, <2>1 DEF Join, Goto, Steps, TypeOK
<1>10. ASSUME NEW r \in Requests, Leave(r) PROVE TypeOK'
  <2>1. Answer(r, None, Keep)
    BY <1>10 DEF Leave
  <2>2. req' \in [Requests -> Reqs] /\ pc' = [pc EXCEPT ![r] = "answered"]
    BY <2>1, AnswerEffect
  <2> QED BY <1>10, <2>2, LeaveType DEF Leave, Steps, TypeOK
<1>11. ASSUME NEW i \in Instances, NEW n \in Ids, Fly(i, n) PROVE TypeOK'
  BY <1>11, FlyType
<1>12. ASSUME NEW i \in Instances, Crash(i) PROVE TypeOK'
  BY <1>12, IdleType DEF Crash, Steps, TypeOK
<1>13. ASSUME NEW n \in Ids, Evict(n) PROVE TypeOK'
  BY <1>13 DEF Evict, TypeOK
<1>14. ASSUME NEW l \in SignIns, ExpireState(l) PROVE TypeOK'
  BY <1>14 DEF ExpireState, TypeOK
<1>15. ASSUME Tick PROVE TypeOK'
  BY <1>15, OidcAssumption DEF Tick, TypeOK
<1> QED
  BY <1>0, <1>1, <1>2, <1>3, <1>4, <1>5, <1>6, <1>7, <1>8, <1>9, <1>10, <1>11, <1>12,
     <1>13, <1>14, <1>15 DEF Next, Handle
----------------------------------------------------------------------------
(* Requests: which steps end one, and what the others do to it. *)

Same(q) == pc'[q] = pc[q] /\ req'[q] = req[q]
Ends(q) == /\ pc'[q] \in {"idle", "answered"} /\ req'[q].sid = None
           /\ req'[q].cookie \in Ids \cup {None, Keep}

\* Nothing but the cookies of requests that end becomes known of an id.
Silent ==
    /\ \A q \in Requests : Same(q) \/ (Ends(q) /\ req'[q].cookie \in {req[q].cookie, None, Keep})
    /\ cookie' = cookie \/ \E q \in Requests : cookie' = req[q].cookie

LEMMA EndingSteps ==
  ASSUME TypeOK,
         \/ \E r \in Requests : \/ Deliver(r) \/ Lose(r) \/ \E l \in SignIns : Login(r, l)
                                \/ Forget(r) \/ CallbackFails(r) \/ Leave(r) \/ RequestFails(r)
         \/ \E i \in Instances : Crash(i)
         \/ \E n \in Ids : Evict(n)
         \/ \E l \in SignIns : ExpireState(l)
         \/ Tick
  PROVE  Silent /\ \A q \in Requests : \/ Same(q)
                                       \/ pc[q] # "idle" /\ Ends(q)
<1> USE DEF idp, browser, history, handlers
<1>1. ASSUME NEW r \in Requests, NEW c \in {req[r].cookie, None, Keep},
             NEW s \in SignIns \cup {None, Keep}, Answer(r, c, s), UNCHANGED browser,
             pc[r] # "idle"
      PROVE  Silent /\ \A q \in Requests : Same(q) \/ (pc[q] # "idle" /\ Ends(q))
  <2>1. c \in Ids \cup {None, Keep}
    BY DEF TypeOK, Reqs
  <2>2. /\ pc'[r] = "answered" /\ req'[r].sid = None /\ req'[r].cookie = c
        /\ \A q \in Requests \ {r} : Same(q)
    BY <1>1, <2>1, AnswerEffect DEF Same
  <2> QED BY <1>1, <2>1, <2>2 DEF Silent, Ends, Same
<1>2. ASSUME NEW r \in Requests, Deliver(r) \/ Lose(r)
      PROVE  Silent /\ \A q \in Requests : Same(q) \/ (pc[q] # "idle" /\ Ends(q))
  <2>1. /\ pc'[r] = "idle" /\ req'[r].sid = None /\ req'[r].cookie = Keep /\ pc[r] = "answered"
        /\ \A q \in Requests \ {r} : Same(q)
    BY <1>2 DEF Deliver, Lose, Goto, Same, Idle, TypeOK
  <2>2. cookie' = cookie \/ cookie' = req[r].cookie
    BY <1>2 DEF Deliver, Lose
  <2> QED BY <2>1, <2>2 DEF Silent, Ends, Same
<1>3. ASSUME NEW i \in Instances, Crash(i)
      PROVE  Silent /\ \A q \in Requests : Same(q) \/ (pc[q] # "idle" /\ Ends(q))
  <2>1. \A q \in Requests : Same(q) \/ (pc[q] # "idle" /\ pc'[q] = "idle" /\ req'[q] = Idle)
    BY <1>3 DEF Crash, Serving, Same
  <2> QED BY <1>3, <2>1 DEF Silent, Ends, Same, Idle, Crash
<1>4. CASE \/ \E n \in Ids : Evict(n)
           \/ \E l \in SignIns : ExpireState(l)
           \/ Tick
  BY <1>4 DEF Evict, ExpireState, Tick, Silent, Same
<1>5. ASSUME NEW r \in Requests,
             \/ \E l \in SignIns : Login(r, l)
             \/ Forget(r) \/ CallbackFails(r) \/ Leave(r) \/ RequestFails(r)
      PROVE  \E c \in {req[r].cookie, None, Keep}, s \in SignIns \cup {None, Keep} :
                Answer(r, c, s) /\ UNCHANGED browser /\ pc[r] # "idle"
  BY <1>5 DEF Login, Forget, CallbackFails, Leave, RequestFails
<1> QED BY <1>1, <1>2, <1>3, <1>4, <1>5

LEMMA FlyEnds ==
  ASSUME TypeOK, FlightShape, NEW i \in Instances, NEW n \in Ids, Fly(i, n)
  PROVE  /\ Open(i, n) /\ UNCHANGED <<cookie, pkce, code, born, loggedOut, now>>
         /\ \A q \in Requests :
               \/ Same(q)
               \/ /\ pc[q] = "wait" /\ Ends(q)
                  /\ req'[q].cookie \in {Keep, n, flight[i][n].next}
         /\ \A j \in Instances, k \in Ids : j # i \/ k # n => flight'[j][k] = flight[j][k]
<1> USE DEF idp, browser, history, handlers
<1>0. Open(i, n) /\ UNCHANGED <<cookie, pkce, code, born, loggedOut, now>>
  BY DEF Fly, FlightRead, FlightDrop, Grant, FlightStore, FlightMove, FlightClear, FlightFails,
         At, Open
<1>1. flight[i][n].next \in Ids \cup {None}
  BY <1>0, FlightFields
<1>2. \/ \E c \in {Keep, n, flight[i][n].next} : Settle(i, n, c)
      \/ /\ UNCHANGED <<pc, req>>
         /\ \A j \in Instances, k \in Ids : j # i \/ k # n => flight'[j][k] = flight[j][k]
  BY DEF Fly, FlightRead, FlightDrop, Grant, FlightStore, FlightMove, FlightClear, FlightFails,
         Advance, TypeOK
<1>3. ASSUME NEW c \in {Keep, n, flight[i][n].next}, Settle(i, n, c)
      PROVE  /\ \A q \in Requests :
                  \/ Same(q)
                  \/ pc[q] = "wait" /\ Ends(q) /\ req'[q].cookie = c
             /\ \A j \in Instances, k \in Ids : j # i \/ k # n => flight'[j][k] = flight[j][k]
  BY <1>1, <1>3, SettleEffect DEF Same, Ends
<1> QED BY <1>0, <1>2, <1>3 DEF Same

\* What a handler that goes on does to its request.
LEMMA GoingOn ==
  ASSUME TypeOK, NEW r \in Requests, Auth(r) \/ Read(r) \/ Drop(r)
  PROVE  /\ \A q \in Requests \ {r} : Same(q)
         /\ pc[r] \in {"auth", "read", "drop"}
         /\ pc'[r] \in {"answered", "read", "drop", "join", "leave"}
         /\ req'[r].sid \in {req[r].sid, None}
         /\ req'[r].cookie \in {req[r].cookie, Keep}
         /\ req'[r].at = req[r].at \/ pc'[r] = "answered"
         /\ pc'[r] \in {"drop", "join"} => req[r].sid \in Ids /\ req'[r].sid = req[r].sid
         /\ pc'[r] = "leave" /\ req'[r].login # None =>
               /\ req[r].sid \in Ids /\ req'[r].sid = req[r].sid
               /\ Keeps(req[r].sid, req'[r].login)
<1>0. req[r].sid \in Ids \cup {None}
  BY DEF TypeOK, Reqs
<1>1. CASE Answer(r, Keep, Keep)
  <2>1. /\ pc'[r] = "answered" /\ req'[r].sid = None /\ req'[r].cookie = Keep
        /\ \A q \in Requests \ {r} : Same(q)
    BY <1>1, AnswerEffect DEF Same
  <2> QED BY <2>1 DEF Auth, Read, Drop
<1>2. CASE /\ UNCHANGED req /\ (Goto(r, "drop") \/ (Goto(r, "read") /\ Auth(r)))
           /\ Found(req[r].sid) /\ pc[r] \in {"auth", "read"}
  BY <1>0, <1>2 DEF Goto, Found, Same, TypeOK
<1>3. ASSUME NEW s \in Sessions \cup {None}, Proceed(r, s), pc[r] \in {"read", "drop"},
             s # None => Found(req[r].sid) /\ s = store[req[r].sid]
      PROVE  /\ \A q \in Requests \ {r} : Same(q)
             /\ pc'[r] \in {"answered", "read", "drop", "join", "leave"}
             /\ req'[r].sid \in {req[r].sid, None}
             /\ req'[r].cookie \in {req[r].cookie, Keep}
             /\ req'[r].at = req[r].at \/ pc'[r] = "answered"
             /\ pc'[r] \in {"drop", "join"} => req[r].sid \in Ids /\ req'[r].sid = req[r].sid
             /\ pc'[r] = "leave" /\ req'[r].login # None =>
                   /\ req[r].sid \in Ids /\ req'[r].sid = req[r].sid
                   /\ Keeps(req[r].sid, req'[r].login)
  BY <1>0, <1>3, ProceedType DEF Found, Same, Keeps
<1>4. CASE Read(r) /\ ~(UNCHANGED req /\ Goto(r, "drop") /\ Found(req[r].sid))
  <2>1. \E s \in Sessions \cup {None} :
           /\ Proceed(r, s)
           /\ s # None => Found(req[r].sid) /\ s = store[req[r].sid]
    BY <1>0, <1>4 DEF Read, Found, TypeOK
  <2> QED BY <1>3, <1>4, <2>1 DEF Read
<1>5. CASE Drop(r)
  BY <1>3, <1>5 DEF Drop
<1>6. CASE Auth(r)
  BY <1>1, <1>2, <1>6 DEF Auth
<1> QED BY <1>2, <1>4, <1>5, <1>6 DEF Read

LEMMA RequestsKept == IInv /\ [Next]_vars => RequestShape'
<1> SUFFICES ASSUME IInv, [Next]_vars PROVE RequestShape'
  OBVIOUS
<1> USE DEF IInv, idp, browser, history, handlers
<1>0. CASE UNCHANGED vars
  BY <1>0 DEF vars, RequestShape
<1>1. ASSUME \A q \in Requests : Same(q) \/ Ends(q),
             \A l \in SignIns : pkce'[l] = "unused" => pkce[l] = "unused"
      PROVE  RequestShape'
  BY <1>1 DEF RequestShape, Same, Ends
<1>2. CASE \/ \E r \in Requests : \/ Deliver(r) \/ Lose(r) \/ \E l \in SignIns : Login(r, l)
                                  \/ Forget(r) \/ CallbackFails(r) \/ Leave(r) \/ RequestFails(r)
           \/ \E i \in Instances : Crash(i)
           \/ \E n \in Ids : Evict(n)
           \/ \E l \in SignIns : ExpireState(l)
           \/ Tick
  <2>1. \A l \in SignIns : pkce'[l] = "unused" => pkce[l] = "unused"
    BY <1>2 DEF Deliver, Lose, Login, Forget, CallbackFails, Leave, RequestFails, Crash, Evict,
                ExpireState, Tick, TypeOK
  <2> QED BY <1>1, <1>2, <2>1, EndingSteps
<1>3. CASE \E i \in Instances, n \in Ids : Fly(i, n)
  BY <1>1, <1>3, FlyEnds
<1>4. ASSUME NEW r \in Requests, NEW k \in Kinds, NEW i \in Instances,
             NEW b \in SignIns \cup {None}, Send(r, k, i, b)
      PROVE  RequestShape'
  <2>1. /\ \A q \in Requests \ {r} : Same(q)
        /\ req'[r].at = i /\ pc'[r] \in {"login", "state", "auth", "read"}
        /\ UNCHANGED pkce
    BY <1>4 DEF Send, Goto, Same, FirstStep, Kinds, Idle, TypeOK
  <2> QED BY <2>1 DEF RequestShape, Same
<1>5. ASSUME NEW r \in Requests, GetState(r) PROVE RequestShape'
  <2>0. UNCHANGED pkce /\ pc[r] = "state"
    BY <1>5 DEF GetState
  <2>1. CASE Answer(r, Keep, Keep)
    BY <1>1, <2>0, <2>1, AnswerEffect DEF Same, Ends
  <2>2. CASE ~Answer(r, Keep, Keep)
    <3>1. /\ \A q \in Requests : q # r => Same(q)
          /\ pc'[r] = "exchange" /\ UNCHANGED req
          /\ req[r].back \in SignIns /\ pkce[req[r].back] # "unused"
      BY <1>5, <2>2 DEF GetState, Goto, Same, TypeOK, Reqs
    <3> QED BY <2>0, <3>1 DEF RequestShape, Same
  <2> QED BY <2>1, <2>2
<1>6. ASSUME NEW r \in Requests, Exchange(r) PROVE RequestShape'
  <2>1. /\ \A q \in Requests : q # r => Same(q)
        /\ pc'[r] \in {"store", "forget"} /\ pc[r] = "exchange" /\ UNCHANGED <<req, pkce>>
    BY <1>6 DEF Exchange, Admit, Goto, Same, TypeOK
  <2> QED BY <2>1 DEF RequestShape, Same
<1>7. ASSUME NEW r \in Requests, NEW n \in Ids, NEW t \in {0, 1}, StoreNew(r, n, t)
      PROVE  RequestShape'
  <2>1. /\ \A q \in Requests : q # r => Same(q)
        /\ pc'[r] = "forget" /\ pc[r] = "store" /\ UNCHANGED pkce
        /\ req'[r].at = req[r].at /\ req'[r].back = req[r].back
    BY <1>7 DEF StoreNew, Goto, Same, TypeOK, Reqs
  <2> QED BY <2>1 DEF RequestShape, Same
<1>8. ASSUME NEW r \in Requests, Auth(r) \/ Read(r) \/ Drop(r) PROVE RequestShape'
  <2>1. UNCHANGED pkce
    BY <1>8 DEF Auth, Read, Drop
  <2> QED BY <1>8, <2>1, GoingOn DEF RequestShape, Same
<1>9. ASSUME NEW r \in Requests, Join(r) PROVE RequestShape'
  <2>1. /\ \A q \in Requests : q # r => Same(q)
        /\ pc'[r] = "wait" /\ pc[r] = "join" /\ UNCHANGED <<req, pkce>>
    BY <1>9 DEF Join, Goto, Same, TypeOK
  <2> QED BY <2>1 DEF RequestShape, Same
<1> QED
  BY <1>0, <1>2, <1>3, <1>4, <1>5, <1>6, <1>7, <1>8, <1>9 DEF Next, Handle
----------------------------------------------------------------------------
(* Flights: the effect of each step of one, field by field. *)

\* A flight that goes on keeps its session; only the token may change.
LEMMA ReadEffect ==
  ASSUME TypeOK, FlightShape, NEW i \in Instances, NEW n \in Ids, FlightRead(i, n)
  PROVE  /\ flight[i][n].pc = "read"
         /\ \/ Settle(i, n, Keep)
            \/ /\ flight'[i][n].pc = "drop" /\ flight'[i][n].session = None
               /\ flight'[i][n].next = None /\ UNCHANGED <<pc, req>>
            \/ /\ flight'[i][n].pc = "grant" /\ flight'[i][n].session = store[n]
               /\ flight'[i][n].next = None /\ store[n] \in Sessions /\ UNCHANGED <<pc, req>>
               /\ flight'[i][n] # None
<1>1. /\ flight[i][n] \in Flights /\ flight[i][n].pc = "read"
      /\ flight[i][n].session = None /\ flight[i][n].next = None
  BY FlightFields DEF FlightRead, At, Open, FlightShape
<1>2. CASE Advance(i, n, "drop")
  BY <1>1, <1>2 DEF Advance, TypeOK, Flights
<1>3. CASE /\ flight' = [flight EXCEPT ![i][n].pc = "grant", ![i][n].session = store[n]]
           /\ UNCHANGED <<pc, req>> /\ store[n] # None
  <2>1. /\ flight'[i][n].pc = "grant" /\ flight'[i][n].session = store[n]
        /\ flight'[i][n].next = None /\ store[n] \in Sessions /\ flight'[i][n] \in Flights
    BY <1>1, <1>3 DEF TypeOK, Flights
  <2> QED BY <1>1, <1>3, <2>1, NoneApart
<1> QED BY <1>1, <1>2, <1>3 DEF FlightRead, Found

LEMMA GrantEffect ==
  ASSUME TypeOK, FlightShape, NEW i \in Instances, NEW n \in Ids, Grant(i, n)
  PROVE  /\ flight[i][n].pc = "grant" /\ flight[i][n].session \in Sessions
         /\ flight[i][n].next = None
         /\ \/ /\ Settle(i, n, Keep) /\ UNCHANGED current
               /\ flight[i][n].session.token # current[flight[i][n].session.login]
            \/ /\ flight'[i][n].pc = "store" /\ flight'[i][n].next = None
               /\ flight'[i][n].session \in Sessions /\ flight'[i][n] # None
               /\ flight'[i][n].session.login = flight[i][n].session.login
               /\ flight'[i][n].session.created = flight[i][n].session.created
               /\ current'[flight[i][n].session.login] = flight'[i][n].session.token
               /\ \A l \in SignIns : l # flight[i][n].session.login => current'[l] = current[l]
               /\ UNCHANGED <<pc, req>>
<1>1. /\ flight[i][n] \in Flights /\ flight[i][n].pc = "grant"
      /\ flight[i][n].session \in Sessions /\ flight[i][n].next = None
  BY FlightFields DEF Grant, At, Open, FlightShape
<1>2. ASSUME NEW t \in 1..MaxToken,
             current' = [current EXCEPT ![flight[i][n].session.login] = t],
             flight' = [flight EXCEPT ![i][n].pc = "store", ![i][n].session.token = t]
      PROVE  /\ flight'[i][n].pc = "store" /\ flight'[i][n].next = None
             /\ flight'[i][n].session \in Sessions /\ flight'[i][n] # None
             /\ flight'[i][n].session.login = flight[i][n].session.login
             /\ flight'[i][n].session.created = flight[i][n].session.created
             /\ current'[flight[i][n].session.login] = flight'[i][n].session.token
             /\ \A l \in SignIns : l # flight[i][n].session.login => current'[l] = current[l]
  <2> DEFINE s == [flight[i][n].session EXCEPT !.token = t]
  <2> DEFINE f == [flight[i][n] EXCEPT !.pc = "store", !.session = s]
  <2>1. s \in Sessions /\ s.login = flight[i][n].session.login
        /\ s.created = flight[i][n].session.created /\ s.token = t
    <3>1. t \in 0..MaxToken
      BY OidcAssumption
    <3> QED BY <1>1, <3>1 DEF Sessions
  <2>2. flight' = [flight EXCEPT ![i][n] = f]
    BY <1>1, <1>2 DEF TypeOK, Flights, Sessions
  <2> HIDE DEF s
  <2>3. f \in Flights /\ f.pc = "store" /\ f.session = s /\ f.next = flight[i][n].next
    BY <1>1, <2>1, GrantedFlight
  <2> HIDE DEF f
  <2>4. flight'[i][n] = f
    BY <2>2, <2>3, FlightSet
  <2>5. flight[i][n].session.login \in SignIns /\ current \in [SignIns -> 0..MaxToken]
    BY <1>1, SessionFields DEF TypeOK
  <2> QED BY <1>1, <1>2, <2>1, <2>3, <2>4, <2>5, NoneApart
<1> QED BY <1>1, <1>2 DEF Grant

LEMMA MoveEffect ==
  ASSUME TypeOK, FlightShape, NEW i \in Instances, NEW n \in Ids, NEW m \in Ids,
         FlightMove(i, n, m)
  PROVE  /\ flight[i][n].pc = "store" /\ flight[i][n].session \in Sessions
         /\ flight[i][n].next = None
         /\ flight'[i][n].pc = "clear" /\ flight'[i][n].next = m
         /\ flight'[i][n].session = flight[i][n].session /\ flight'[i][n] # None
         /\ store'[m] = Stamped(flight[i][n].session)
         /\ \A k \in Ids : k # m => store'[k] = store[k]
         /\ UNCHANGED <<pc, req, cookie, current>>
<1>1. /\ flight[i][n] \in Flights /\ flight[i][n].pc = "store"
      /\ flight[i][n].session \in Sessions /\ flight[i][n].next = None
  BY FlightFields DEF FlightMove, At, Open, FlightShape
<1>2. flight'[i][n].pc = "clear" /\ flight'[i][n].next = m
      /\ flight'[i][n].session = flight[i][n].session /\ flight'[i][n] \in Flights
  BY <1>1 DEF FlightMove, TypeOK, Flights
<1> QED BY <1>1, <1>2, NoneApart DEF FlightMove, TypeOK, idp, browser

LEMMA StoreEffect ==
  ASSUME TypeOK, FlightShape, NEW i \in Instances, NEW n \in Ids, FlightStore(i, n)
  PROVE  /\ flight[i][n].pc = "store" /\ flight[i][n].session \in Sessions
         /\ flight[i][n].next = None
         /\ Settle(i, n, n) /\ flight'[i][n] = None
         /\ store'[n] = Stamped(flight[i][n].session)
         /\ \A k \in Ids : k # n => store'[k] = store[k]
         /\ UNCHANGED <<cookie, current>>
<1>1. /\ flight[i][n] \in Flights /\ flight[i][n].pc = "store"
      /\ flight[i][n].session \in Sessions /\ flight[i][n].next = None
  BY FlightFields DEF FlightStore, At, Open, FlightShape
<1>2. Settle(i, n, n) /\ flight'[i][n] = None
  BY SettleEffect DEF FlightStore
<1> QED BY <1>1, <1>2 DEF FlightStore, TypeOK, idp, browser

\* How a failing flight ends.
LEMMA FailEffect ==
  ASSUME TypeOK, FlightShape, NEW i \in Instances, NEW n \in Ids, FlightFails(i, n)
  PROVE  /\ Open(i, n) /\ Settle(i, n, Keep) /\ flight'[i][n] = None
         /\ \A k \in Ids : k # n => store'[k] = store[k]
         /\ \/ store'[n] = store[n]
            \/ /\ flight[i][n].session \in Sessions
               /\ store'[n] = Stamped(flight[i][n].session)
         /\ ~disturbed' => /\ ~disturbed /\ UNCHANGED <<store, current>>
                           /\ flight[i][n].session = None
<1>1. Open(i, n) /\ Settle(i, n, Keep) /\ flight'[i][n] = None
  BY SettleEffect DEF FlightFails, Open
<1>2. flight[i][n].session # None => flight[i][n].session \in Sessions
  BY <1>1, FlightFields
<1>3. flight[i][n].pc \notin {"grant", "store", "clear"} => flight[i][n].session = None
  <2>1. flight[i][n].pc \in {"read", "drop", "grant", "store", "clear"}
    BY <1>1, FlightFields DEF Flights
  <2> QED BY <1>1, <2>1 DEF FlightShape
<1>4. flight[i][n].pc \in {"grant", "store", "clear"} => flight[i][n].session # None
  BY <1>1 DEF FlightShape
<1> QED BY <1>1, <1>2, <1>3, <1>4 DEF FlightFails, TypeOK

LEMMA JoinEffect ==
  ASSUME TypeOK, RequestShape, NEW r \in Requests, Join(r)
  PROVE  /\ req[r].at \in Instances /\ req[r].sid \in Ids
         /\ \A j \in Instances, k \in Ids :
               \/ flight'[j][k] = flight[j][k]
               \/ /\ j = req[r].at /\ k = req[r].sid
                  /\ ~Open(j, k) /\ flight'[j][k].pc = "read"
                  /\ flight'[j][k].session = None /\ flight'[j][k].next = None
                  /\ ~disturbed' => \A i \in Instances : ~Open(i, k)
         /\ \A q \in Requests : q # r => Same(q)
         /\ pc[r] = "join" /\ pc'[r] = "wait"
         /\ disturbed => disturbed'
         /\ UNCHANGED <<store, current, cookie, pkce, code, born, loggedOut, req, now>>
<1>1. req[r].at \in Instances /\ req[r].sid \in Ids
  BY DEF Join, RequestShape
<1> DEFINE f == [pc |-> "read", session |-> None, next |-> None]
<1>2. f.pc = "read" /\ f.session = None /\ f.next = None
  OBVIOUS
<1>3. \/ flight' = flight
      \/ /\ flight[req[r].at][req[r].sid] = None
         /\ flight' = [flight EXCEPT ![req[r].at][req[r].sid] = f]
         /\ disturbed' = (disturbed \/ \E j \in Instances : flight[j][req[r].sid] # None)
  BY DEF Join
<1> HIDE DEF f
<1>4. \A j \in Instances, k \in Ids :
         \/ flight'[j][k] = flight[j][k]
         \/ /\ j = req[r].at /\ k = req[r].sid
            /\ ~Open(j, k) /\ flight'[j][k] = f
            /\ ~disturbed' => \A i \in Instances : ~Open(i, k)
  <2>1. CASE flight' = flight
    BY <2>1
  <2>2. CASE /\ flight[req[r].at][req[r].sid] = None
             /\ flight' = [flight EXCEPT ![req[r].at][req[r].sid] = f]
             /\ disturbed' = (disturbed \/ \E j \in Instances : flight[j][req[r].sid] # None)
    <3>1. ~disturbed' => \A i \in Instances : ~Open(i, req[r].sid)
      BY <2>2, Zenon DEF Open
    <3>2. \A j \in Instances, k \in Ids :
             \/ flight'[j][k] = flight[j][k]
             \/ j = req[r].at /\ k = req[r].sid /\ ~Open(j, k) /\ flight'[j][k] = f
      BY <1>1, <2>2 DEF TypeOK, Open
    <3> QED BY <3>1, <3>2
  <2> QED BY <1>3, <2>1, <2>2
<1>5. disturbed => disturbed'
  BY DEF Join
<1>6. /\ \A q \in Requests : q # r => Same(q)
      /\ pc[r] = "join" /\ pc'[r] = "wait"
      /\ UNCHANGED <<store, current, cookie, pkce, code, born, loggedOut, req, now>>
  BY DEF Join, Goto, Same, TypeOK, idp, browser
<1> QED BY <1>1, <1>2, <1>4, <1>5, <1>6

\* A crash closes the flights of its instance, and no other step of no flight touches one.
LEMMA CrashEffect ==
  ASSUME TypeOK, NEW i \in Instances, Crash(i)
  PROVE  /\ \A j \in Instances, k \in Ids : flight'[j][k] \in {flight[j][k], None}
         /\ disturbed' /\ UNCHANGED <<store, current, cookie, pkce, code, born, loggedOut, now>>
<1>1. flight' = [flight EXCEPT ![i] = [n \in Ids |-> None]]
  BY DEF Crash
<1>2. \A j \in Instances, k \in Ids : flight'[j][k] \in {flight[j][k], None}
  BY <1>1 DEF TypeOK
<1> QED BY <1>2 DEF Crash, idp, browser

\* The steps of handlers and surroundings that leave the sessions alone.
Quiet ==
    \/ \E r \in Requests :
          \/ \E k \in Kinds, i \in Instances, back \in SignIns \cup {None} : Send(r, k, i, back)
          \/ Deliver(r) \/ Lose(r)
          \/ \E l \in SignIns : Login(r, l)
          \/ GetState(r) \/ Exchange(r) \/ Forget(r) \/ CallbackFails(r)
          \/ Auth(r) \/ Read(r) \/ RequestFails(r)
    \/ \E l \in SignIns : ExpireState(l)
    \/ Tick
    \/ UNCHANGED vars

LEMMA QuietEffect ==
  ASSUME Quiet
  PROVE  UNCHANGED <<store, flight, current, born, loggedOut>>
  BY DEF Quiet, Send, Deliver, Lose, Login, GetState, Exchange, Forget, CallbackFails, Auth,
         Read, RequestFails, ExpireState, Tick, vars, idp, browser, history, handlers

LEMMA StepCases ==
  ASSUME [Next]_vars
  PROVE  \/ Quiet
         \/ \E r \in Requests : Drop(r) \/ Join(r) \/ Leave(r)
         \/ \E r \in Requests, n \in Ids, t \in {0, 1} : StoreNew(r, n, t)
         \/ \E i \in Instances, n \in Ids : Fly(i, n)
         \/ \E i \in Instances : Crash(i)
         \/ \E n \in Ids : Evict(n)
  BY DEF Next, Handle, Quiet

LEMMA FlightShapeKept ==
  ASSUME IInv, [Next]_vars PROVE FlightShape'
<1> USE DEF IInv
<1>1. ASSUME NEW i \in Instances, NEW n \in Ids,
             \A j \in Instances, k \in Ids : j # i \/ k # n => flight'[j][k] = flight[j][k],
             Open(i, n)' =>
                /\ (flight'[i][n].pc \in {"read", "drop"}) <=> (flight'[i][n].session = None)
                /\ (flight'[i][n].pc = "clear") <=> (flight'[i][n].next # None)
      PROVE  FlightShape'
  BY <1>1 DEF FlightShape, Open
<1>2. CASE flight' = flight
  BY <1>2 DEF FlightShape, Open
<1>3. CASE \A j \in Instances, k \in Ids : flight'[j][k] \in {flight[j][k], None}
  BY <1>3 DEF FlightShape, Open
<1>4. ASSUME NEW r \in Requests, Join(r) PROVE FlightShape'
  <2>1. flight'[req[r].at][req[r].sid].pc = "read" =>
           "read" \in {"read", "drop"} /\ "read" # "clear"
    OBVIOUS
  <2> QED BY <1>4, <2>1, JoinEffect DEF FlightShape, Open
<1>5. ASSUME NEW i \in Instances, NEW n \in Ids, Fly(i, n) PROVE FlightShape'
  <2>1. \A j \in Instances, k \in Ids : j # i \/ k # n => flight'[j][k] = flight[j][k]
    BY <1>5, FlyEnds
  <2>2. ASSUME NEW c \in Ids \cup {None, Keep}, Settle(i, n, c) PROVE FlightShape'
    BY <1>1, <2>1, <2>2, SettleEffect DEF Open
  <2>3. CASE FlightRead(i, n)
    BY <1>1, <2>1, <2>2, <2>3, ReadEffect, SessionFields
  <2>4. CASE Grant(i, n)
    BY <1>1, <2>1, <2>2, <2>4, GrantEffect, SessionFields
  <2>5. ASSUME NEW m \in Ids, FlightMove(i, n, m) PROVE FlightShape'
    BY <1>1, <2>1, <2>5, MoveEffect, SessionFields, NoneApart
  <2>6. CASE FlightDrop(i, n) \/ FlightStore(i, n) \/ FlightClear(i, n) \/ FlightFails(i, n)
    <3>1. PICK c \in {Keep, n, flight[i][n].next} : Settle(i, n, c)
      BY <2>6 DEF FlightDrop, FlightStore, FlightClear, FlightFails
    <3>2. flight[i][n].next \in Ids \cup {None}
      BY <1>5, FlyEnds, FlightFields
    <3> QED BY <2>2, <3>1, <3>2
  <2> QED BY <1>5, <2>3, <2>4, <2>5, <2>6 DEF Fly
<1>6. \A r \in Requests : Drop(r) \/ Leave(r) => flight' = flight
  BY DEF Drop, Leave, Proceed, Answer
<1>7. \A r \in Requests, n \in Ids, t \in {0, 1} : StoreNew(r, n, t) => flight' = flight
  BY DEF StoreNew
<1>8. \A n \in Ids : Evict(n) => flight' = flight
  BY DEF Evict, handlers
<1> QED
  BY <1>2, <1>3, <1>4, <1>5, <1>6, <1>7, <1>8, StepCases, QuietEffect, CrashEffect
----------------------------------------------------------------------------
(* Codes and states *)

\* Steps that let no callback go on.
NoCallback(q) == pc'[q] \notin {"store", "forget"} \/ Same(q)

LEMMA CodesFramed ==
  ASSUME IInv, \A q \in Requests : NoCallback(q), UNCHANGED <<code, born>>,
         \A l \in SignIns : pkce'[l] = "unused" => pkce[l] = "unused"
  PROVE  Codes'
  BY DEF IInv, Codes, NoCallback, Same

LEMMA CodeTakesStateFramed ==
  ASSUME IInv, UNCHANGED code, disturbed => disturbed',
         \A l \in SignIns : pkce'[l] = "stored" => pkce[l] = "stored",
         \A q \in Requests : pc[q] \in {"store", "forget"} => Same(q)
  PROVE  CodeTakesState'
  BY DEF IInv, CodeTakesState, Same

\* The steps that are no callback's.
LEMMA NotCallback ==
  ASSUME IInv,
         \/ \E r \in Requests :
              \/ \E k \in Kinds, i \in Instances, b \in SignIns \cup {None} : Send(r, k, i, b)
              \/ Deliver(r) \/ Lose(r) \/ GetState(r)
              \/ Auth(r) \/ Read(r) \/ Drop(r) \/ Join(r) \/ Leave(r) \/ RequestFails(r)
         \/ \E i \in Instances, n \in Ids : Fly(i, n)
         \/ \E n \in Ids : Evict(n)
         \/ \E l \in SignIns : ExpireState(l)
         \/ Tick
         \/ UNCHANGED vars
  PROVE  /\ UNCHANGED <<code, born>>
         /\ disturbed => disturbed'
         /\ \A l \in SignIns : pkce'[l] = pkce[l] \/ pkce'[l] = "gone"
         /\ \A q \in Requests : \/ Same(q)
                                \/ /\ pc[q] \notin {"store", "forget"}
                                   /\ pc'[q] \notin {"store", "forget"}
<1> USE DEF IInv, idp, browser, history, handlers
<1>1. CASE UNCHANGED vars
  BY <1>1 DEF vars, Same
<1>2. CASE \/ \E n \in Ids : Evict(n)
           \/ \E l \in SignIns : ExpireState(l)
           \/ Tick
  BY <1>2 DEF Evict, ExpireState, Tick, Same, TypeOK
<1>3. ASSUME NEW r \in Requests, NEW k \in Kinds, NEW i \in Instances,
             NEW b \in SignIns \cup {None}, Send(r, k, i, b)
      PROVE  /\ UNCHANGED <<code, born, disturbed, pkce>>
             /\ pc[r] = "idle" /\ pc'[r] \notin {"store", "forget"}
             /\ \A q \in Requests : q # r => Same(q)
  BY <1>3 DEF Send, Goto, Same, FirstStep, Kinds, TypeOK
<1>4. ASSUME NEW r \in Requests,
             Deliver(r) \/ Lose(r) \/ GetState(r) \/ Leave(r) \/ RequestFails(r)
      PROVE  /\ UNCHANGED <<code, born, disturbed, pkce>>
             /\ pc[r] \notin {"store", "forget"}
             /\ pc'[r] \notin {"store", "forget"}
             /\ \A q \in Requests : q # r => Same(q)
  <2>1. UNCHANGED <<code, born, disturbed, pkce>> /\ pc[r] \notin {"store", "forget"}
    BY <1>4 DEF Deliver, Lose, GetState, Leave, RequestFails
  <2>2. /\ pc'[r] \in {"idle", "answered", "exchange"}
        /\ \A q \in Requests : q # r => Same(q)
    BY <1>4 DEF Deliver, Lose, GetState, Leave, RequestFails, Answer, Goto, Same, TypeOK
  <2> QED BY <2>1, <2>2
<1>5. ASSUME NEW r \in Requests, Auth(r) \/ Read(r) \/ Drop(r)
      PROVE  /\ UNCHANGED <<code, born, disturbed, pkce>>
             /\ pc[r] \notin {"store", "forget"} /\ pc'[r] \notin {"store", "forget"}
             /\ \A q \in Requests : q # r => Same(q)
  <2>1. UNCHANGED <<code, born, disturbed, pkce>>
    BY <1>5 DEF Auth, Read, Drop
  <2> QED BY <1>5, <2>1, GoingOn
<1>6. ASSUME NEW r \in Requests, Join(r)
      PROVE  /\ UNCHANGED <<code, born, pkce>> /\ (disturbed => disturbed')
             /\ pc[r] \notin {"store", "forget"} /\ pc'[r] \notin {"store", "forget"}
             /\ \A q \in Requests : q # r => Same(q)
  BY <1>6, JoinEffect
<1>7. ASSUME NEW i \in Instances, NEW n \in Ids, Fly(i, n)
      PROVE  /\ UNCHANGED <<code, born, pkce>> /\ (disturbed => disturbed')
             /\ \A q \in Requests : \/ Same(q)
                                    \/ /\ pc[q] \notin {"store", "forget"}
                                       /\ pc'[q] \notin {"store", "forget"}
  <2>1. disturbed => disturbed'
    BY <1>7 DEF Fly, FlightRead, FlightDrop, Grant, FlightStore, FlightMove, FlightClear,
                FlightFails
  <2> QED BY <1>7, <2>1, FlyEnds DEF Ends
<1> QED BY <1>1, <1>2, <1>3, <1>4, <1>5, <1>6, <1>7

LEMMA CodesKept == IInv /\ [Next]_vars => Codes' /\ CodeTakesState'
<1> SUFFICES ASSUME IInv, [Next]_vars PROVE Codes' /\ CodeTakesState'
  OBVIOUS
<1> USE DEF IInv, idp, browser, history, handlers
<1>1. CASE \/ \E r \in Requests :
                \/ \E k \in Kinds, i \in Instances, b \in SignIns \cup {None} : Send(r, k, i, b)
                \/ Deliver(r) \/ Lose(r) \/ GetState(r)
                \/ Auth(r) \/ Read(r) \/ Drop(r) \/ Join(r) \/ Leave(r) \/ RequestFails(r)
           \/ \E i \in Instances, n \in Ids : Fly(i, n)
           \/ \E n \in Ids : Evict(n)
           \/ \E l \in SignIns : ExpireState(l)
           \/ Tick
           \/ UNCHANGED vars
  BY <1>1, NotCallback, CodesFramed, CodeTakesStateFramed DEF NoCallback
<1>2. ASSUME NEW r \in Requests, NEW l \in SignIns, Login(r, l)
      PROVE  Codes' /\ CodeTakesState'
  <2>1. /\ pkce[l] = "unused" /\ pkce' = [pkce EXCEPT ![l] = "stored"]
        /\ code' = [code EXCEPT ![l] = "issued"] /\ UNCHANGED <<born, disturbed>>
        /\ pc[r] = "login" /\ pc'[r] = "answered" /\ \A q \in Requests : q # r => Same(q)
    BY <1>2 DEF Login, Answer, Same, TypeOK
  <2>2. code[l] = "none"
    BY <2>1 DEF Codes
  <2>3. \A q \in Requests : pc[q] = "store" => req[q].back # l
    BY <2>2 DEF Codes
  <2>4. \A k \in SignIns : \/ k # l /\ code'[k] = code[k] /\ pkce'[k] = pkce[k]
                           \/ k = l /\ code'[k] = "issued" /\ pkce'[k] = "stored"
    BY <2>1 DEF TypeOK
  <2>5. Codes'
    BY <2>1, <2>2, <2>3, <2>4 DEF Codes, Same, RequestShape
  <2>6. CodeTakesState'
    BY <2>1, <2>4 DEF CodeTakesState, Same
  <2> QED BY <2>5, <2>6
<1>3. ASSUME NEW r \in Requests, Exchange(r) PROVE Codes' /\ CodeTakesState'
  <2> DEFINE l == req[r].back
  <2>1. /\ l \in SignIns /\ pkce[l] # "unused" /\ pc[r] = "exchange"
        /\ UNCHANGED <<req, pkce, born, disturbed>>
        /\ \A q \in Requests : q # r => pc'[q] = pc[q]
        /\ pc'[r] \in {"store", "forget"}
        /\ pc'[r] = "store" => code[l] = "issued"
    BY <1>3 DEF Exchange, Admit, Goto, RequestShape, TypeOK
  <2>3. \A k \in SignIns : code'[k] = code[k] \/ (k = l /\ code[k] = "issued" /\ code'[k] = "spent")
    BY <1>3, <2>1 DEF Exchange, TypeOK
  <2>4. pc'[r] = "store" => /\ code'[l] = "spent" /\ born[l] = None
                            /\ \A q \in Requests : pc[q] = "store" => req[q].back # l
    BY <1>3, <2>1 DEF Exchange, TypeOK, Codes
  <2>5. Codes'
    <3>1. \A k \in SignIns : /\ pkce'[k] = "unused" => code'[k] = "none"
                             /\ code'[k] # "spent" => born'[k] = None
      BY <2>1, <2>3 DEF Codes
    <3>2. ASSUME NEW q \in Requests, pc'[q] = "store"
          PROVE  /\ code'[req'[q].back] = "spent" /\ born'[req'[q].back] = None
                 /\ \A p \in Requests : pc'[p] = "store" /\ req'[p].back = req'[q].back => p = q
      <4>1. q # r => /\ pc[q] = "store" /\ req[q].back \in SignIns
                     /\ code[req[q].back] = "spent" /\ born[req[q].back] = None
        BY <2>1, <3>2 DEF Codes, RequestShape
      <4> QED BY <2>1, <2>3, <2>4, <3>2, <4>1 DEF Codes
    <3> QED BY <3>1, <3>2 DEF Codes
  <2>6. CodeTakesState'
    BY <2>1, <2>3 DEF CodeTakesState
  <2> QED BY <2>5, <2>6
<1>4. ASSUME NEW r \in Requests, NEW n \in Ids, NEW t \in {0, 1}, StoreNew(r, n, t)
      PROVE  Codes' /\ CodeTakesState'
  <2> DEFINE l == req[r].back
  <2>1. /\ l \in SignIns /\ pkce[l] # "unused" /\ pc[r] = "store" /\ pc'[r] = "forget"
        /\ code[l] = "spent" /\ UNCHANGED <<pkce, code, disturbed>>
        /\ \A q \in Requests : q # r => Same(q)
        /\ req'[r].back = l
        /\ \A k \in SignIns : k # l => born'[k] = born[k]
    <3>1. born' = [born EXCEPT ![l] = now] /\ req' = [req EXCEPT ![r].cookie = n]
      BY <1>4 DEF StoreNew
    <3>2. req'[r].back = l /\ \A q \in Requests : q # r => req'[q] = req[q]
      BY <3>1 DEF TypeOK, Reqs
    <3> QED BY <1>4, <3>1, <3>2 DEF StoreNew, Goto, Same, RequestShape, Codes, TypeOK
  <2>2. \A q \in Requests : pc'[q] = "store" =>
           q # r /\ req[q].back # l /\ req[q].back \in SignIns
    BY <2>1 DEF Codes, Same, RequestShape
  <2>3. Codes'
    BY <2>1, <2>2 DEF Codes, Same
  <2>4. CodeTakesState'
    BY <2>1 DEF CodeTakesState, Same
  <2> QED BY <2>3, <2>4
<1>5. ASSUME NEW r \in Requests, Forget(r) PROVE Codes' /\ CodeTakesState'
  <2> DEFINE l == req[r].back
  <2>1. /\ l \in SignIns /\ pc[r] = "forget" /\ pc'[r] = "answered"
        /\ \A q \in Requests : q # r => Same(q)
        /\ UNCHANGED <<code, born, disturbed>>
        /\ \A k \in SignIns : pkce'[k] = IF k = l THEN "gone" ELSE pkce[k]
    BY <1>5 DEF Forget, Answer, Same, RequestShape, TypeOK
  <2>2. Codes'
    BY <2>1, CodesFramed DEF NoCallback
  <2>3. CodeTakesState'
    BY <2>1 DEF CodeTakesState, Same
  <2> QED BY <2>2, <2>3
<1>6. ASSUME NEW r \in Requests, CallbackFails(r) PROVE Codes' /\ CodeTakesState'
  <2> DEFINE l == req[r].back
  <2>1. /\ l \in SignIns /\ pkce[l] # "unused" /\ pc'[r] = "answered"
        /\ \A q \in Requests : q # r => Same(q)
        /\ UNCHANGED <<pkce, born>> /\ disturbed'
        /\ \A k \in SignIns : code'[k] = IF k = l THEN "spent" ELSE code[k]
    BY <1>6 DEF CallbackFails, Answer, Same, RequestShape, TypeOK
  <2>2. Codes'
    BY <2>1 DEF Codes, Same, RequestShape
  <2> QED BY <2>1, <2>2 DEF CodeTakesState
<1>7. ASSUME NEW i \in Instances, Crash(i) PROVE Codes' /\ CodeTakesState'
  <2>1. \A q \in Requests : Same(q) \/ Ends(q)
    BY <1>7, EndingSteps
  <2>2. Codes'
    BY <1>7, <2>1, CrashEffect, CodesFramed DEF NoCallback, Ends
  <2> QED BY <1>7, <2>2, CrashEffect DEF CodeTakesState
<1> QED
  BY <1>1, <1>2, <1>3, <1>4, <1>5, <1>6, <1>7 DEF Next, Handle
----------------------------------------------------------------------------
(* What is seen of sessions, whatever fails *)

\* A step that shows no session under an id where it was not seen.
NothingSeen ==
    /\ \A n \in Ids, l \in SignIns, c \in Times : Copy(n, l, c)' => Copy(n, l, c)
    /\ \A r \in Requests, l \in SignIns : Leaves(r, l)' =>
          \/ Same(r)
          \/ req'[r].sid \in Ids /\ \E c \in Times : Copy(req'[r].sid, l, c)
    /\ UNCHANGED born
    /\ \A l \in SignIns : loggedOut'[l] = loggedOut[l] \/ \E n \in Ids : Sees(n, l)

LEMMA SeenFramed ==
  ASSUME IInv, NothingSeen
  PROVE  OneLogin' /\ Born' /\ Deadlines'
<1>1. ASSUME NEW n \in Ids, NEW l \in SignIns, Sees(n, l)' PROVE Sees(n, l)
  <2>1. CASE \E c \in Times : Copy(n, l, c)'
    BY <2>1 DEF NothingSeen, Sees
  <2>2. ASSUME NEW r \in Requests, Leaves(r, l)', req'[r].sid = n PROVE Sees(n, l)
    BY <2>2 DEF NothingSeen, Sees, Same, Leaves
  <2> QED BY <1>1, <2>1, <2>2 DEF Sees
<1> QED BY <1>1 DEF IInv, NothingSeen, OneLogin, Born, Deadlines

LEMMA SecretFramed ==
  ASSUME IInv,
         \A i \in Instances, n, m \in Ids : Rotates(i, n, m)' => Rotates(i, n, m),
         \A m \in Ids : Known(m)' =>
            Known(m) \/ \A i \in Instances, n \in Ids : ~Rotates(i, n, m)'
  PROVE  Secret'
  BY DEF IInv, Secret

\* Only what is stored or held matters.
LEMMA CopyFrame ==
  ASSUME \A n \in Ids : store'[n] \in {store[n], None},
         \A i \in Instances, n \in Ids :
            flight'[i][n] # None => \/ flight'[i][n] = flight[i][n]
                                    \/ flight'[i][n].session = None
  PROVE  /\ \A n \in Ids, l \in SignIns, c \in Times : Copy(n, l, c)' => Copy(n, l, c)
         /\ \A i \in Instances, n \in Ids, l \in SignIns :
               Holds(i, n, l)' => Holds(i, n, l) /\ flight'[i][n] = flight[i][n]
         /\ \A n \in Ids, l \in SignIns : Keeps(n, l)' => Keeps(n, l) /\ store'[n] = store[n]
  BY DEF Copy, Keeps, Holds

\* What requests do to what is known and seen.
LEMMA RequestFrame ==
  ASSUME IInv, Quiet \/ \E r \in Requests : Drop(r) \/ Leave(r) \/ Join(r)
  PROVE  /\ \A r \in Requests, l \in SignIns : Leaves(r, l)' =>
               \/ Same(r)
               \/ req'[r].sid \in Ids /\ Keeps(req'[r].sid, l)
         /\ \A m \in Ids : (\/ cookie' = m
                            \/ \E r \in Requests : req'[r].sid = m \/ req'[r].cookie = m)
               => Known(m)
<1> USE DEF IInv
<1> DEFINE Goal == /\ \A r \in Requests, l \in SignIns : Leaves(r, l)' =>
                         \/ Same(r)
                         \/ req'[r].sid \in Ids /\ Keeps(req'[r].sid, l)
                   /\ \A m \in Ids : (\/ cookie' = m
                                      \/ \E r \in Requests : req'[r].sid = m \/ req'[r].cookie = m)
                         => Known(m)
<1>1. ASSUME Silent PROVE Goal
  BY <1>1, NoneApart DEF Silent, Same, Ends, Leaves, Known
<1>2. ASSUME NEW r \in Requests, \A q \in Requests : q # r => Same(q), cookie' = cookie,
             req'[r].sid \in {req[r].sid, None, cookie},
             req'[r].cookie \in {req[r].cookie, None, Keep},
             \A l \in SignIns : Leaves(r, l)' => req'[r].sid \in Ids /\ Keeps(req'[r].sid, l)
      PROVE  Goal
  BY <1>2, NoneApart DEF Same, Known
<1>3. CASE \/ \E r \in Requests : \/ Deliver(r) \/ Lose(r) \/ \E l \in SignIns : Login(r, l)
                                  \/ Forget(r) \/ CallbackFails(r) \/ Leave(r) \/ RequestFails(r)
           \/ \E l \in SignIns : ExpireState(l)
           \/ Tick
  BY <1>1, <1>3, EndingSteps
<1>4. ASSUME NEW r \in Requests, NEW k \in Kinds, NEW i \in Instances,
             NEW b \in SignIns \cup {None}, Send(r, k, i, b)
      PROVE  Goal
  <2>1. /\ \A q \in Requests : q # r => Same(q)
        /\ req'[r].sid \in {None, cookie} /\ req'[r].cookie = Keep
        /\ pc'[r] \in {"login", "state", "auth", "read"} /\ cookie' = cookie
    BY <1>4 DEF Send, Goto, Same, FirstStep, Kinds, Idle, TypeOK, browser
  <2> QED BY <1>2, <2>1 DEF Leaves
<1>5. ASSUME NEW r \in Requests, GetState(r) \/ Exchange(r) PROVE Goal
  <2>1. CASE Answer(r, Keep, Keep)
    <3>1. Silent
      BY <1>5, <2>1, AnswerEffect DEF GetState, Exchange, browser, Silent, Same, Ends
    <3> QED BY <1>1, <3>1
  <2>2. CASE ~Answer(r, Keep, Keep)
    <3>1. /\ \A q \in Requests : q # r => Same(q)
          /\ UNCHANGED <<req, cookie>> /\ pc'[r] \in {"exchange", "store", "forget"}
      BY <1>5, <2>2 DEF GetState, Exchange, Admit, Goto, Same, TypeOK, browser
    <3> QED BY <1>2, <3>1 DEF Leaves
  <2> QED BY <2>1, <2>2
<1>6. ASSUME NEW r \in Requests, Auth(r) \/ Read(r) \/ Drop(r) PROVE Goal
  <2>1. cookie' = cookie
    BY <1>6 DEF Auth, Read, Drop, browser
  <2>2. \A l \in SignIns : l # None
    BY NoneApart
  <2> QED BY <1>2, <1>6, <2>1, <2>2, GoingOn DEF Leaves
<1>7. ASSUME NEW r \in Requests, Join(r) PROVE Goal
  <2>1. /\ \A q \in Requests : q # r => Same(q)
        /\ UNCHANGED <<req, cookie>> /\ pc'[r] = "wait"
    BY <1>7, JoinEffect
  <2> QED BY <1>2, <2>1 DEF Leaves
<1>8. CASE UNCHANGED vars
  <2>1. Silent
    BY <1>8 DEF vars, handlers, browser, Silent, Same
  <2> QED BY <1>1, <2>1
<1>9. Goal
  BY <1>3, <1>4, <1>5, <1>6, <1>7, <1>8 DEF Quiet
<1> QED BY <1>9

LEMMA KeepsCopy ==
  ASSUME TypeOK, NEW n \in Ids, NEW l \in SignIns, Keeps(n, l)
  PROVE  \E c \in Times : Copy(n, l, c)
<1>1. store[n].created \in Times
  BY SessionFields DEF Keeps, TypeOK
<1> QED BY <1>1 DEF Copy

LEMMA HoldsCopy ==
  ASSUME TypeOK, NEW i \in Instances, NEW n \in Ids, NEW l \in SignIns, Holds(i, n, l)
  PROVE  \E c \in Times : Copy(n, l, c)
<1>1. flight[i][n].session.created \in Times
  BY SessionFields, FlightFields DEF Holds, Open
<1> QED BY <1>1 DEF Copy

\* A session that was once stored keeps its stamp.
LEMMA StampKept ==
  ASSUME IInv, NEW i \in Instances, NEW n \in Ids, flight[i][n] # None,
         flight[i][n].session \in Sessions
  PROVE  Stamped(flight[i][n].session) = flight[i][n].session
<1> DEFINE s == flight[i][n].session
<1>1. s.login \in SignIns /\ s # None
  BY SessionFields
<1>2. Holds(i, n, s.login)
  BY <1>1 DEF Holds
<1>3. PICK c \in Times : Copy(n, s.login, c)
  BY <1>1, <1>2, HoldsCopy DEF IInv
<1>4. born[s.login] # None
  BY <1>1, <1>3 DEF IInv, Born, Sees
<1>5. s.created \in Times /\ s.created = born[s.login]
  BY <1>1, <1>2, SessionFields DEF IInv, Deadlines, Copy
<1> QED BY <1>4, <1>5, SessionFields

LEMMA FlySeen ==
  ASSUME IInv, NEW i \in Instances, NEW n \in Ids, Fly(i, n),
         \A m \in Ids : ~FlightMove(i, n, m)
  PROVE  NothingSeen /\ Secret'
<1> USE DEF IInv
<1>1. /\ Open(i, n) /\ UNCHANGED <<cookie, born, loggedOut>>
      /\ \A q \in Requests : Same(q) \/ (Ends(q) /\ req'[q].cookie \in {Keep, n, flight[i][n].next})
      /\ \A j \in Instances, k \in Ids : j # i \/ k # n => flight'[j][k] = flight[j][k]
  BY FlyEnds
<1>2. flight[i][n].next \in Ids \cup {None}
  BY <1>1, FlightFields
<1>3. \A r \in Requests, l \in SignIns : Leaves(r, l)' => Same(r)
  BY <1>1 DEF Leaves, Ends
<1>4. \A m \in Ids : Rotates(i, n, m)' => Rotates(i, n, m)
  <2>1. CASE FlightRead(i, n)
    BY <2>1, <1>1, ReadEffect, SettleEffect, NoneApart DEF Rotates, Open
  <2>2. CASE Grant(i, n)
    BY <2>2, <1>1, GrantEffect, SettleEffect, NoneApart DEF Rotates, Open
  <2>3. CASE FlightDrop(i, n) \/ FlightStore(i, n) \/ FlightClear(i, n) \/ FlightFails(i, n)
    BY <2>3, <1>2, SettleEffect DEF FlightDrop, FlightStore, FlightClear, FlightFails, Rotates, Open
  <2> QED BY <2>1, <2>2, <2>3 DEF Fly
<1>5. \A j \in Instances, k, m \in Ids : Rotates(j, k, m)' => Rotates(j, k, m)
  BY <1>1, <1>4 DEF Rotates, Open
<1>6. ASSUME NEW m \in Ids, Known(m)', ~Known(m)
      PROVE  \A j \in Instances, k \in Ids : ~Rotates(j, k, m)'
  <2>1. \A j \in Instances : Open(j, m)' => Open(j, m)
    BY <1>1 DEF Open
  <2>2. PICK q \in Requests : req'[q].cookie = m /\ ~Same(q)
    BY <1>1, <1>6, <2>1, NoneApart DEF Known, Same, Ends
  <2>3. m \in {n, flight[i][n].next} /\ m # n
    BY <1>1, <1>6, <2>2, NoneApart DEF Known
  <2>4. Rotates(i, n, m)
    BY <1>1, <2>3 DEF Rotates
  <2>5. flight'[i][n] = None \/ Same(q)
    <3>1. UNCHANGED <<req, pc>> \/ flight'[i][n] = None
      BY <1>2, SettleEffect DEF Fly, FlightRead, FlightDrop, Grant, FlightStore, FlightClear,
                                FlightFails, Advance
    <3> QED BY <3>1 DEF Same
  <2> QED BY <1>5, <2>2, <2>4, <2>5 DEF Secret, Rotates, Open
<1>7. Secret'
  BY <1>5, <1>6, SecretFramed
<1>8. \A k \in Ids, l \in SignIns, c \in Times : Copy(k, l, c)' => Copy(k, l, c)
  <2>1. CASE FlightRead(i, n)
    <3>1. store' = store
      BY <2>1 DEF FlightRead
    <3>2. /\ \A j \in Instances, k \in Ids : j # i \/ k # n => flight'[j][k] = flight[j][k]
          /\ \/ flight'[i][n] = None \/ flight'[i][n].session = None
             \/ flight'[i][n].session = store[n] /\ store[n] # None
      BY <2>1, <1>1, ReadEffect, SettleEffect, SessionFields
    <3> QED BY <3>1, <3>2 DEF Copy, Keeps, Holds
  <2>2. CASE Grant(i, n)
    <3>1. store' = store
      BY <2>2 DEF Grant
    <3>2. \/ flight'[i][n] = None
          \/ /\ flight[i][n].session # None
             /\ flight'[i][n].session.login = flight[i][n].session.login
             /\ flight'[i][n].session.created = flight[i][n].session.created
      BY <2>2, GrantEffect, SettleEffect, SessionFields
    <3> QED BY <1>1, <3>1, <3>2 DEF Copy, Keeps, Holds, Open
  <2>3. CASE FlightDrop(i, n) \/ FlightClear(i, n)
    <3>1. \A k \in Ids : store'[k] \in {store[k], None}
      BY <2>3 DEF FlightDrop, FlightClear, TypeOK
    <3>2. flight'[i][n] = None
      BY <1>2, <2>3, SettleEffect DEF FlightDrop, FlightClear
    <3> QED BY <1>1, <3>1, <3>2, CopyFrame
  <2>4. CASE FlightStore(i, n) \/ FlightFails(i, n)
    <3>1. /\ flight'[i][n] = None
          /\ \A k \in Ids : k # n => store'[k] = store[k]
          /\ \/ store'[n] = store[n]
             \/ /\ flight[i][n].session \in Sessions
                /\ store'[n] = flight[i][n].session
      BY <1>1, <2>4, StoreEffect, FailEffect, StampKept DEF Open
    <3> QED BY <1>1, <3>1, SessionFields DEF Copy, Keeps, Holds, Open
  <2> QED BY <2>1, <2>2, <2>3, <2>4 DEF Fly
<1> QED BY <1>1, <1>3, <1>7, <1>8 DEF NothingSeen

LEMMA MoveSeen ==
  ASSUME IInv, NEW i \in Instances, NEW n \in Ids, NEW m \in Ids, FlightMove(i, n, m)
  PROVE  Secret' /\ OneLogin' /\ Born' /\ Deadlines'
<1> USE DEF IInv
<1> DEFINE s == flight[i][n].session
<1>1. /\ s \in Sessions /\ s.login \in SignIns /\ s.created \in Times /\ Open(i, n)
      /\ flight'[i][n].session = s /\ flight'[i][n].next = m /\ flight'[i][n] # None
      /\ store'[m] = s /\ s # None
      /\ \A k \in Ids : k # m => store'[k] = store[k]
      /\ UNCHANGED <<pc, req, cookie>>
  <2>1. Open(i, n) /\ flight[i][n] # None
    BY DEF FlightMove, At, Open
  <2>2. s \in Sessions
    BY MoveEffect
  <2>3. Stamped(s) = s
    BY <2>1, <2>2, StampKept
  <2>4. s.login \in SignIns /\ s.created \in Times /\ s # None
    BY <2>2, SessionFields
  <2> QED BY <2>1, <2>2, <2>3, <2>4, MoveEffect
<1>2. /\ \A j \in Instances, k \in Ids : j # i \/ k # n => flight'[j][k] = flight[j][k]
      /\ UNCHANGED <<born, loggedOut>>
  BY FlyEnds DEF Fly
<1>3. /\ store[m] = None /\ ~Known(m) /\ \A j \in Instances : flight[j][m] = None
      /\ \A j \in Instances, k \in Ids : ~Rotates(j, k, m)
  BY DEF FlightMove, Fresh, Known, Open, Rotates
<1>4. m # n
  BY <1>1, <1>3 DEF Open
<1>5. Secret'
  <2>1. \A j \in Instances, k, x \in Ids : Rotates(j, k, x)' =>
           Rotates(j, k, x) \/ (j = i /\ k = n /\ x = m)
    BY <1>1, <1>2 DEF Rotates, Open
  <2>2. \A x \in Ids : Known(x)' => Known(x)
    BY <1>1, <1>2 DEF Known, Open
  <2> QED BY <1>3, <2>1, <2>2 DEF Secret
<1>6. \A k \in Ids, l \in SignIns, c \in Times : Copy(k, l, c)' =>
         \/ k # m /\ Copy(k, l, c)
         \/ k = m /\ Copy(n, l, c) /\ l = s.login
  BY <1>1, <1>2, <1>3, <1>4 DEF Copy, Keeps, Holds, Open
<1>7. \A k \in Ids, l \in SignIns : Sees(k, l)' =>
         \/ k # m /\ Sees(k, l)
         \/ k = m /\ Sees(n, l) /\ l = s.login
  <2>1. \A r \in Requests : req[r].sid # m
    BY <1>3 DEF Known
  <2> QED BY <1>1, <1>6, <2>1 DEF Sees, Leaves
<1>8. OneLogin'
  BY <1>7 DEF OneLogin
<1>9. Born' /\ Deadlines'
  BY <1>2, <1>6, <1>7 DEF Born, Deadlines
<1> QED BY <1>5, <1>8, <1>9

LEMMA StoreNewEffect ==
  ASSUME IInv, NEW r \in Requests, NEW n \in Ids, NEW t \in {0, 1}, StoreNew(r, n, t)
  PROVE  /\ req[r].back \in SignIns /\ born[req[r].back] = None /\ now # None /\ now \in Times
         /\ store'[n] # None /\ store'[n].login = req[r].back /\ store'[n].token = t
         /\ store'[n].created = now
         /\ \A k \in Ids : k # n => store'[k] = store[k]
         /\ current'[req[r].back] = t /\ born'[req[r].back] = now
         /\ \A l \in SignIns : l # req[r].back => current'[l] = current[l] /\ born'[l] = born[l]
         /\ pc[r] = "store" /\ pc'[r] = "forget"
         /\ req'[r].sid = req[r].sid /\ req'[r].cookie = n
         /\ \A q \in Requests : q # r => Same(q)
         /\ UNCHANGED <<flight, cookie, loggedOut, disturbed>>
         /\ store[n] = None /\ ~Known(n) /\ \A j \in Instances : flight[j][n] = None
         /\ \A j \in Instances, k \in Ids : ~Rotates(j, k, n)
<1> USE DEF IInv
<1> DEFINE l == req[r].back
<1>1. l \in SignIns /\ born[l] = None /\ now # None /\ now \in Times /\ pc[r] = "store"
  BY NoneApart, OidcAssumption DEF StoreNew, RequestShape, Codes, TypeOK, Times
<1> DEFINE s == [login |-> l, token |-> t, created |-> now]
<1>2. Stamped([login |-> l, token |-> t, created |-> None]) = s
  BY DEF Stamped
<1>3. s \in Sessions
  BY <1>1, OidcAssumption DEF Sessions, TypeOK
<1>4. s # None /\ s.login = l /\ s.token = t /\ s.created = now
  BY <1>3, SessionFields
<1> HIDE DEF s
<1>5. /\ store' = [store EXCEPT ![n] = s] /\ current' = [current EXCEPT ![l] = t]
      /\ born' = [born EXCEPT ![l] = now] /\ req' = [req EXCEPT ![r].cookie = n]
      /\ Goto(r, "forget") /\ UNCHANGED <<flight, cookie, loggedOut, disturbed>>
  BY <1>2 DEF StoreNew, browser
<1>6. /\ store[n] = None /\ ~Known(n) /\ \A j \in Instances : flight[j][n] = None
      /\ \A j \in Instances, k \in Ids : ~Rotates(j, k, n)
  BY DEF StoreNew, Fresh, Known, Open, Rotates
<1>7. req'[r].sid = req[r].sid /\ req'[r].cookie = n /\ \A q \in Requests : q # r => Same(q)
  BY <1>5 DEF Goto, Same, TypeOK, Reqs
<1>8. /\ store'[n] = s /\ \A k \in Ids : k # n => store'[k] = store[k]
      /\ current'[l] = t /\ born'[l] = now /\ pc'[r] = "forget"
      /\ \A k \in SignIns : k # l => current'[k] = current[k] /\ born'[k] = born[k]
  BY <1>1, <1>5 DEF Goto, TypeOK
<1> QED BY <1>1, <1>4, <1>5, <1>6, <1>7, <1>8

LEMMA StoreNewSeen ==
  ASSUME IInv, NEW r \in Requests, NEW n \in Ids, NEW t \in {0, 1}, StoreNew(r, n, t)
  PROVE  Secret' /\ OneLogin' /\ Born' /\ Deadlines'
<1> USE DEF IInv
<1> DEFINE l == req[r].back
<1>1. \A k \in Ids, x \in SignIns, c \in Times : Copy(k, x, c)' =>
         \/ k # n /\ Copy(k, x, c)
         \/ k = n /\ x = l /\ c = now
  BY StoreNewEffect DEF Copy, Keeps, Holds
<1>2. \A q \in Requests, x \in SignIns : Leaves(q, x)' => Same(q) /\ req[q].sid # n
  BY StoreNewEffect DEF Leaves, Known, Same
<1>3. \A k \in Ids, x \in SignIns : Sees(k, x)' =>
         \/ k # n /\ Sees(k, x)
         \/ k = n /\ x = l
  BY <1>1, <1>2 DEF Sees, Leaves, Same
<1>4. OneLogin'
  BY <1>3 DEF OneLogin
<1>5. Born'
  BY <1>3, StoreNewEffect DEF Born
<1>6. Deadlines'
  <2>1. \A k \in Ids, c \in Times : ~Copy(k, l, c)
    BY StoreNewEffect DEF Born, Sees
  <2> QED BY <1>1, <2>1, StoreNewEffect DEF Deadlines
<1>7. Secret'
  <2>1. \A j \in Instances, k, m \in Ids : Rotates(j, k, m)' => Rotates(j, k, m) /\ m # n
    BY StoreNewEffect DEF Rotates, Open
  <2>2. \A m \in Ids : Known(m)' => Known(m) \/ m = n
    BY StoreNewEffect DEF Known, Same, Open
  <2> QED BY <2>1, <2>2, SecretFramed
<1> QED BY <1>4, <1>5, <1>6, <1>7

LEMMA SessionsKept == IInv /\ [Next]_vars => Secret' /\ OneLogin' /\ Born' /\ Deadlines'
<1> SUFFICES ASSUME IInv, [Next]_vars PROVE Secret' /\ OneLogin' /\ Born' /\ Deadlines'
  OBVIOUS
<1> USE DEF IInv
<1>1. ASSUME UNCHANGED born, \A n \in Ids : store'[n] \in {store[n], None},
             \A i \in Instances, n \in Ids :
                flight'[i][n] # None => \/ flight'[i][n] = flight[i][n]
                                        \/ /\ flight'[i][n].session = None
                                           /\ flight'[i][n].next = None,
             \A l \in SignIns : loggedOut'[l] = loggedOut[l] \/ \E n \in Ids : Sees(n, l),
             \A r \in Requests, l \in SignIns : Leaves(r, l)' =>
                Same(r) \/ (req'[r].sid \in Ids /\ Keeps(req'[r].sid, l)),
             \A m \in Ids : Known(m)' => Known(m)
      PROVE  Secret' /\ OneLogin' /\ Born' /\ Deadlines'
  <2>1. NothingSeen
    BY <1>1, CopyFrame, KeepsCopy DEF NothingSeen
  <2>2. \A i \in Instances, n, m \in Ids : Rotates(i, n, m)' => Rotates(i, n, m)
    BY <1>1, NoneApart DEF Rotates, Open
  <2> QED BY <1>1, <2>1, <2>2, SeenFramed, SecretFramed
<1>2. CASE Quiet
  <2>1. \A m \in Ids : Known(m)' => Known(m)
    BY <1>2, RequestFrame, QuietEffect DEF Known, Open
  <2> QED BY <1>1, <1>2, <2>1, RequestFrame, QuietEffect
<1>3. ASSUME NEW r \in Requests, Drop(r) \/ Leave(r) PROVE Secret' /\ OneLogin' /\ Born' /\ Deadlines'
  <2>1. UNCHANGED <<born, flight>> /\ \A n \in Ids : store'[n] \in {store[n], None}
    BY <1>3 DEF Drop, Leave, Proceed, Answer, history, TypeOK
  <2>2. \A l \in SignIns : loggedOut'[l] = loggedOut[l] \/ \E n \in Ids : Sees(n, l)
    <3>1. CASE Drop(r)
      BY <3>1 DEF Drop, history
    <3>2. CASE Leave(r)
      <4>1. pc[r] = "leave" /\ loggedOut' = Leaving(req[r].sid, req[r].login)
        BY <3>2 DEF Leave
      <4>2. ASSUME NEW l \in SignIns, loggedOut'[l] # loggedOut[l] PROVE \E n \in Ids : Sees(n, l)
        <5>1. req[r].login = l
          BY <4>1, <4>2 DEF Leaving, TypeOK
        <5>2. req[r].sid \in Ids
          BY <4>1, <5>1, NoneApart DEF RequestShape
        <5> QED BY <4>1, <5>1, <5>2 DEF Sees, Leaves
      <4> QED BY <4>2
    <3> QED BY <1>3, <3>1, <3>2
  <2>3. \A m \in Ids : Known(m)' => Known(m)
    BY <1>3, <2>1, RequestFrame DEF Known, Open
  <2> QED BY <1>1, <1>3, <2>1, <2>2, <2>3, RequestFrame
<1>4. ASSUME NEW r \in Requests, Join(r) PROVE Secret' /\ OneLogin' /\ Born' /\ Deadlines'
  <2>1. \A m \in Ids : Known(m)' => Known(m)
    BY <1>4, JoinEffect, RequestFrame DEF Known, Open
  <2> QED BY <1>1, <1>4, <2>1, JoinEffect, RequestFrame
<1>5. ASSUME NEW i \in Instances, Crash(i) PROVE Secret' /\ OneLogin' /\ Born' /\ Deadlines'
  <2>1. Silent
    BY <1>5, EndingSteps
  <2>2. \A m \in Ids : Known(m)' => Known(m)
    BY <1>5, <2>1, CrashEffect, NoneApart DEF Known, Open, Silent, Same, Ends
  <2>3. \A r \in Requests, l \in SignIns : Leaves(r, l)' => Same(r)
    BY <2>1 DEF Silent, Ends, Leaves
  <2> QED BY <1>1, <1>5, <2>2, <2>3, CrashEffect
<1>6. ASSUME NEW n \in Ids, Evict(n) PROVE Secret' /\ OneLogin' /\ Born' /\ Deadlines'
  <2>1. /\ UNCHANGED <<born, loggedOut, flight, pc, req, cookie>>
        /\ \A k \in Ids : store'[k] \in {store[k], None}
    BY <1>6 DEF Evict, history, handlers, browser, TypeOK
  <2> QED BY <1>1, <2>1 DEF Known, Open, Same
<1>7. ASSUME NEW i \in Instances, NEW n \in Ids, Fly(i, n)
      PROVE  Secret' /\ OneLogin' /\ Born' /\ Deadlines'
  BY <1>7, FlySeen, SeenFramed, MoveSeen
<1> QED
  BY <1>2, <1>3, <1>4, <1>5, <1>6, <1>7, StepCases, StoreNewSeen
----------------------------------------------------------------------------
(* What holds as long as nothing has been disturbed *)

LEMMA DisturbedKept == IInv /\ [Next]_vars /\ disturbed => disturbed'
<1> SUFFICES ASSUME IInv, [Next]_vars, disturbed PROVE disturbed'
  OBVIOUS
<1>1. CASE \/ \E r \in Requests :
                \/ \E k \in Kinds, i \in Instances, b \in SignIns \cup {None} : Send(r, k, i, b)
                \/ Deliver(r) \/ Lose(r) \/ GetState(r)
                \/ Auth(r) \/ Read(r) \/ Drop(r) \/ Join(r) \/ Leave(r) \/ RequestFails(r)
           \/ \E i \in Instances, n \in Ids : Fly(i, n)
           \/ \E n \in Ids : Evict(n)
           \/ \E l \in SignIns : ExpireState(l)
           \/ Tick
           \/ UNCHANGED vars
  BY <1>1, NotCallback
<1>2. CASE \/ \E r \in Requests :
                \/ \E l \in SignIns : Login(r, l)
                \/ Exchange(r) \/ Forget(r) \/ CallbackFails(r)
                \/ \E n \in Ids, t \in {0, 1} : StoreNew(r, n, t)
           \/ \E i \in Instances : Crash(i)
  BY <1>2 DEF Login, Exchange, Forget, CallbackFails, StoreNew, Crash, history
<1> QED
  BY <1>1, <1>2 DEF Next, Handle

\* Steps that remove sessions, if anything, and move no flight that holds one.
LEMMA HoldersFramed ==
  ASSUME Undisturbed, UNCHANGED current,
         \A n \in Ids : store'[n] \in {store[n], None},
         \A i \in Instances, n \in Ids, l \in SignIns : Holds(i, n, l)' <=> Holds(i, n, l),
         \A i \in Instances, n \in Ids, l \in SignIns :
            Holds(i, n, l) => flight'[i][n] = flight[i][n]
  PROVE  OneHolder' /\ Tokens' /\ (UNCHANGED loggedOut => Final')
<1>1. \A n \in Ids, l \in SignIns : Keeps(n, l)' => Keeps(n, l) /\ store'[n] = store[n]
  BY DEF Keeps
<1>2. \A n \in Ids, l \in SignIns : Granted(n, l)' <=> Granted(n, l)
  BY DEF Granted
<1>3. OneHolder'
  BY <1>1 DEF Undisturbed, OneHolder
<1>4. Tokens'
  BY <1>1, <1>2 DEF Undisturbed, Tokens
<1>5. UNCHANGED loggedOut => Final'
  BY <1>1 DEF Undisturbed, Final
<1> QED BY <1>3, <1>4, <1>5

LEMMA OneFlightFramed ==
  ASSUME Undisturbed, \A i \in Instances, n \in Ids : Open(i, n)' => Open(i, n)
  PROVE  OneFlight'
  BY DEF Undisturbed, OneFlight

\* The flights whose sessions stand in the way of another one's.
LEMMA HolderAlone ==
  ASSUME IInv, Undisturbed, NEW i \in Instances, NEW n \in Ids, NEW l \in SignIns,
         Holds(i, n, l)
  PROVE  /\ loggedOut[l] # "alone"
         /\ flight[i][n].session.token = current[l]
         /\ \A m \in Ids : Keeps(m, l) => m = n \/ m = flight[i][n].next
         /\ \A j \in Instances, m \in Ids : Holds(j, m, l) => j = i /\ m = n
         /\ \A k \in SignIns : Keeps(n, k) => k = l
  <1>1. \E c \in Times : Copy(n, l, c)
    BY HoldsCopy DEF IInv
  <1>2. \A k \in SignIns : Keeps(n, k) => k = l
    BY <1>1, KeepsCopy DEF IInv, OneLogin, Sees
  <1> QED BY <1>2 DEF Undisturbed, OneHolder, Tokens, Final

LEMMA JoinUndisturbed ==
  ASSUME IInv, Undisturbed, ~disturbed', NEW r \in Requests, Join(r)
  PROVE  Undisturbed'
<1> USE DEF IInv
<1>1. \A i \in Instances, n \in Ids, l \in SignIns :
         /\ Holds(i, n, l)' <=> Holds(i, n, l)
         /\ Holds(i, n, l) => flight'[i][n] = flight[i][n]
  BY JoinEffect DEF Holds, Open
<1>2. OneFlight'
  <2>1. \A j \in Instances, k \in Ids :
           Open(j, k)' => Open(j, k) \/ (j = req[r].at /\ \A i \in Instances : ~Open(i, k))
    BY JoinEffect DEF Open
  <2> QED BY <2>1 DEF Undisturbed, OneFlight
<1> QED BY <1>1, <1>2, HoldersFramed, JoinEffect DEF Undisturbed

LEMMA LeaveUndisturbed ==
  ASSUME IInv, Undisturbed, NEW r \in Requests, Leave(r)
  PROVE  Undisturbed'
<1> USE DEF IInv
<1> DEFINE n == req[r].sid
<1> DEFINE l == req[r].login
<1>1. /\ UNCHANGED <<flight, current>> /\ pc[r] = "leave" /\ loggedOut' = Leaving(n, l)
      /\ n # None => store' = [store EXCEPT ![n] = None]
      /\ n = None => store' = store
  BY DEF Leave, idp
<1>2. \A k \in Ids : store'[k] \in {store[k], None}
  BY <1>1 DEF TypeOK
<1>3. OneFlight' /\ OneHolder' /\ Tokens' /\ (UNCHANGED loggedOut => Final')
  BY <1>1, <1>2, HoldersFramed, OneFlightFramed DEF Open, Holds
<1>4. Final'
  <2> SUFFICES ASSUME NEW k \in SignIns, loggedOut'[k] = "alone"
               PROVE  \A m \in Ids : /\ ~Keeps(m, k)'
                                     /\ \A i \in Instances : ~Holds(i, m, k)'
    BY DEF Final
  <2>1. CASE loggedOut[k] = "alone"
    BY <1>1, <1>2, <2>1 DEF Undisturbed, Final, Keeps, Holds
  <2>2. CASE loggedOut[k] # "alone"
    <3>1. /\ k = l /\ store[n] # None
          /\ \A i \in Instances, m \in Ids : ~Holds(i, m, l)
      BY <1>1, <2>2 DEF Leaving, TypeOK
    <3>2. n \in Ids /\ store'[n] = None /\ l # None
      BY <1>1, <3>1, NoneApart DEF RequestShape, TypeOK
    <3>3. Keeps(n, l)
      <4>1. store[n].login \in SignIns
        BY <3>1, <3>2, SessionFields DEF TypeOK
      <4>2. Keeps(n, store[n].login)
        BY <3>1 DEF Keeps
      <4>3. Sees(n, store[n].login) /\ Sees(n, l)
        BY <1>1, <3>1, <3>2, <4>1, <4>2, KeepsCopy DEF Sees, Leaves
      <4> QED BY <3>1, <3>2, <4>1, <4>2, <4>3 DEF OneLogin
    <3>4. \A m \in Ids : Keeps(m, l) => m = n
      BY <3>1, <3>2, <3>3 DEF Undisturbed, OneHolder
    <3> QED BY <1>1, <1>2, <3>1, <3>2, <3>4 DEF Keeps, Holds
  <2> QED BY <2>1, <2>2
<1> QED BY <1>3, <1>4 DEF Undisturbed

LEMMA StoreNewUndisturbed ==
  ASSUME IInv, Undisturbed, NEW r \in Requests, NEW n \in Ids, NEW t \in {0, 1}, StoreNew(r, n, t)
  PROVE  Undisturbed'
<1> USE DEF IInv
<1> DEFINE l == req[r].back
<1>0. /\ store'[n] # None /\ store'[n].login = l /\ store'[n].token = t
      /\ \A k \in Ids : k # n => store'[k] = store[k]
      /\ current'[l] = t /\ \A x \in SignIns : x # l => current'[x] = current[x]
      /\ flight' = flight
  BY StoreNewEffect
<1>1. l \in SignIns /\ loggedOut[l] # "alone" /\ \A k \in Ids : ~Sees(k, l)
  BY StoreNewEffect DEF Born
<1>2. \A k \in Ids : ~Keeps(k, l) /\ \A i \in Instances : ~Holds(i, k, l)
  BY <1>1, HoldsCopy, KeepsCopy DEF Sees
<1>3. \A k \in Ids, x \in SignIns :
         /\ \A i \in Instances : Holds(i, k, x)' <=> Holds(i, k, x)
         /\ Granted(k, x)' <=> Granted(k, x)
  BY StoreNewEffect DEF Holds, Granted
<1>4. \A k \in Ids, x \in SignIns : Keeps(k, x)' =>
         \/ k = n /\ x = l
         \/ x # l /\ Keeps(k, x) /\ store'[k] = store[k]
  BY <1>0, <1>2 DEF Keeps
<1>5. OneFlight'
  BY StoreNewEffect, OneFlightFramed DEF Open
<1>6. OneHolder'
  BY <1>2, <1>3, <1>4, StoreNewEffect DEF Undisturbed, OneHolder
<1>7. Tokens'
  <2>1. \A i \in Instances, k \in Ids, x \in SignIns :
           Holds(i, k, x)' => flight'[i][k].session.token = current'[x]
    BY <1>0, <1>2, <1>3 DEF Undisturbed, Tokens
  <2>2. \A k \in Ids, x \in SignIns :
           Keeps(k, x)' /\ ~Granted(k, x)' => store'[k].token = current'[x]
    BY <1>0, <1>3, <1>4 DEF Undisturbed, Tokens
  <2> QED BY <2>1, <2>2 DEF Tokens
<1>8. Final'
  BY <1>1, <1>3, <1>4, StoreNewEffect DEF Undisturbed, Final
<1> QED BY <1>5, <1>6, <1>7, <1>8 DEF Undisturbed

\* A flight that ends, or goes on, without holding a session before or after.
LEMMA EmptyHanded ==
  ASSUME IInv, Undisturbed, NEW i \in Instances, NEW n \in Ids, Fly(i, n),
         flight[i][n].session = None, UNCHANGED current,
         flight'[i][n] = None \/ flight'[i][n].session = None,
         \A k \in Ids : store'[k] \in {store[k], None}
  PROVE  Undisturbed'
<1>1. \A j \in Instances, k \in Ids : j # i \/ k # n => flight'[j][k] = flight[j][k]
  BY FlyEnds DEF IInv
<1>2. Open(i, n) /\ UNCHANGED loggedOut
  BY FlyEnds DEF IInv
<1>3. \A j \in Instances, k \in Ids, l \in SignIns :
         /\ Holds(j, k, l)' <=> Holds(j, k, l)
         /\ Holds(j, k, l) => flight'[j][k] = flight[j][k]
  BY <1>1 DEF Holds
<1>4. \A j \in Instances, k \in Ids : Open(j, k)' => Open(j, k)
  BY <1>1, <1>2 DEF Open
<1> QED BY <1>2, <1>3, <1>4, HoldersFramed, OneFlightFramed DEF Undisturbed

\* A flight that ends takes its session along.
LEMMA Landing ==
  ASSUME IInv, Undisturbed, NEW i \in Instances, NEW n \in Ids, Fly(i, n),
         flight'[i][n] = None, NEW l \in SignIns, Holds(i, n, l),
         UNCHANGED current,
         \A k \in Ids : k # n => store'[k] = store[k],
         \A k \in Ids : Keeps(k, l)' =>
            /\ store'[k].token = current[l]
            /\ \A m \in Ids : Keeps(m, l)' => m = k,
         \A k \in SignIns : Keeps(n, k)' => k = l
  PROVE  Undisturbed'
<1>1. \A j \in Instances, k \in Ids : j # i \/ k # n => flight'[j][k] = flight[j][k]
  BY FlyEnds DEF IInv
<1>2. Open(i, n) /\ UNCHANGED loggedOut
  BY FlyEnds DEF IInv
<1>3. \A j \in Instances, k \in Ids, x \in SignIns : Holds(j, k, x)' =>
         Holds(j, k, x) /\ flight'[j][k] = flight[j][k] /\ x # l
  <2>1. \A j \in Instances, k \in Ids : Holds(j, k, l) => j = i /\ k = n
    BY HolderAlone
  <2> QED BY <1>1, <2>1 DEF Holds
<1>4. \A j \in Instances, k \in Ids, x \in SignIns : x # l /\ Holds(j, k, x) =>
         Holds(j, k, x)' /\ flight'[j][k] = flight[j][k]
  BY <1>1 DEF Holds
<1>5. \A k \in Ids, x \in SignIns : x # l => (Granted(k, x) => Granted(k, x)')
  BY <1>4 DEF Granted
<1>6. \A k \in Ids, x \in SignIns : x # l /\ Keeps(k, x)' => Keeps(k, x) /\ store'[k] = store[k]
  BY DEF Keeps
<1>7. OneFlight'
  BY <1>1, <1>2, OneFlightFramed DEF Open
<1>8. OneHolder'
  <2>1. ASSUME NEW x \in SignIns, x # l
        PROVE  /\ \A j \in Instances, k \in Ids : Holds(j, k, x)' =>
                     /\ \A m \in Ids : Keeps(m, x)' => m = k \/ m = flight'[j][k].next
                     /\ \A h \in Instances, m \in Ids : Holds(h, m, x)' => h = j /\ m = k
               /\ \A m, k \in Ids : Keeps(m, x)' /\ Keeps(k, x)' /\ m # k =>
                     \E j \in Instances, h \in Ids : Holds(j, h, x)'
    BY <1>3, <1>4, <1>6, <2>1 DEF Undisturbed, OneHolder
  <2> QED BY <1>3, <2>1 DEF OneHolder
<1>9. Tokens'
  <2>1. \A j \in Instances, k \in Ids, x \in SignIns :
           Holds(j, k, x)' => flight'[j][k].session.token = current'[x]
    BY <1>3 DEF Undisturbed, Tokens
  <2>2. \A k \in Ids, x \in SignIns :
           Keeps(k, x)' /\ ~Granted(k, x)' => store'[k].token = current'[x]
    BY <1>5, <1>6 DEF Undisturbed, Tokens
  <2> QED BY <2>1, <2>2 DEF Tokens
<1>10. Final'
  <2>1. loggedOut'[l] # "alone"
    BY <1>2, HolderAlone
  <2> QED BY <1>2, <1>3, <1>6, <2>1 DEF Undisturbed, Final
<1> QED BY <1>7, <1>8, <1>9, <1>10 DEF Undisturbed

\* A flight that has a session has a sign-in's.
LEMMA SomeonesSession ==
  ASSUME TypeOK, NEW i \in Instances, NEW n \in Ids, Open(i, n), flight[i][n].session # None
  PROVE  \E l \in SignIns : Holds(i, n, l) /\ flight[i][n].session.login = l
  BY FlightFields, SessionFields DEF Holds, Open

LEMMA ClearUndisturbed ==
  ASSUME IInv, Undisturbed, NEW i \in Instances, NEW n \in Ids, FlightClear(i, n)
  PROVE  Undisturbed'
<1> USE DEF IInv
<1>1. /\ Open(i, n) /\ flight[i][n].pc = "clear" /\ flight[i][n].session # None
      /\ flight[i][n].next \in Ids
  BY FlightFields DEF FlightClear, At, Open, FlightShape
<1>2. PICK l \in SignIns : Holds(i, n, l)
  BY <1>1, SomeonesSession
<1> DEFINE m == flight[i][n].next
<1>3. flight'[i][n] = None /\ UNCHANGED current
  BY <1>1, SettleEffect DEF FlightClear, idp
<1>4. store'[n] = None /\ \A k \in Ids : k # n => store'[k] = store[k]
  BY DEF FlightClear, TypeOK
<1>5. \A k \in Ids : Keeps(k, l)' => k = m /\ Keeps(m, l)
  BY <1>2, <1>4, HolderAlone DEF Keeps
<1>6. m # n /\ ~Granted(m, l)
  <2>1. Rotates(i, n, m) /\ ~Known(m)
    BY <1>1 DEF Rotates, Secret
  <2>2. \A j \in Instances : flight[j][m] = None
    BY <1>1, <2>1 DEF Known, Open
  <2> QED BY <1>1, <2>2 DEF Granted, Holds, Open
<1>7. \A k \in Ids : Keeps(k, l)' => store'[k].token = current[l]
  BY <1>1, <1>4, <1>5, <1>6 DEF Undisturbed, Tokens
<1> QED BY <1>2, <1>3, <1>4, <1>5, <1>7, Landing DEF Fly, Keeps

LEMMA StoreUndisturbed ==
  ASSUME IInv, Undisturbed, NEW i \in Instances, NEW n \in Ids, FlightStore(i, n)
  PROVE  Undisturbed'
<1> USE DEF IInv
<1> DEFINE s == flight[i][n].session
<1>1. /\ Open(i, n) /\ s \in Sessions /\ flight[i][n].next = None
      /\ flight'[i][n] = None /\ UNCHANGED current
      /\ \A k \in Ids : k # n => store'[k] = store[k]
  BY StoreEffect DEF FlightStore, At, Open
<1>2. store'[n] = s
  BY <1>1, StoreEffect, StampKept DEF Open
<1>3. s # None /\ s.login \in SignIns
  BY <1>1, SessionFields
<1>4. PICK l \in SignIns : Holds(i, n, l) /\ s.login = l
  BY <1>1, <1>3 DEF Holds, Open
<1>5. s.token = current[l] /\ \A k \in Ids : Keeps(k, l) => k = n
  BY <1>1, <1>4, HolderAlone, NoneApart
<1> QED BY <1>1, <1>2, <1>4, <1>5, Landing DEF Fly, Keeps

LEMMA FailsUndisturbed ==
  ASSUME IInv, Undisturbed, NEW i \in Instances, NEW n \in Ids, FlightFails(i, n), ~disturbed'
  PROVE  Undisturbed'
  BY FailEffect, EmptyHanded DEF IInv, Fly

LEMMA DropUndisturbed ==
  ASSUME IInv, Undisturbed, NEW i \in Instances, NEW n \in Ids, FlightDrop(i, n)
  PROVE  Undisturbed'
<1>1. flight[i][n].session = None
  BY DEF IInv, FlightShape, FlightDrop, At, Open
<1>2. /\ flight'[i][n] = None /\ UNCHANGED current
      /\ \A k \in Ids : store'[k] \in {store[k], None}
  BY SettleEffect DEF IInv, FlightDrop, TypeOK, idp
<1> QED BY <1>1, <1>2, EmptyHanded DEF Fly

LEMMA GrantUndisturbed ==
  ASSUME IInv, Undisturbed, NEW i \in Instances, NEW n \in Ids, Grant(i, n)
  PROVE  Undisturbed'
<1> USE DEF IInv
<1> DEFINE s == flight[i][n].session
<1>1. /\ s \in Sessions /\ s # None /\ s.login \in SignIns /\ Open(i, n)
      /\ flight[i][n].next = None /\ UNCHANGED <<store, loggedOut>>
      /\ \A j \in Instances, k \in Ids : j # i \/ k # n => flight'[j][k] = flight[j][k]
  BY GrantEffect, SessionFields, FlyEnds DEF Fly, Grant
<1>2. PICK l \in SignIns : Holds(i, n, l) /\ s.login = l
  BY <1>1, SomeonesSession
<1>3. s.token = current[l] /\ loggedOut[l] # "alone"
      /\ (\A m \in Ids : Keeps(m, l) => m = n)
      /\ (\A j \in Instances, m \in Ids : Holds(j, m, l) => j = i /\ m = n)
  BY <1>1, <1>2, HolderAlone, NoneApart
<1>4. /\ flight'[i][n] # None /\ flight'[i][n].pc = "store" /\ flight'[i][n].next = None
      /\ flight'[i][n].session # None /\ flight'[i][n].session.login = l
      /\ current'[l] = flight'[i][n].session.token
      /\ \A x \in SignIns : x # l => current'[x] = current[x]
  BY <1>2, <1>3, GrantEffect, SessionFields
<1>5. \A j \in Instances, k \in Ids, x \in SignIns :
         /\ Holds(j, k, x)' <=> Holds(j, k, x)
         /\ Holds(j, k, x) => flight'[j][k].next = flight[j][k].next
         /\ x # l /\ Holds(j, k, x) => flight'[j][k] = flight[j][k]
  BY <1>1, <1>2, <1>4 DEF Holds
<1>6. OneFlight'
  BY <1>1, OneFlightFramed DEF Open
<1>7. OneHolder'
  BY <1>1, <1>5 DEF Undisturbed, OneHolder, Keeps
<1>8. Tokens'
  <2>1. \A j \in Instances, k \in Ids, x \in SignIns :
           Holds(j, k, x)' => flight'[j][k].session.token = current'[x]
    BY <1>3, <1>4, <1>5 DEF Undisturbed, Tokens
  <2>2. \A k \in Ids, x \in SignIns : x # l /\ Granted(k, x) => Granted(k, x)'
    BY <1>5 DEF Granted
  <2>3. Granted(n, l)'
    BY <1>2, <1>4, <1>5 DEF Granted
  <2>4. \A k \in Ids, x \in SignIns :
           Keeps(k, x)' /\ ~Granted(k, x)' => store'[k].token = current'[x]
    BY <1>1, <1>3, <1>4, <2>2, <2>3 DEF Undisturbed, Tokens, Keeps
  <2> QED BY <2>1, <2>4 DEF Tokens
<1>9. Final'
  BY <1>1, <1>5 DEF Undisturbed, Final, Keeps
<1> QED BY <1>6, <1>7, <1>8, <1>9 DEF Undisturbed

LEMMA ReadUndisturbed ==
  ASSUME IInv, Undisturbed, NEW i \in Instances, NEW n \in Ids, FlightRead(i, n)
  PROVE  Undisturbed'
<1> USE DEF IInv
<1>1. /\ Open(i, n) /\ flight[i][n].session = None /\ UNCHANGED <<store, current, loggedOut>>
      /\ \A j \in Instances, k \in Ids : j # i \/ k # n => flight'[j][k] = flight[j][k]
  BY FlyEnds DEF Fly, FlightRead, At, Open, FlightShape, idp
<1>2. CASE flight'[i][n] = None \/ flight'[i][n].session = None
  BY <1>1, <1>2, EmptyHanded DEF Fly
<1>3. CASE ~(flight'[i][n] = None \/ flight'[i][n].session = None)
  <2>1. /\ flight'[i][n].pc = "grant" /\ flight'[i][n].session = store[n]
        /\ flight'[i][n].next = None /\ store[n] \in Sessions
    BY <1>3, ReadEffect, SettleEffect
  <2>2. PICK l \in SignIns : store[n].login = l
    BY <2>1, SessionFields
  <2>3. Keeps(n, l) /\ store[n] # None
    BY <2>1, <2>2, SessionFields DEF Keeps
  <2>4. \A j \in Instances, m \in Ids : ~Holds(j, m, l)
    <3> SUFFICES ASSUME NEW j \in Instances, NEW m \in Ids, Holds(j, m, l) PROVE FALSE
      OBVIOUS
    <3>1. Open(j, m) /\ flight[j][m].session # None
      BY DEF Holds, Open
    <3>2. n = m \/ n = flight[j][m].next
      BY <2>3, HolderAlone
    <3>3. CASE n = m
      BY <1>1, <3>1, <3>3 DEF Undisturbed, OneFlight
    <3>4. CASE n = flight[j][m].next
      BY <1>1, <3>1, <3>4 DEF Rotates, Secret, Known
    <3> QED BY <3>2, <3>3, <3>4
  <2>5. \A m \in Ids : Keeps(m, l) => m = n
    BY <2>3, <2>4 DEF Undisturbed, OneHolder
  <2>6. store[n].token = current[l] /\ loggedOut[l] # "alone"
    BY <2>3, <2>4 DEF Undisturbed, Tokens, Final, Granted
  <2>7. \A j \in Instances, k \in Ids, x \in SignIns :
           /\ Holds(j, k, x)' <=> (Holds(j, k, x) \/ (j = i /\ k = n /\ x = l))
           /\ Holds(j, k, x) => flight'[j][k] = flight[j][k]
    BY <1>1, <1>3, <2>1, <2>2 DEF Holds
  <2>8. OneFlight'
    BY <1>1, OneFlightFramed DEF Open
  <2>9. OneHolder'
    <3>1. \A m \in Ids, x \in SignIns : Keeps(m, x)' <=> Keeps(m, x)
      BY <1>1 DEF Keeps
    <3>2. ASSUME NEW x \in SignIns, NEW j \in Instances, NEW k \in Ids, Holds(j, k, x)'
          PROVE  /\ \A m \in Ids : Keeps(m, x)' => m = k \/ m = flight'[j][k].next
                 /\ \A h \in Instances, m \in Ids : Holds(h, m, x)' => h = j /\ m = k
      BY <2>4, <2>5, <2>7, <3>1, <3>2 DEF Undisturbed, OneHolder
    <3>3. ASSUME NEW x \in SignIns, NEW m \in Ids, NEW k \in Ids,
                 Keeps(m, x)', Keeps(k, x)', m # k
          PROVE  \E j \in Instances, h \in Ids : Holds(j, h, x)'
      BY <2>7, <3>1, <3>3 DEF Undisturbed, OneHolder
    <3> QED BY <3>2, <3>3 DEF OneHolder
  <2>10. Tokens'
    <3>1. \A j \in Instances, k \in Ids, x \in SignIns :
             Holds(j, k, x)' => flight'[j][k].session.token = current'[x]
      BY <1>1, <2>1, <2>6, <2>7 DEF Undisturbed, Tokens
    <3>2. \A k \in Ids, x \in SignIns : Granted(k, x) => Granted(k, x)'
      BY <2>7 DEF Granted
    <3>3. \A k \in Ids, x \in SignIns :
             Keeps(k, x)' /\ ~Granted(k, x)' => store'[k].token = current'[x]
      BY <1>1, <3>2 DEF Undisturbed, Tokens, Keeps
    <3> QED BY <3>1, <3>3 DEF Tokens
  <2>11. Final'
    BY <1>1, <2>6, <2>7 DEF Undisturbed, Final, Keeps
  <2> QED BY <2>8, <2>9, <2>10, <2>11 DEF Undisturbed
<1> QED BY <1>2, <1>3

LEMMA MoveUndisturbed ==
  ASSUME IInv, Undisturbed, NEW i \in Instances, NEW n \in Ids, NEW m \in Ids,
         FlightMove(i, n, m)
  PROVE  Undisturbed'
<1> USE DEF IInv
<1> DEFINE s == flight[i][n].session
<1>1. /\ Open(i, n) /\ s \in Sessions /\ s # None /\ s.login \in SignIns
      /\ flight[i][n].next = None
      /\ flight'[i][n] # None /\ flight'[i][n].pc = "clear"
      /\ flight'[i][n].next = m /\ flight'[i][n].session = s
      /\ \A k \in Ids : k # m => store'[k] = store[k]
      /\ UNCHANGED <<current, loggedOut>>
      /\ \A j \in Instances, k \in Ids : j # i \/ k # n => flight'[j][k] = flight[j][k]
  BY MoveEffect, SessionFields, FlyEnds DEF Fly
<1>2. store'[m] = s
  BY <1>1, MoveEffect, StampKept DEF Open
<1>3. store[m] = None
  BY DEF FlightMove, Fresh
<1>4. PICK l \in SignIns : Holds(i, n, l) /\ s.login = l
  BY <1>1, SomeonesSession
<1>5. s.token = current[l] /\ loggedOut[l] # "alone"
      /\ (\A k \in Ids : Keeps(k, l) => k = n)
      /\ (\A j \in Instances, k \in Ids : Holds(j, k, l) => j = i /\ k = n)
  BY <1>1, <1>4, HolderAlone, NoneApart
<1>6. \A j \in Instances, k \in Ids, x \in SignIns :
         /\ Holds(j, k, x)' <=> Holds(j, k, x)
         /\ x # l /\ Holds(j, k, x) => flight'[j][k] = flight[j][k]
  BY <1>1, <1>4 DEF Holds
<1>7. \A k \in Ids, x \in SignIns :
         /\ x # l => (Keeps(k, x)' => Keeps(k, x) /\ store'[k] = store[k])
         /\ Keeps(k, l)' => k \in {n, m}
         /\ k # m => store'[k] = store[k]
  BY <1>1, <1>2, <1>4, <1>5 DEF Keeps
<1>8. OneFlight'
  BY <1>1, OneFlightFramed DEF Open
<1>9. OneHolder'
  <2>1. ASSUME NEW x \in SignIns, NEW j \in Instances, NEW k \in Ids, Holds(j, k, x)'
        PROVE  /\ \A h \in Ids : Keeps(h, x)' => h = k \/ h = flight'[j][k].next
               /\ \A h \in Instances, p \in Ids : Holds(h, p, x)' => h = j /\ p = k
    BY <1>1, <1>5, <1>6, <1>7, <2>1 DEF Undisturbed, OneHolder
  <2>2. ASSUME NEW x \in SignIns, NEW p \in Ids, NEW k \in Ids, Keeps(p, x)', Keeps(k, x)', p # k
        PROVE  \E j \in Instances, h \in Ids : Holds(j, h, x)'
    BY <1>4, <1>6, <1>7, <2>2 DEF Undisturbed, OneHolder
  <2> QED BY <2>1, <2>2 DEF OneHolder
<1>10. Tokens'
  <2>1. \A j \in Instances, k \in Ids, x \in SignIns :
           Holds(j, k, x)' => flight'[j][k].session.token = current'[x]
    BY <1>1, <1>5, <1>6 DEF Undisturbed, Tokens
  <2>2. \A k \in Ids, x \in SignIns : x # l /\ Granted(k, x) => Granted(k, x)'
    BY <1>6 DEF Granted
  <2>3. Granted(n, l)'
    BY <1>1, <1>4, <1>6 DEF Granted
  <2>4. \A k \in Ids, x \in SignIns :
           Keeps(k, x)' /\ ~Granted(k, x)' => store'[k].token = current'[x]
    BY <1>1, <1>2, <1>5, <1>7, <2>2, <2>3 DEF Undisturbed, Tokens
  <2> QED BY <2>1, <2>4 DEF Tokens
<1>11. Final'
  BY <1>1, <1>5, <1>6, <1>7 DEF Undisturbed, Final
<1> QED BY <1>8, <1>9, <1>10, <1>11 DEF Undisturbed

LEMMA UndisturbedKept == IInv /\ [Next]_vars => (~disturbed' => Undisturbed')
<1> SUFFICES ASSUME IInv, [Next]_vars, ~disturbed' PROVE Undisturbed'
  OBVIOUS
<1>0. Undisturbed
  BY DisturbedKept DEF IInv
<1>1. CASE Quiet
  <2>1. UNCHANGED <<store, flight, current, loggedOut>>
    BY <1>1, QuietEffect
  <2> QED BY <1>0, <2>1, HoldersFramed, OneFlightFramed DEF Undisturbed, Open, Holds
<1>2. ASSUME \A n \in Ids : store'[n] \in {store[n], None},
             UNCHANGED <<flight, current, loggedOut>>
      PROVE  Undisturbed'
  BY <1>0, <1>2, HoldersFramed, OneFlightFramed DEF Undisturbed, Open, Holds
<1>3. ASSUME NEW r \in Requests, Drop(r) PROVE Undisturbed'
  <2>1. /\ \A n \in Ids : store'[n] \in {store[n], None}
        /\ UNCHANGED <<flight, current, loggedOut>>
    BY <1>3 DEF IInv, Drop, Proceed, Answer, history, idp, TypeOK
  <2> QED BY <1>2, <2>1
<1>4. ASSUME NEW n \in Ids, Evict(n) PROVE Undisturbed'
  <2>1. /\ \A k \in Ids : store'[k] \in {store[k], None}
        /\ UNCHANGED <<flight, current, loggedOut>>
    BY <1>4 DEF IInv, Evict, history, idp, handlers, TypeOK
  <2> QED BY <1>2, <2>1
<1>5. \A i \in Instances : ~Crash(i)
  BY CrashEffect DEF IInv
<1>6. ASSUME NEW i \in Instances, NEW n \in Ids, Fly(i, n) PROVE Undisturbed'
  BY <1>0, <1>6, ReadUndisturbed, DropUndisturbed, GrantUndisturbed, StoreUndisturbed,
     MoveUndisturbed, ClearUndisturbed, FailsUndisturbed DEF Fly
<1> QED
  BY <1>0, <1>1, <1>3, <1>4, <1>5, <1>6, StepCases, JoinUndisturbed, LeaveUndisturbed,
     StoreNewUndisturbed
----------------------------------------------------------------------------
(* The invariant and the properties *)

LEMMA InitHolds == Init => IInv
<1> SUFFICES ASSUME Init PROVE IInv
  OBVIOUS
<1>1. TypeOK
  <2>1. pc \in [Requests -> Steps] /\ req \in [Requests -> Reqs]
    BY IdleType DEF Init, Steps
  <2>2. /\ now \in 0..MaxNow
        /\ current \in [SignIns -> 0..MaxToken]
    BY OidcAssumption DEF Init
  <2>3. /\ store \in [Ids -> Sessions \cup {None}]
        /\ flight \in [Instances -> [Ids -> {None} \cup Flights]]
    BY DEF Init
  <2>4. /\ pkce \in [SignIns -> {"unused", "stored", "gone"}]
        /\ code \in [SignIns -> {"none", "issued", "spent"}]
        /\ cookie \in Ids \cup {None} /\ stateCookie \in SignIns \cup {None}
        /\ born \in [SignIns -> (0..MaxNow) \cup {None}]
        /\ loggedOut \in [SignIns -> {"no", "alone", "raced"}]
    BY DEF Init
  <2>5. rotating \in BOOLEAN /\ disturbed \in BOOLEAN
    BY DEF Init
  <2> QED BY <2>1, <2>2, <2>3, <2>4, <2>5 DEF TypeOK
<1>2. RequestShape /\ Codes /\ CodeTakesState
  BY DEF Init, RequestShape, Codes, CodeTakesState
<1>3. /\ \A i \in Instances, n \in Ids : ~Open(i, n)
      /\ \A n \in Ids : store[n] = None
  BY DEF Init, Open
<1>4. FlightShape /\ Secret /\ Undisturbed
  BY <1>3 DEF FlightShape, Secret, Rotates, Undisturbed, OneFlight, OneHolder, Tokens, Final,
              Holds, Keeps, Open
<1>5. \A n \in Ids, l \in SignIns : ~Sees(n, l)
  BY <1>3 DEF Sees, Copy, Keeps, Holds, Open, Leaves, Init
<1>6. OneLogin /\ Born /\ Deadlines
  BY <1>5 DEF OneLogin, Born, Deadlines, Sees, Init
<1> QED BY <1>1, <1>2, <1>4, <1>6 DEF IInv

LEMMA StepHolds == IInv /\ [Next]_vars => IInv'
<1> SUFFICES ASSUME IInv, [Next]_vars PROVE IInv'
  OBVIOUS
<1>1. TypeOK'
  BY TypesKept DEF IInv
<1> QED BY <1>1, RequestsKept, FlightShapeKept, CodesKept, SessionsKept, UndisturbedKept DEF IInv

\* The invariant is one: of oidc-auth-controller.ts, oidc-refresh.ts and the provider's
\* session store, for any number of requests, instances, ids and sign-ins.
THEOREM InvariantHolds == Spec => []IInv
  BY InitHolds, StepHolds, PTL DEF Spec

\* The variables keep their types.
THEOREM TypesHold == Spec => []TypeOK
<1>1. IInv => TypeOK
  BY DEF IInv
<1> QED BY <1>1, InvariantHolds, PTL

\* Rotation (oidc-refresh.ts:148-163) leaves one id that opens a session: two are stored
\* only while the flight that made the second one is about to clear the first.
THEOREM OneIdPerSessionHolds == Spec => []OneIdPerSession
<1>1. IInv => OneIdPerSession
  <2> SUFFICES ASSUME IInv, ~disturbed, NEW l \in SignIns,
                      NEW m \in Stored(l), NEW n \in Stored(l), m # n
               PROVE  \E i \in Instances : Moves(i, m, n) \/ Moves(i, n, m)
    BY DEF OneIdPerSession
  <2>1. m \in Ids /\ n \in Ids /\ Keeps(m, l) /\ Keeps(n, l)
    BY DEF Stored, Keeps
  <2>2. PICK i \in Instances, k \in Ids : Holds(i, k, l)
    BY <2>1 DEF IInv, Undisturbed, OneHolder
  <2>3. m \in {k, flight[i][k].next} /\ n \in {k, flight[i][k].next}
    BY <2>1, <2>2 DEF IInv, Undisturbed, OneHolder
  <2>4. flight[i][k] # None /\ (flight[i][k].next # None => flight[i][k].pc = "clear")
    BY <2>2 DEF IInv, FlightShape, Holds, Open
  <2>5. m # None /\ n # None
    BY <2>1, NoneApart
  <2> QED BY <2>3, <2>4, <2>5 DEF Moves, At
<1> QED BY <1>1, InvariantHolds, PTL

\* The flights of one session (RefreshSingleFlight, oidc-refresh.ts:67-85) present the
\* refresh token that the identity provider accepts, never one it has replaced.
THEOREM TokenIsCurrentHolds == Spec => []TokenIsCurrent
<1>1. IInv => TokenIsCurrent
  <2> SUFFICES ASSUME IInv, ~disturbed, NEW i \in Instances, NEW n \in Ids, At(i, n, "grant")
               PROVE  flight[i][n].session.token = current[flight[i][n].session.login]
    BY DEF TokenIsCurrent
  <2>1. Open(i, n) /\ flight[i][n].session # None
    BY DEF At, Open, IInv, FlightShape
  <2>2. PICK l \in SignIns : Holds(i, n, l) /\ flight[i][n].session.login = l
    BY <2>1, SomeonesSession DEF IInv
  <2> QED BY <2>2 DEF IInv, Undisturbed, Tokens
<1> QED BY <1>1, InvariantHolds, PTL

\* A logout (handleLogout, oidc-auth-controller.ts:643-685) that no flight was in the way
\* of is final.
THEOREM LogoutIsFinalHolds == Spec => []LogoutIsFinal
<1>1. IInv => LogoutIsFinal
  BY DEF IInv, Undisturbed, Final, LogoutIsFinal, Stored, Keeps
<1> QED BY <1>1, InvariantHolds, PTL

\* Storing a session again (storeSession, oidc-auth-provider.ts:1104-1118) never moves its
\* absolute deadline, whatever fails and however many instances refresh it.
THEOREM DeadlineIsKeptHolds == Spec => []DeadlineIsKept
<1>1. IInv => DeadlineIsKept
  <2> SUFFICES ASSUME IInv, NEW l \in SignIns, NEW n \in Stored(l)
               PROVE  store[n].created = born[l]
    BY DEF DeadlineIsKept
  <2>1. n \in Ids /\ Keeps(n, l) /\ store[n] # None
    BY DEF Stored, Keeps
  <2>2. store[n].created \in Times
    BY <2>1, SessionFields DEF IInv, TypeOK
  <2> QED BY <2>1, <2>2 DEF IInv, Deadlines, Copy
<1> QED BY <1>1, InvariantHolds, PTL

\* A redeemed code (handleCallback, oidc-auth-controller.ts:422-553) leaves no state behind
\* for another callback, but while its own callback is still at work.
THEOREM CodeTakesStateHolds == Spec => []CodeTakesState
<1>1. IInv => CodeTakesState
  BY DEF IInv
<1> QED BY <1>1, InvariantHolds, PTL
=============================================================================

--------------------------- MODULE Requests_proofs ---------------------------
(***************************************************************************)
(* What Authorization and RequestHandling promise of every input: of all   *)
(* claims and grant maps, all limiters and all that happens at one, all    *)
(* applications and all requests.                                          *)
(***************************************************************************)
EXTENDS RequestCases, AuthDecisions_proofs

-----------------------------------------------------------------------------
(* A rate limiter.                                                         *)

Limiters == [max : Nat \ {0}, window : Nat]
Opened == [count : Nat, resetTime : Nat]
LimiterStates(Clients) ==
    [hits : UNION {[D -> Opened] : D \in SUBSET Clients}, log : [Clients -> Seq(Nat)], now : Nat]

NewLimiter(Clients, now) == [hits |-> NoHits, log |-> [k \in Clients |-> <<>>], now |-> now]

\* A request, the interval, or time that passes.
LimiterStep(limiter, s, t) ==
    \/ \E k \in DOMAIN s.log : t = Requested(limiter, s, k)
    \/ t = Cleaned(s)
    \/ \E now \in Nat : now >= s.now /\ t = Later(s, now)

\* Before the open window of a client lie only requests up to its start, and all but the last max of
\* those are a whole window older; where none is open, all but the last max are by now.
Spread(own, max, window, now) ==
    /\ \A i \in DOMAIN own : own[i] <= now
    /\ \A i \in DOMAIN own : i + 2 * max \in DOMAIN own => own[i + 2 * max] - own[i] >= window
Closed(own, max, window, now) == \A i \in DOMAIN own : i + max <= Len(own) => own[i] <= now - window
Inside(own, m, max, window, start, now) ==
    /\ m \in 1..max /\ m <= Len(own) /\ start <= now /\ own[Len(own)] >= start
    /\ \A i \in DOMAIN own : i <= Len(own) - m => own[i] <= start
    /\ \A i \in DOMAIN own : i + max <= Len(own) - m => own[i] <= start - window

WindowsAreApart(limiter, s) ==
    \A k \in DOMAIN s.log :
        /\ Spread(s.log[k], limiter.max, limiter.window, s.now)
        /\ k \notin DOMAIN s.hits => Closed(s.log[k], limiter.max, limiter.window, s.now)
        /\ k \in DOMAIN s.hits =>
             /\ s.hits[k].count >= 1
             /\ Inside(s.log[k], IF s.hits[k].count < limiter.max THEN s.hits[k].count ELSE limiter.max,
                       limiter.max, limiter.window, s.hits[k].resetTime - limiter.window, s.now)

\* A request inside the window.
LEMMA StaysInside ==
  ASSUME NEW own \in Seq(Nat), NEW max \in Nat \ {0}, NEW window \in Nat, NEW start \in Int, NEW now \in Nat,
         NEW m \in Nat, m < max, Spread(own, max, window, now), Inside(own, m, max, window, start, now)
  PROVE  LET more == Append(own, now)
         IN Spread(more, max, window, now) /\ Inside(more, m + 1, max, window, start, now)
<1> DEFINE more == Append(own, now)
           L == Len(own)
<1>1. /\ more \in Seq(Nat) /\ Len(more) = L + 1 /\ more[L + 1] = now /\ L \in Nat
      /\ \A i \in 1..L : more[i] = own[i]
      /\ DOMAIN more = 1..(L + 1) /\ DOMAIN own = 1..L
      /\ \A i \in 1..L : own[i] \in Nat
  OBVIOUS
<1> HIDE DEF more, L
<1>2. Len(own) = L
  BY DEF L
<1>3. ASSUME NEW i \in 1..(L + 1), i + 2 * max \in 1..(L + 1)
      PROVE  more[i + 2 * max] - more[i] >= window
  <2>1. i \in 1..L /\ i + max <= L /\ more[i] = own[i] /\ own[i] \in Nat
    BY <1>1, <1>3
  <2>2. CASE i + 2 * max = L + 1
    <3>1. i + max <= L - m
      BY <1>1, <2>1, <2>2
    <3>2. own[i] <= start - window /\ start <= now
      BY <1>1, <1>2, <2>1, <3>1 DEF Inside
    <3>3. more[i + 2 * max] = now
      BY <1>1, <2>2
    <3> QED
      BY <2>1, <3>2, <3>3
  <2>3. CASE i + 2 * max # L + 1
    <3>1. i + 2 * max \in 1..L
      BY <1>1, <1>3, <2>3
    <3>2. more[i + 2 * max] = own[i + 2 * max]
      BY <1>1, <3>1
    <3> QED
      BY <1>1, <2>1, <3>1, <3>2 DEF Spread
  <2> QED
    BY <2>2, <2>3
<1>4. Spread(more, max, window, now)
  <2>1. ASSUME NEW i \in 1..(L + 1) PROVE more[i] <= now
    BY <1>1 DEF Spread
  <2> QED
    BY <1>1, <1>3, <2>1 DEF Spread
<1>5. Inside(more, m + 1, max, window, start, now)
  <2>1. m + 1 \in 1..max /\ m + 1 <= L + 1 /\ start <= now /\ now >= start
    BY <1>1, <1>2 DEF Inside
  <2>2. ASSUME NEW i \in 1..(L + 1), i <= (L + 1) - (m + 1) PROVE i \in 1..L /\ i <= L - m /\ more[i] = own[i]
    BY <1>1, <1>2, <2>2 DEF Inside
  <2>3. ASSUME NEW i \in 1..(L + 1), i + max <= (L + 1) - (m + 1) PROVE i \in 1..L /\ i + max <= L - m /\ more[i] = own[i]
    BY <1>1, <1>2, <2>3 DEF Inside
  <2> QED
    BY <1>1, <1>2, <2>1, <2>2, <2>3 DEF Inside
<1> QED
  BY <1>4, <1>5 DEF more

\* A request that opens a window, when none is open.
LEMMA OpensWindow ==
  ASSUME NEW own \in Seq(Nat), NEW max \in Nat \ {0}, NEW window \in Nat, NEW now \in Nat,
         Spread(own, max, window, now), Closed(own, max, window, now)
  PROVE  LET more == Append(own, now)
         IN Spread(more, max, window, now) /\ Inside(more, 1, max, window, now, now)
<1> DEFINE more == Append(own, now)
           L == Len(own)
<1>1. /\ more \in Seq(Nat) /\ Len(more) = L + 1 /\ more[L + 1] = now /\ L \in Nat
      /\ \A i \in 1..L : more[i] = own[i]
      /\ DOMAIN more = 1..(L + 1) /\ DOMAIN own = 1..L
      /\ \A i \in 1..L : own[i] \in Nat
  OBVIOUS
<1> HIDE DEF more, L
<1>2. Len(own) = L
  BY DEF L
<1>3. ASSUME NEW i \in 1..(L + 1), i + 2 * max \in 1..(L + 1)
      PROVE  more[i + 2 * max] - more[i] >= window
  <2>1. i \in 1..L /\ i + max <= L /\ more[i] = own[i] /\ own[i] \in Nat
    BY <1>1, <1>3
  <2>2. CASE i + 2 * max = L + 1
    <3>1. own[i] <= now - window
      BY <1>1, <1>2, <2>1 DEF Closed
    <3>2. more[i + 2 * max] = now
      BY <1>1, <2>2
    <3> QED
      BY <2>1, <3>1, <3>2
  <2>3. CASE i + 2 * max # L + 1
    <3>1. i + 2 * max \in 1..L
      BY <1>1, <1>3, <2>3
    <3>2. more[i + 2 * max] = own[i + 2 * max]
      BY <1>1, <3>1
    <3> QED
      BY <1>1, <2>1, <3>1, <3>2 DEF Spread
  <2> QED
    BY <2>2, <2>3
<1>4. Spread(more, max, window, now)
  <2>1. ASSUME NEW i \in 1..(L + 1) PROVE more[i] <= now
    BY <1>1 DEF Spread
  <2> QED
    BY <1>1, <1>3, <2>1 DEF Spread
<1>5. Inside(more, 1, max, window, now, now)
  <2>1. ASSUME NEW i \in 1..(L + 1), i <= (L + 1) - 1 PROVE more[i] <= now
    BY <1>1, <2>1 DEF Spread
  <2>2. ASSUME NEW i \in 1..(L + 1), i + max <= (L + 1) - 1 PROVE more[i] <= now - window
    <3>1. i \in 1..L /\ i + max <= L
      BY <1>1, <2>2
    <3> QED
      BY <1>1, <1>2, <3>1 DEF Closed
  <2> QED
    BY <1>1, <2>1, <2>2 DEF Inside
<1> QED
  BY <1>4, <1>5 DEF more

\* A window whose time is over.
LEMMA WindowCloses ==
  ASSUME NEW own \in Seq(Nat), NEW max \in Nat \ {0}, NEW window \in Nat, NEW start \in Int, NEW now \in Nat,
         NEW m \in Nat, Inside(own, m, max, window, start, now), start + window <= now
  PROVE  Closed(own, max, window, now)
<1>1. ASSUME NEW i \in DOMAIN own, i + max <= Len(own) PROVE own[i] <= now - window
  <2>1. i <= Len(own) - m /\ own[i] \in Nat
    BY <1>1 DEF Inside
  <2> QED
    BY <2>1 DEF Inside
<1> QED
  BY <1>1 DEF Closed
Windows(Clients) == UNION {[D -> Opened] : D \in SUBSET Clients}

\* A window that is open, and the one after a request.
IsOpen(hits, k, now) == k \in DOMAIN hits /\ hits[k].resetTime > now
Counted(limiter, hits, k, now) ==
    [count |-> IF IsOpen(hits, k, now) THEN hits[k].count + 1 ELSE 1,
     resetTime |-> IF IsOpen(hits, k, now) THEN hits[k].resetTime ELSE now + limiter.window]

\* What a hit leaves: the windows of the others, and its own.
LEMMA HitOpensOrCounts ==
  ASSUME NEW Clients, NEW limiter \in Limiters, NEW hits \in Windows(Clients), NEW k \in Clients, NEW now \in Nat
  PROVE  /\ Hit(limiter, hits, k, now).hits \in Windows(Clients)
         /\ DOMAIN Hit(limiter, hits, k, now).hits = DOMAIN hits \cup {k}
         /\ Hit(limiter, hits, k, now).hits[k] = Counted(limiter, hits, k, now)
         /\ \A l \in DOMAIN hits : l # k => Hit(limiter, hits, k, now).hits[l] = hits[l]
<1> DEFINE made == Counted(limiter, hits, k, now)
           D == DOMAIN hits \cup {k}
           new == [l \in D |-> IF l = k THEN made ELSE hits[l]]
<1>1. /\ hits \in [DOMAIN hits -> Opened] /\ DOMAIN hits \subseteq Clients
      /\ limiter.max \in Nat \ {0} /\ limiter.window \in Nat
  BY DEF Windows, Limiters
<1>2. k \in DOMAIN hits => hits[k].count \in Nat /\ hits[k].resetTime \in Nat
  BY <1>1 DEF Opened
<1>3. made \in Opened
  BY <1>1, <1>2 DEF Opened, Counted, IsOpen
<1>4. Hit(limiter, hits, k, now).hits = With(hits, k, made)
  BY DEF Hit, Counted, IsOpen
<1> HIDE DEF made
<1>5. With(hits, k, made) = new
  BY DEF With
<1>6. new \in [D -> Opened] /\ D \in SUBSET Clients
  BY <1>1, <1>3
<1>7. new \in Windows(Clients)
  BY <1>6 DEF Windows
<1> QED
  BY <1>4, <1>5, <1>7 DEF made

\* What happens at a limiter leaves the windows of every client apart.
LEMMA StepKeepsWindowsApart ==
  ASSUME NEW Clients, NEW limiter \in Limiters, NEW s \in LimiterStates(Clients), NEW t,
         WindowsAreApart(limiter, s), LimiterStep(limiter, s, t)
  PROVE  t \in LimiterStates(Clients) /\ WindowsAreApart(limiter, t)
<1> DEFINE max == limiter.max
           window == limiter.window
           Closely(u, k) ==
             /\ Spread(u.log[k], max, window, u.now)
             /\ k \notin DOMAIN u.hits => Closed(u.log[k], max, window, u.now)
             /\ k \in DOMAIN u.hits =>
                  /\ u.hits[k].count >= 1
                  /\ Inside(u.log[k], IF u.hits[k].count < max THEN u.hits[k].count ELSE max,
                            max, window, u.hits[k].resetTime - window, u.now)
<1>1. /\ max \in Nat \ {0} /\ window \in Nat /\ s.now \in Nat /\ DOMAIN s.log = Clients
      /\ s.hits \in Windows(Clients) /\ DOMAIN s.hits \subseteq Clients
      /\ s = [hits |-> s.hits, log |-> s.log, now |-> s.now]
      /\ s.log \in [Clients -> Seq(Nat)]
  BY DEF Limiters, LimiterStates, Windows
<1>2. \A k \in DOMAIN s.hits : s.hits[k].count \in Nat /\ s.hits[k].resetTime \in Nat
  BY <1>1 DEF Windows, Opened
<1>3. \A k \in Clients : Closely(s, k)
  BY <1>1 DEF WindowsAreApart
<1> HIDE DEF max, window
<1>4. ASSUME NEW k \in Clients, t = Requested(limiter, s, k)
      PROVE  t \in LimiterStates(Clients) /\ \A l \in Clients : Closely(t, l)
  <2> DEFINE old == IsOpen(s.hits, k, s.now)
             made == Counted(limiter, s.hits, k, s.now)
             hit == Hit(limiter, s.hits, k, s.now)
             more == Append(s.log[k], s.now)
             own == IF ~old \/ made.count <= max THEN more ELSE s.log[k]
  <2>1. /\ hit.hits \in Windows(Clients) /\ DOMAIN hit.hits = DOMAIN s.hits \cup {k} /\ hit.hits[k] = made
        /\ \A l \in DOMAIN s.hits : l # k => hit.hits[l] = s.hits[l]
        /\ (IF hit.admitted THEN more ELSE s.log[k]) = own
    <3>1. /\ hit.hits \in Windows(Clients) /\ DOMAIN hit.hits = DOMAIN s.hits \cup {k} /\ hit.hits[k] = made
          /\ \A l \in DOMAIN s.hits : l # k => hit.hits[l] = s.hits[l]
      BY <1>1, HitOpensOrCounts
    <3> HIDE DEF more
    <3>2. (IF hit.admitted THEN more ELSE s.log[k]) = own
      BY DEF Hit, Counted, IsOpen, max
    <3> QED
      BY <3>1, <3>2
  <2>2. t = [hits |-> hit.hits, log |-> [s.log EXCEPT ![k] = own], now |-> s.now]
    <3> HIDE DEF own, more
    <3>1. t = [hits |-> hit.hits, log |-> [s.log EXCEPT ![k] = IF hit.admitted THEN more ELSE s.log[k]], now |-> s.now]
      BY <1>1, <1>4 DEF Requested, more
    <3> QED
      BY <2>1, <3>1
  <2> HIDE DEF hit
  <2>3. s.log[k] \in Seq(Nat) /\ own \in Seq(Nat)
    BY <1>1
  <2>4. t \in LimiterStates(Clients)
    BY <1>1, <2>1, <2>2, <2>3 DEF LimiterStates, Windows
  <2>5. ASSUME NEW l \in Clients, l # k PROVE Closely(t, l)
    <3>1. t.log[l] = s.log[l] /\ t.now = s.now /\ (l \in DOMAIN t.hits <=> l \in DOMAIN s.hits)
      BY <1>1, <2>1, <2>2, <2>5
    <3>2. l \in DOMAIN s.hits => t.hits[l] = s.hits[l]
      BY <2>1, <2>2, <2>5
    <3> QED
      BY <1>3, <3>1, <3>2
  <2>6. t.log[k] = own /\ t.now = s.now /\ k \in DOMAIN t.hits /\ t.hits[k] = made
    BY <1>1, <2>1, <2>2
  <2>7. Closely(s, k)
    BY <1>3
  <2> HIDE DEF own, more
  <2>8. ASSUME old PROVE Closely(t, k)
    <3> DEFINE c == s.hits[k].count
               r == s.hits[k].resetTime
               m == IF c < max THEN c ELSE max
    <3>1. c \in Nat /\ r \in Nat /\ c >= 1 /\ m \in Nat /\ r - window \in Int
      BY <1>1, <1>2, <2>7, <2>8 DEF IsOpen
    <3>2. Spread(s.log[k], max, window, s.now) /\ Inside(s.log[k], m, max, window, r - window, s.now)
      BY <2>7, <2>8 DEF IsOpen
    <3>3. made = [count |-> c + 1, resetTime |-> r] /\ made.count = c + 1 /\ made.resetTime = r
      BY <2>8 DEF Counted
    <3> HIDE DEF old, made, c, r
    <3>4. CASE c + 1 <= max
      <4>1. own = more
        BY <3>3, <3>4 DEF own
      <4>2. m = c /\ c < max /\ (IF c + 1 < max THEN c + 1 ELSE max) = c + 1
        BY <1>1, <3>1, <3>4
      <4>3. Spread(more, max, window, s.now) /\ Inside(more, c + 1, max, window, r - window, s.now)
        BY <1>1, <2>3, <3>1, <3>2, <4>2, StaysInside DEF more
      <4>4. /\ t.log[k] = more /\ t.now = s.now /\ k \in DOMAIN t.hits
            /\ t.hits[k].count = c + 1 /\ t.hits[k].resetTime = r
        BY <2>6, <3>3, <4>1
      <4>5. (IF t.hits[k].count < max THEN t.hits[k].count ELSE max) = c + 1 /\ t.hits[k].count >= 1
        BY <1>1, <3>1, <3>4, <4>2, <4>4
      <4>6. Spread(t.log[k], max, window, t.now) /\ Inside(t.log[k], c + 1, max, window, t.hits[k].resetTime - window, t.now)
        BY <4>3, <4>4
      <4> QED
        BY <4>4, <4>5, <4>6, Zenon
    <3>5. CASE ~(c + 1 <= max)
      <4>1. own = s.log[k]
        BY <2>8, <3>3, <3>5 DEF own
      <4>2. m = max /\ (IF c + 1 < max THEN c + 1 ELSE max) = max
        BY <1>1, <3>1, <3>5
      <4>3. /\ t.log[k] = s.log[k] /\ t.now = s.now /\ k \in DOMAIN t.hits
            /\ t.hits[k].count = c + 1 /\ t.hits[k].resetTime = r
        BY <2>6, <3>3, <4>1
      <4>4. (IF t.hits[k].count < max THEN t.hits[k].count ELSE max) = m /\ t.hits[k].count >= 1
        BY <3>1, <4>2, <4>3
      <4>5. Spread(t.log[k], max, window, t.now) /\ Inside(t.log[k], m, max, window, t.hits[k].resetTime - window, t.now)
        <5> HIDE DEF m
        <5> QED
          BY <3>2, <4>3
      <4> QED
        BY <4>3, <4>4, <4>5, Zenon
    <3> QED
      BY <3>4, <3>5
  <2>9. ASSUME ~old PROVE Closely(t, k)
    <3>1. made.count = 1 /\ made.resetTime = s.now + window /\ own = more
      BY <2>9 DEF own, Counted, window
    <3>2. Closed(s.log[k], max, window, s.now)
      <4>1. CASE k \notin DOMAIN s.hits
        BY <2>7, <4>1
      <4>2. CASE k \in DOMAIN s.hits
        <5> DEFINE m == IF s.hits[k].count < max THEN s.hits[k].count ELSE max
                   start == s.hits[k].resetTime - window
        <5>1. Inside(s.log[k], m, max, window, start, s.now)
          BY <2>7, <4>2
        <5>2. m \in Nat /\ start \in Int /\ start + window <= s.now
          BY <1>1, <1>2, <2>9, <4>2 DEF IsOpen
        <5> HIDE DEF m, start
        <5> QED
          BY <1>1, <2>3, <5>1, <5>2, WindowCloses
      <4> QED
        BY <4>1, <4>2
    <3>3. Spread(more, max, window, s.now) /\ Inside(more, 1, max, window, s.now, s.now)
      BY <1>1, <2>3, <2>7, <3>2, OpensWindow DEF more
    <3>4. (s.now + window) - window = s.now /\ (IF 1 < max THEN 1 ELSE max) = 1 /\ 1 >= 1
      BY <1>1
    <3> HIDE DEF old, made
    <3>5. /\ t.log[k] = more /\ t.now = s.now /\ k \in DOMAIN t.hits
          /\ t.hits[k].count = 1 /\ t.hits[k].resetTime - window = s.now
      BY <2>6, <3>1, <3>4
    <3>6. (IF t.hits[k].count < max THEN t.hits[k].count ELSE max) = 1 /\ t.hits[k].count >= 1
      BY <3>4, <3>5
    <3>7. Spread(t.log[k], max, window, t.now) /\ Inside(t.log[k], 1, max, window, t.hits[k].resetTime - window, t.now)
      BY <3>3, <3>5
    <3> QED
      BY <3>5, <3>6, <3>7, Zenon
  <2> QED
    BY <2>4, <2>5, <2>8, <2>9
<1>5. ASSUME t = Cleaned(s)
      PROVE  t \in LimiterStates(Clients) /\ \A l \in Clients : Closely(t, l)
  <2> DEFINE left == {l \in DOMAIN s.hits : s.hits[l].resetTime > s.now}
             hits == [l \in left |-> s.hits[l]]
  <2>1. t = [hits |-> hits, log |-> s.log, now |-> s.now]
    BY <1>1, <1>5 DEF Cleaned, Cleanup
  <2>2. hits \in [left -> Opened] /\ left \in SUBSET Clients
    BY <1>1 DEF Windows
  <2>3. t \in LimiterStates(Clients)
    BY <1>1, <2>1, <2>2 DEF LimiterStates
  <2>4. ASSUME NEW l \in Clients PROVE Closely(t, l)
    <3>1. Closely(s, l) /\ s.log[l] \in Seq(Nat)
      BY <1>1, <1>3
    <3>2. CASE l \in left
      <4>1. t.hits[l] = s.hits[l] /\ l \in DOMAIN t.hits /\ l \in DOMAIN s.hits /\ t.log = s.log /\ t.now = s.now
        BY <2>1, <3>2
      <4> QED
        BY <3>1, <4>1
    <3>3. CASE l \notin left
      <4>1. l \notin DOMAIN t.hits /\ t.log = s.log /\ t.now = s.now
        BY <2>1, <3>3
      <4>2. CASE l \notin DOMAIN s.hits
        BY <3>1, <4>1, <4>2
      <4>3. CASE l \in DOMAIN s.hits
        <5> DEFINE m == IF s.hits[l].count < max THEN s.hits[l].count ELSE max
                   start == s.hits[l].resetTime - window
        <5>1. Inside(s.log[l], m, max, window, start, s.now)
          BY <3>1, <4>3
        <5>2. m \in Nat /\ start \in Int /\ start + window <= s.now
          BY <1>1, <1>2, <3>3, <4>3
        <5> HIDE DEF m, start
        <5>3. Closed(s.log[l], max, window, s.now)
          BY <1>1, <3>1, <5>1, <5>2, WindowCloses
        <5> QED
          BY <3>1, <4>1, <5>3
      <4> QED
        BY <4>2, <4>3
    <3> QED
      BY <3>2, <3>3
  <2> QED
    BY <2>3, <2>4
<1>6. ASSUME NEW now \in Nat, now >= s.now, t = Later(s, now)
      PROVE  t \in LimiterStates(Clients) /\ \A l \in Clients : Closely(t, l)
  <2>1. t = [hits |-> s.hits, log |-> s.log, now |-> now]
    BY <1>1, <1>6 DEF Later
  <2>2. t \in LimiterStates(Clients)
    BY <1>1, <2>1 DEF LimiterStates, Windows
  <2>3. ASSUME NEW l \in Clients PROVE Closely(t, l)
    <3>1. Closely(s, l) /\ s.log[l] \in Seq(Nat)
      BY <1>1, <1>3
    <3>2. t.log = s.log /\ t.hits = s.hits /\ t.now = now
      BY <2>1
    <3>3. \A i \in DOMAIN s.log[l] : s.log[l][i] \in Nat
      BY <3>1
    <3>4. Spread(s.log[l], max, window, now)
      BY <1>1, <1>6, <3>1, <3>3 DEF Spread
    <3>5. ASSUME l \notin DOMAIN s.hits PROVE Closed(s.log[l], max, window, now)
      <4>1. Closed(s.log[l], max, window, s.now)
        BY <3>1, <3>5
      <4>2. s.now - window <= now - window /\ s.now - window \in Int /\ now - window \in Int
        BY <1>1, <1>6
      <4> QED
        BY <3>3, <4>1, <4>2 DEF Closed
    <3>6. l \in DOMAIN s.hits =>
            Inside(s.log[l], IF s.hits[l].count < max THEN s.hits[l].count ELSE max, max, window,
                   s.hits[l].resetTime - window, now)
      BY <1>1, <1>2, <1>6, <3>1, <3>3 DEF Inside
    <3> QED
      BY <3>1, <3>2, <3>4, <3>5, <3>6
  <2> QED
    BY <2>2, <2>3
<1>7. t \in LimiterStates(Clients) /\ \A l \in Clients : Closely(t, l)
  BY <1>1, <1>4, <1>5, <1>6 DEF LimiterStep
<1>8. DOMAIN t.log = Clients
  BY <1>7 DEF LimiterStates
<1> QED
  BY <1>7, <1>8 DEF WindowsAreApart, max, window

\* Where the windows of every client are apart, the limit is kept.
LEMMA ApartWindowsKeepTheLimit ==
  ASSUME NEW Clients, NEW limiter \in Limiters, NEW s \in LimiterStates(Clients), WindowsAreApart(limiter, s)
  PROVE  LimitIsKept(limiter, s)
<1>1. /\ limiter.max \in Nat \ {0} /\ limiter.window \in Nat /\ s.now \in Nat /\ DOMAIN s.log = Clients
      /\ s.hits \in Windows(Clients) /\ s.log \in [Clients -> Seq(Nat)]
  BY DEF Limiters, LimiterStates, Windows
<1>2. \A k \in DOMAIN s.hits : s.hits[k].count \in Nat /\ s.hits[k].resetTime \in Nat
  BY <1>1 DEF Windows, Opened
<1>3. ASSUME NEW k \in DOMAIN s.log, NEW i \in DOMAIN s.log[k]
      PROVE  /\ i + 2 * limiter.max \in DOMAIN s.log[k] => s.log[k][i + 2 * limiter.max] - s.log[k][i] >= limiter.window
             /\ i = Len(s.log[k]) /\ s.now >= s.log[k][i] + limiter.window => Hit(limiter, s.hits, k, s.now).admitted
  <2>1. i + 2 * limiter.max \in DOMAIN s.log[k] => s.log[k][i + 2 * limiter.max] - s.log[k][i] >= limiter.window
    BY DEF WindowsAreApart, Spread
  <2>2. ASSUME i = Len(s.log[k]), s.now >= s.log[k][i] + limiter.window
        PROVE  ~(k \in DOMAIN s.hits /\ s.hits[k].resetTime > s.now)
    <3> SUFFICES ASSUME k \in DOMAIN s.hits PROVE ~(s.hits[k].resetTime > s.now)
      OBVIOUS
    <3>1. s.log[k][i] >= s.hits[k].resetTime - limiter.window
      BY <2>2 DEF WindowsAreApart, Inside
    <3>2. s.log[k][i] \in Nat
      BY <1>1
    <3> QED
      BY <1>1, <1>2, <2>2, <3>1, <3>2
  <2>3. ASSUME i = Len(s.log[k]), s.now >= s.log[k][i] + limiter.window
        PROVE  Hit(limiter, s.hits, k, s.now).admitted
    BY <2>2, <2>3 DEF Hit
  <2> QED
    BY <2>1, <2>3
<1> QED
  BY <1>3 DEF LimitIsKept

\* However requests of any clients, the interval and time follow one another: among any 2 max + 1
\* requests of a client that were admitted lies a whole window, and the first request after a window
\* is admitted (rateLimitMiddleware and its cleanup in rate-limiter.ts).
THEOREM LimitsAreKept ==
  ASSUME NEW Clients, NEW limiter \in Limiters, NEW N \in Nat, NEW run, NEW start \in Nat,
         run[0] = NewLimiter(Clients, start),
         \A n \in 1..N : LimiterStep(limiter, run[n - 1], run[n])
  PROVE  \A n \in 0..N : LimitIsKept(limiter, run[n])
<1> DEFINE Q == {n \in 0..N : run[n] \in LimiterStates(Clients) /\ WindowsAreApart(limiter, run[n])}
<1>1. 0 \in Q
  <2>1. NoHits \in [{} -> Opened] /\ DOMAIN NoHits = {}
    BY DEF NoHits
  <2>2. run[0] \in LimiterStates(Clients)
    <3>1. {} \in SUBSET Clients /\ [k \in Clients |-> <<>>] \in [Clients -> Seq(Nat)]
      OBVIOUS
    <3>2. NoHits \in UNION {[D -> Opened] : D \in SUBSET Clients}
      BY <2>1, <3>1
    <3> QED
      BY <3>1, <3>2 DEF NewLimiter, LimiterStates
  <2>3. ASSUME NEW k \in Clients
        PROVE  run[0].log[k] = <<>> /\ DOMAIN run[0].hits = {}
    BY <2>1 DEF NewLimiter
  <2>4. WindowsAreApart(limiter, run[0])
    <3>1. DOMAIN run[0].log = Clients
      BY DEF NewLimiter
    <3> QED
      BY <2>3, <3>1 DEF WindowsAreApart, Spread, Closed
  <2> QED
    BY <2>2, <2>4
<1>2. ASSUME NEW n \in 0..N, n < N, n \in Q PROVE n + 1 \in Q
  <2>1. n + 1 \in 1..N /\ n + 1 \in 0..N /\ (n + 1) - 1 = n
    BY <1>2
  <2>2. LimiterStep(limiter, run[n], run[n + 1])
    BY <2>1
  <2> QED
    BY <1>2, <2>1, <2>2, StepKeepsWindowsApart
<1> HIDE DEF Q
<1>3. 0..N \subseteq Q
  BY <1>1, <1>2, PositionInduction
<1> QED
  BY <1>3, ApartWindowsKeepTheLimit DEF Q

-----------------------------------------------------------------------------
(* A request on its way.                                                   *)

\* The layer that answers, with every one before it passing the request on.
AnswersFirst(layers, i) ==
    /\ i \in DOMAIN layers /\ layers[i].kind # "next" /\ Stack(layers) = layers[i]
    /\ \A j \in DOMAIN layers : j < i => layers[j].kind = "next"

LEMMA StackAnswers ==
  ASSUME NEW n \in Nat, NEW layers, DOMAIN layers = 1..n
  PROVE  /\ Stack(layers).kind = "next" => \A i \in 1..n : layers[i].kind = "next"
         /\ (\E i \in 1..n : layers[i].kind # "next") => \E i \in 1..n : AnswersFirst(layers, i)
<1> DEFINE answering == {i \in DOMAIN layers : layers[i].kind # "next"}
<1>1. Stack(layers) = IF answering = {} THEN Pass ELSE layers[Min(answering)]
  BY DEF Stack
<1>2. ASSUME answering # {} PROVE AnswersFirst(layers, Min(answering)) /\ Min(answering) \in 1..n
  <2>1. answering \subseteq Nat
    OBVIOUS
  <2> HIDE DEF answering
  <2>2. \E m \in answering : \A k \in answering : m <= k
    BY <1>2, <2>1, LeastExists
  <2>3. Min(answering) \in answering /\ \A k \in answering : Min(answering) <= k
    BY <2>2 DEF Min
  <2> DEFINE least == Min(answering)
  <2> HIDE DEF least
  <2>4. least \in DOMAIN layers /\ layers[least].kind # "next" /\ least \in Nat
    BY <2>1, <2>3 DEF answering, least
  <2>5. ASSUME NEW j \in DOMAIN layers, j < least PROVE layers[j].kind = "next"
    <3>1. j \in Nat
      OBVIOUS
    <3>2. j \notin answering
      BY <2>3, <2>4, <2>5, <3>1 DEF least
    <3> QED
      BY <3>2 DEF answering
  <2>6. Stack(layers) = layers[least]
    BY <1>1, <1>2 DEF least
  <2> QED
    BY <2>4, <2>5, <2>6 DEF AnswersFirst, least
<1>3. ASSUME Stack(layers).kind = "next" PROVE \A i \in 1..n : layers[i].kind = "next"
  <2>1. answering = {}
    BY <1>2, <1>3 DEF AnswersFirst
  <2> QED
    BY <2>1
<1>4. ASSUME NEW i \in 1..n, layers[i].kind # "next" PROVE \E j \in 1..n : AnswersFirst(layers, j)
  <2>1. answering # {}
    BY <1>4
  <2> HIDE DEF answering
  <2> QED
    BY <1>2, <2>1
<1> QED
  BY <1>3, <1>4

LEMMA AStackAnswers ==
  ASSUME NEW n \in Nat, NEW layers, DOMAIN layers = 1..n, Stack(layers).kind # "next"
  PROVE  \E i \in 1..n : AnswersFirst(layers, i)
<1>1. CASE \A i \in 1..n : layers[i].kind = "next"
  <2>1. {i \in DOMAIN layers : layers[i].kind # "next"} = {}
    BY <1>1
  <2> QED
    BY <2>1 DEF Stack, Pass
<1> QED
  BY <1>1, StackAnswers

\* The first of six that does not pass the request on, where the last never does.
LEMMA SixLayers ==
  ASSUME NEW a, NEW b, NEW c, NEW d, NEW e, NEW f, f.kind # "next"
  PROVE  Stack(<<a, b, c, d, e, f>>) = IF a.kind # "next" THEN a ELSE IF b.kind # "next" THEN b
                                       ELSE IF c.kind # "next" THEN c ELSE IF d.kind # "next" THEN d
                                       ELSE IF e.kind # "next" THEN e ELSE f
<1> DEFINE layers == <<a, b, c, d, e, f>>
<1>1. /\ DOMAIN layers = 1..6 /\ layers[1] = a /\ layers[2] = b /\ layers[3] = c /\ layers[4] = d
      /\ layers[5] = e /\ layers[6] = f
  OBVIOUS
<1> HIDE DEF layers
<1>2. 6 \in 1..6 /\ 6 \in Nat
  OBVIOUS
<1>3. PICK i \in 1..6 : AnswersFirst(layers, i)
  BY <1>1, <1>2, StackAnswers
<1>4. /\ layers[i].kind # "next" /\ Stack(layers) = layers[i]
      /\ \A j \in 1..6 : j < i => layers[j].kind = "next"
  BY <1>1, <1>3 DEF AnswersFirst
<1>5. i = 1 \/ i = 2 \/ i = 3 \/ i = 4 \/ i = 5 \/ i = 6
  OBVIOUS
<1>6. /\ 1 < i => a.kind = "next"
      /\ 2 < i => b.kind = "next"
      /\ 3 < i => c.kind = "next"
      /\ 4 < i => d.kind = "next"
      /\ 5 < i => e.kind = "next"
  BY <1>1, <1>4
<1> QED
  BY <1>1, <1>4, <1>5, <1>6 DEF layers

\* Every plugin that is registered has a place among those that are installed.
LEMMA EveryPluginIsInstalled ==
  ASSUME NEW Plugins, \A p \in Plugins : p.priority \in Int, NEW plugins \in Seq(Plugins), NEW i \in DOMAIN plugins
  PROVE  /\ DOMAIN Installed(plugins) = 1..Len(plugins)
         /\ \E k \in DOMAIN plugins : Installed(plugins)[k] = plugins[i]
         /\ \E j \in DOMAIN plugins : Installed(plugins)[i] = plugins[j]
<1> DEFINE D == DOMAIN plugins
           n == Len(plugins)
           Sooner(j, k) == Before(plugins[j], plugins[k], j, k)
           Those(k) == {j \in D : Sooner(j, k)}
           Place(k) == Cardinality(Those(k)) + 1
<1>1. n \in Nat /\ D = 1..n /\ \A j \in D : plugins[j].priority \in Int /\ j \in Nat
  OBVIOUS
<1>2. Installed(plugins) = [k \in D |-> plugins[CHOOSE j \in D : Place(j) = k]]
  BY DEF Installed
<1>3. /\ \A j \in D : ~Sooner(j, j)
      /\ \A j, k \in D : j # k => Sooner(j, k) \/ Sooner(k, j)
      /\ \A j, k, l \in D : Sooner(j, k) /\ Sooner(k, l) => Sooner(j, l)
  <2> HIDE DEF D
  <2> QED
    BY <1>1 DEF Before
<1>4. IsFiniteSet(D) /\ Cardinality(D) = n
  BY <1>1, FS_Interval
<1> HIDE DEF Sooner, D, n
<1>5. ASSUME NEW j \in D PROVE Those(j) \subseteq D \ {j} /\ IsFiniteSet(Those(j)) /\ Cardinality(Those(j)) \in Nat
  <2>1. Those(j) \subseteq D \ {j}
    BY <1>3
  <2>2. Those(j) \subseteq D
    OBVIOUS
  <2> HIDE DEF Those
  <2> QED
    BY <1>4, <2>1, <2>2, FS_Subset, FS_CardinalityType
<1>6. ASSUME NEW j \in D, NEW k \in D, Sooner(j, k) PROVE Place(j) < Place(k)
  <2>1. Those(j) \subseteq Those(k) /\ j \in Those(k) /\ j \notin Those(j)
    BY <1>3, <1>6
  <2> HIDE DEF Those
  <2>2. Cardinality(Those(j)) <= Cardinality(Those(k)) /\ Cardinality(Those(j)) # Cardinality(Those(k))
    BY <1>5, <2>1, FS_Subset
  <2> QED
    BY <1>5, <2>2
<1> HIDE DEF Those
<1>7. ASSUME NEW j \in D PROVE Place(j) \in 1..n
  <2>1. IsFiniteSet(D \ {j}) /\ Cardinality(D \ {j}) = n - 1
    BY <1>4, FS_RemoveElement
  <2>2. Cardinality(Those(j)) <= n - 1
    BY <1>5, <2>1, FS_Subset
  <2> QED
    BY <1>1, <1>5, <2>2
<1>8. \A j, k \in D : Place(j) = Place(k) => j = k
  <2>1. ASSUME NEW j \in D, NEW k \in D, j # k PROVE Place(j) # Place(k)
    <3>1. Place(j) \in Nat /\ Place(k) \in Nat
      BY <1>5
    <3>2. Place(j) < Place(k) \/ Place(k) < Place(j)
      BY <1>3, <1>6, <2>1
    <3> HIDE DEF Place
    <3> QED
      BY <3>1, <3>2
  <2> QED
    BY <2>1
<1>9. i \in D
  BY DEF D
<1> DEFINE k0 == Place(i)
<1>10. k0 \in D /\ (CHOOSE j \in D : Place(j) = k0) = i
  <2>1. k0 \in D
    BY <1>1, <1>7, <1>9
  <2>2. \A j \in D : Place(j) = k0 => j = i
    BY <1>8, <1>9
  <2> HIDE DEF Place
  <2> QED
    BY <1>9, <2>1, <2>2
<1> HIDE DEF Place
<1>11. Installed(plugins)[k0] = plugins[i]
  BY <1>2, <1>10
<1>12. DOMAIN Installed(plugins) = D
  BY <1>2
<1> DEFINE place == [j \in D |-> Place(j)]
<1>13. \E j \in D : Place(j) = i
  <2>1. place \in Injection(D, D)
    <3>1. place \in [D -> D]
      BY <1>1, <1>7
    <3>2. \A j, k \in D : place[j] = place[k] => j = k
      BY <1>8
    <3> HIDE DEF place
    <3> QED
      BY <3>1, <3>2 DEF Injection, IsInjective
  <2>2. place \in Surjection(D, D)
    <3> HIDE DEF place
    <3> QED
      BY <1>4, <2>1, FS_Injection
  <2>3. \E j \in D : place[j] = i
    BY <1>9, <2>2 DEF Surjection
  <2> QED
    BY <2>3
<1>14. \E j \in D : Installed(plugins)[i] = plugins[j]
  BY <1>2, <1>9, <1>13
<1> QED
  BY <1>1, <1>10, <1>11, <1>12, <1>14 DEF D, n

\* What a plugin's layer, a route's, and the layers around them can answer as.
Doings(Names) == [kind : {"next", "answer", "throw"}, by : Names, status : Nat]
OwnNames == {"body", "static", "csrf", "principal", "guard", "authorize", "validation", "handler", "health", "spa", "404"}

LEMMA PluginsAnswerAsThemselves ==
  ASSUME NEW plugin, NEW req, PluginLayer(plugin, req).kind # "next"
  PROVE  /\ PluginLayer(plugin, req).by \in {"static", "csrf"}
         /\ PluginLayer(plugin, req).by = "static" =>
              req.method \in {"GET", "HEAD"} /\ plugin.kind = "static" /\ req.path \in plugin.files
<1>1. CASE plugin.kind = "static"
  BY <1>1 DEF PluginLayer, Static, Answer, Pass
<1>2. CASE plugin.kind = "csrf"
  BY <1>2 DEF PluginLayer, Answer, Pass
<1>3. CASE plugin.kind \notin {"static", "csrf"}
  BY <1>3 DEF PluginLayer, Pass
<1> QED
  BY <1>1, <1>2, <1>3

LEMMA CsrfLayerAsks ==
  ASSUME NEW plugin, NEW req, plugin.kind = "csrf", PluginLayer(plugin, req).kind = "next"
  PROVE  CsrfAccepts(plugin.csrf, req)
BY DEF PluginLayer, Answer, Pass

LEMMA FallbacksAnswerAsThemselves ==
  ASSUME NEW plugin, NEW req, Terminal(plugin, req).kind # "next"
  PROVE  Terminal(plugin, req).by = "spa" /\ req.method = "GET"
BY DEF Terminal, SpaFallback, Answer, Pass

\* A route's handler stands behind the guard, the authorization and the schema.
HandlerIsGuarded(app, route, req, done) ==
    /\ route.secure # {} => Principal(app, route, req) \notin {{}, {"error"}}
    /\ \A f \in route.authorize : Principal(app, route, req) \in f
    /\ \A s \in route.validation : Parameters(req) \in DOMAIN s /\ done.input = s[Parameters(req)]
    /\ \A k \in DOMAIN req.body : route.validation = {} => done.input[k] = req.body[k]

LEMMA HandlersAreGuarded ==
  ASSUME NEW app, NEW route, NEW req, route.handler.kind \in {"answer", "throw"},
         \A s1, s2 \in route.validation : s1 = s2
  PROVE  /\ WrapRouteHandler(app, route, req).kind \in {"answer", "throw"}
         /\ WrapRouteHandler(app, route, req).by \in {"principal", "guard", "authorize", "validation", "handler"}
         /\ WrapRouteHandler(app, route, req).by = "handler" =>
              HandlerIsGuarded(app, route, req, WrapRouteHandler(app, route, req))
<1> DEFINE principal == Principal(app, route, req)
           merged == Parameters(req)
           wrapped == WrapRouteHandler(app, route, req)
<1>1. CASE wrapped.by # "handler"
  BY <1>1 DEF WrapRouteHandler, Throw
<1>2. CASE wrapped.by = "handler"
  <2>1. /\ ~((route.secure # {} \/ route.authorize # {}) /\ principal = {"error"})
        /\ ~(route.secure # {} /\ principal = {})
        /\ \A f \in route.authorize : principal \in f
        /\ \A s \in route.validation : merged \in DOMAIN s
        /\ wrapped = [kind |-> route.handler.kind, by |-> "handler", status |-> route.handler.status,
                      input |-> IF route.validation = {} THEN merged
                                ELSE (CHOOSE s \in route.validation : TRUE)[merged]]
    <3> HIDE DEF principal, merged
    <3> QED
      BY <1>2 DEF WrapRouteHandler, Throw, principal, merged
  <2>2. wrapped.kind = route.handler.kind
    BY <2>1
  <2>3. ASSUME NEW s \in route.validation PROVE wrapped.input = s[merged]
    <3>1. (CHOOSE x \in route.validation : TRUE) = s
      OBVIOUS
    <3> QED
      BY <2>1, <3>1
  <2>4. ASSUME NEW k \in DOMAIN req.body, route.validation = {} PROVE wrapped.input[k] = req.body[k]
    <3>1. wrapped.input = merged
      BY <2>1, <2>4
    <3>2. merged[k] = req.body[k]
      BY DEF Parameters, Over
    <3> QED
      BY <3>1, <3>2
  <2> HIDE DEF principal, merged, wrapped
  <2>5. HandlerIsGuarded(app, route, req, wrapped)
    BY <2>1, <2>3, <2>4 DEF HandlerIsGuarded, principal, merged
  <2> QED
    BY <1>2, <2>2, <2>5 DEF wrapped
<1> QED
  BY <1>1, <1>2

\* The applications there can be, as far as the layers care: a route's handler answers or throws, its own
\* middleware bears no name of another layer, and there is at most one schema.
Applications(Plugins, Routes) == [plugins : Seq(Plugins), routes : Seq(Routes), mode : STRING, services : SUBSET STRING]
Routable(route, Names) ==
    /\ route.middleware \in Seq(Doings(Names)) /\ route.handler.kind \in {"answer", "throw"}
    /\ \A s1, s2 \in route.validation : s1 = s2

\* What a route makes of a request that it matches.
LEMMA RoutesAnswer ==
  ASSUME NEW Names, Names \cap OwnNames = {}, NEW app, NEW route, NEW req, Routable(route, Names)
  PROVE  LET done == RouteLayer(app, route, req)
         IN /\ done.kind # "next" <=> Matches(route, req)
            /\ Matches(route, req) =>
                 /\ done.by \in Names \cup {"principal", "guard", "authorize", "validation", "handler"}
                 /\ done.by = "handler" =>
                      /\ \A j \in DOMAIN route.middleware : route.middleware[j].kind = "next"
                      /\ HandlerIsGuarded(app, route, req, done)
<1> DEFINE done == RouteLayer(app, route, req)
           wrapped == WrapRouteHandler(app, route, req)
           L == Len(route.middleware)
           layers == Append(route.middleware, wrapped)
<1>1. CASE ~Matches(route, req)
  BY <1>1 DEF RouteLayer, Pass
<1>2. CASE Matches(route, req)
  <2>1. /\ wrapped.kind \in {"answer", "throw"}
        /\ wrapped.by \in {"principal", "guard", "authorize", "validation", "handler"}
        /\ wrapped.by = "handler" => HandlerIsGuarded(app, route, req, wrapped)
    BY HandlersAreGuarded DEF Routable
  <2> HIDE DEF wrapped
  <2>2. /\ L \in Nat /\ DOMAIN layers = 1..(L + 1) /\ layers[L + 1] = wrapped /\ DOMAIN route.middleware = 1..L
        /\ \A j \in 1..L : layers[j] = route.middleware[j] /\ route.middleware[j] \in Doings(Names)
    BY DEF Routable
  <2>3. done = Stack(layers)
    BY <1>2 DEF RouteLayer, wrapped
  <2> HIDE DEF layers, L, done
  <2>4. L + 1 \in Nat /\ L + 1 \in 1..(L + 1) /\ layers[L + 1].kind # "next"
    BY <2>1, <2>2
  <2>5. PICK i \in 1..(L + 1) : AnswersFirst(layers, i)
    BY <2>2, <2>4, StackAnswers
  <2>6. /\ layers[i].kind # "next" /\ done = layers[i]
        /\ \A j \in 1..(L + 1) : j < i => layers[j].kind = "next"
    BY <2>2, <2>3, <2>5 DEF AnswersFirst
  <2>7. CASE i = L + 1
    <3>1. done = wrapped
      BY <2>2, <2>6, <2>7
    <3>2. \A j \in 1..L : j \in 1..(L + 1) /\ j < i
      BY <2>2, <2>7
    <3>3. \A j \in DOMAIN route.middleware : route.middleware[j].kind = "next"
      BY <2>2, <2>6, <3>2
    <3> QED
      BY <1>2, <2>1, <3>1, <3>3 DEF done
  <2>8. CASE i # L + 1
    <3>1. i \in 1..L
      BY <2>2, <2>8
    <3>2. done \in Doings(Names)
      BY <2>2, <2>6, <3>1
    <3>3. done.by \in Names /\ done.by # "handler"
      BY <3>2 DEF Doings, OwnNames
    <3> QED
      BY <1>2, <2>6, <3>3 DEF done
  <2> QED
    BY <2>7, <2>8
<1> QED
  BY <1>1, <1>2

LEMMA UnmatchedRoutesPass ==
  ASSUME NEW Names, Names \cap OwnNames = {}, NEW app, NEW route, NEW req, Routable(route, Names),
         RouteLayer(app, route, req).kind = "next"
  PROVE  ~Matches(route, req)
BY RoutesAnswer

\* Every request gets one response, and a handler makes it only behind all that was put before it: the
\* body was read, every CSRF check passed wherever its plugin was registered, the route's own middleware
\* passed the request on, the guard found a principal and the authorization asked about that one, and the
\* handler got what the schema made of the merged input.  Files and the page of the single-page
\* application answer only requests that change nothing and hide no route; outside development no error
\* tells more than its class allows (initialize() and wrapRouteHandler in web-application.ts).
THEOREM RequestsAreHandledInOrder ==
  ASSUME NEW Names, Names \cap OwnNames = {},
         NEW Plugins, \A p \in Plugins : p.priority \in Int,
         NEW Routes, \A r \in Routes : Routable(r, Names),
         NEW app \in Applications(Plugins, Routes), NEW req, req.malformedBody \in BOOLEAN
  PROVE  RequestIsHandled(app, req)
<1> DEFINE plugins == Installed(app.plugins)
           a == IF req.malformedBody THEN Throw("body", 400) ELSE Pass
           pls == [i \in DOMAIN plugins |-> PluginLayer(plugins[i], req)]
           rls == [i \in DOMAIN app.routes |-> RouteLayer(app, app.routes[i], req)]
           els == [i \in DOMAIN plugins |-> Terminal(plugins[i], req)]
           b == Stack(pls)
           c == Stack(rls)
           d == Health(plugins, req)
           e == Stack(els)
           f == Throw("404", 404)
           first == Handle(app, req)
           P == Len(app.plugins)
           R == Len(app.routes)
           matching == {i \in DOMAIN app.routes : Matches(app.routes[i], req)}
           Guarded(i) == LET route == app.routes[i]
                         IN /\ \A j \in DOMAIN route.middleware : route.middleware[j].kind = "next"
                            /\ HandlerIsGuarded(app, route, req, c)
<1>1. /\ app.plugins \in Seq(Plugins) /\ app.routes \in Seq(Routes) /\ P \in Nat /\ R \in Nat
      /\ DOMAIN app.plugins = 1..P /\ DOMAIN app.routes = 1..R
  BY DEF Applications
<1>2. /\ DOMAIN plugins = 1..P
      /\ \A i \in 1..P : (\E k \in 1..P : plugins[k] = app.plugins[i]) /\ \E j \in 1..P : plugins[i] = app.plugins[j]
  <2>1. DOMAIN plugins = 1..P
    BY <1>1 DEF Installed
  <2> HIDE DEF plugins
  <2>2. ASSUME NEW i \in DOMAIN app.plugins
        PROVE  (\E k \in 1..P : plugins[k] = app.plugins[i]) /\ \E j \in 1..P : plugins[i] = app.plugins[j]
    BY <1>1, EveryPluginIsInstalled DEF plugins
  <2> QED
    BY <1>1, <2>1, <2>2
<1>3. first = IF a.kind # "next" THEN a ELSE IF b.kind # "next" THEN b ELSE IF c.kind # "next" THEN c
              ELSE IF d.kind # "next" THEN d ELSE IF e.kind # "next" THEN e ELSE f
  <2>1. f.kind # "next"
    BY DEF Throw
  <2>2. first = Stack(<<a, b, c, d, e, f>>)
    BY DEF Handle
  <2> HIDE DEF a, b, c, d, e, f
  <2> QED
    BY <2>1, <2>2, SixLayers
<1> HIDE DEF plugins
<1>4. ASSUME b.kind = "next", NEW i \in DOMAIN app.plugins, app.plugins[i].kind = "csrf"
      PROVE  CsrfAccepts(app.plugins[i].csrf, req)
  <2>1. PICK k \in 1..P : plugins[k] = app.plugins[i]
    BY <1>1, <1>2
  <2>2. DOMAIN pls = 1..P /\ pls[k] = PluginLayer(plugins[k], req)
    BY <1>2
  <2> HIDE DEF pls
  <2>3. pls[k].kind = "next"
    BY <1>1, <1>4, <2>2, StackAnswers
  <2> QED
    BY <1>4, <2>1, <2>2, <2>3, CsrfLayerAsks
<1>5. ASSUME b.kind # "next"
      PROVE  /\ b.by \in {"static", "csrf"}
             /\ b.by = "static" => /\ req.method \in {"GET", "HEAD"}
                                   /\ \E i \in DOMAIN app.plugins : /\ app.plugins[i].kind = "static"
                                                                   /\ req.path \in app.plugins[i].files
  <2>1. DOMAIN pls = 1..P /\ \A i \in 1..P : pls[i] = PluginLayer(plugins[i], req)
    BY <1>2
  <2> HIDE DEF pls
  <2>2. PICK i \in 1..P : AnswersFirst(pls, i)
    BY <1>1, <1>5, <2>1, AStackAnswers
  <2>3. b = PluginLayer(plugins[i], req)
    BY <2>1, <2>2 DEF AnswersFirst
  <2>4. PICK j \in 1..P : plugins[i] = app.plugins[j]
    BY <1>2
  <2> HIDE DEF b
  <2> QED
    BY <1>1, <1>5, <2>3, <2>4, PluginsAnswerAsThemselves
<1>6. ASSUME c.kind # "next"
      PROVE  \E i \in DOMAIN app.routes : AnswersFirst(rls, i) /\ c = RouteLayer(app, app.routes[i], req)
  <2>1. DOMAIN rls = 1..R /\ \A i \in 1..R : rls[i] = RouteLayer(app, app.routes[i], req)
    BY <1>1
  <2> HIDE DEF rls
  <2>2. PICK i \in 1..R : AnswersFirst(rls, i)
    BY <1>1, <1>6, <2>1, AStackAnswers
  <2> QED
    BY <1>1, <2>1, <2>2 DEF AnswersFirst
<1>7. ASSUME c.kind # "next"
      PROVE  /\ c.by \in Names \cup {"principal", "guard", "authorize", "validation", "handler"}
             /\ c.by = "handler" => \E i \in matching : Guarded(i)
  <2>1. PICK i \in DOMAIN app.routes : c = RouteLayer(app, app.routes[i], req)
    BY <1>6, <1>7
  <2>2. Routable(app.routes[i], Names)
    BY <1>1
  <2> HIDE DEF c
  <2> QED
    BY <1>7, <2>1, <2>2, RoutesAnswer
<1>8. c.kind = "next" => matching = {}
  <2>1. ASSUME c.kind = "next", NEW i \in DOMAIN app.routes PROVE ~Matches(app.routes[i], req)
    <3>1. DOMAIN rls = 1..R /\ rls[i] = RouteLayer(app, app.routes[i], req)
      BY <1>1
    <3> HIDE DEF rls
    <3>2. rls[i].kind = "next"
      BY <1>1, <2>1, <3>1, StackAnswers
    <3>3. Routable(app.routes[i], Names)
      BY <1>1
    <3>4. RouteLayer(app, app.routes[i], req).kind = "next"
      BY <3>1, <3>2
    <3> QED
      BY <3>3, <3>4, UnmatchedRoutesPass
  <2> QED
    BY <2>1
<1>9. ASSUME e.kind # "next" PROVE e.by = "spa" /\ req.method = "GET"
  <2>1. DOMAIN els = 1..P /\ \A i \in 1..P : els[i] = Terminal(plugins[i], req)
    BY <1>2
  <2> HIDE DEF els
  <2>2. PICK i \in 1..P : AnswersFirst(els, i)
    BY <1>1, <1>9, <2>1, AStackAnswers
  <2>3. e = Terminal(plugins[i], req)
    BY <2>1, <2>2 DEF AnswersFirst
  <2> HIDE DEF e
  <2> QED
    BY <1>9, <2>3, FallbacksAnswerAsThemselves
<1>10. /\ a.kind # "next" => a.by = "body"
       /\ a.kind = "next" <=> ~req.malformedBody
       /\ d.kind # "next" => d.by = "health"
       /\ f.by = "404" /\ f.kind # "next" /\ f.kind = "throw" /\ f.status = 404
  BY DEF Throw, Pass, Health, Answer
<1> DEFINE response == Respond(app, first)
<1>11. /\ response.by = first.by
       /\ first.by = "404" /\ first.kind = "throw" /\ first.status = 404 => response.status = 404
       /\ app.mode = "production" =>
            ~response.stack /\ (response.status = 500 /\ first.kind = "throw" => ~response.message)
  <2> DEFINE api == first.by # "body" /\ first.status \in ApiErrors
  <2> HIDE DEF first
  <2>1. CASE first.kind = "throw"
    <3>1. response = [by |-> first.by, status |-> IF api THEN first.status ELSE 500,
                      message |-> api \/ app.mode # "production", stack |-> app.mode # "production"]
      BY <2>1 DEF Respond, ErrorHandler
    <3>2. 404 \in ApiErrors /\ 500 \notin ApiErrors
      BY DEF ApiErrors
    <3>3. ASSUME app.mode = "production" PROVE ~response.stack /\ (response.status = 500 => ~response.message)
      <4>1. response.stack <=> app.mode # "production"
        BY <2>1 DEF Respond, ErrorHandler
      <4>2. ASSUME ~api PROVE ~response.message
        <5>1. ErrorHandler(app, first).message <=> api \/ app.mode # "production"
          BY DEF ErrorHandler
        <5> HIDE DEF api
        <5> QED
          BY <2>1, <3>3, <4>2, <5>1 DEF Respond
      <4>3. response.status = IF api THEN first.status ELSE 500
        BY <3>1
      <4> HIDE DEF response
      <4> QED
        BY <3>2, <3>3, <4>1, <4>2, <4>3
    <3>4. response.by = first.by /\ (api => response.status = first.status)
      BY <3>1
    <3> HIDE DEF response
    <3> QED
      BY <3>2, <3>3, <3>4
  <2>2. CASE first.kind # "throw"
    BY <2>2 DEF Respond
  <2> QED
    BY <2>1, <2>2
<1>12. Names \cap {"body", "static", "csrf", "handler", "health", "spa", "404"} = {}
  BY DEF OwnNames
<1> HIDE DEF a, b, c, d, e, f, first, response, matching
<1>13. /\ first.by = "handler" =>
            /\ ~req.malformedBody /\ b.kind = "next" /\ c.kind # "next" /\ first = c /\ c.by = "handler"
       /\ first.by = "static" => b.kind # "next" /\ b.by = "static"
       /\ first.by = "spa" => e.kind # "next"
       /\ matching # {} => first.by \notin {"spa", "health", "404"}
       /\ first.by = "404" => matching = {} /\ first = f
  BY <1>3, <1>5, <1>7, <1>8, <1>9, <1>10, <1>12
<1>14. ASSUME response.by = "handler"
       PROVE  /\ ~req.malformedBody
              /\ \A i \in DOMAIN app.plugins : app.plugins[i].kind = "csrf" => CsrfAccepts(app.plugins[i].csrf, req)
              /\ \E i \in matching :
                   LET route == app.routes[i]
                   IN /\ \A j \in DOMAIN route.middleware : route.middleware[j].kind = "next"
                      /\ HandlerIsGuarded(app, route, req, first)
  <2>1. PICK i \in matching : Guarded(i)
    BY <1>7, <1>11, <1>13, <1>14
  <2> QED
    BY <1>4, <1>11, <1>13, <1>14, <2>1
<1>15. /\ response.by = "static" => /\ req.method \in {"GET", "HEAD"}
                                    /\ \E i \in DOMAIN app.plugins : /\ app.plugins[i].kind = "static"
                                                                    /\ req.path \in app.plugins[i].files
       /\ response.by = "spa" => req.method \in {"GET", "HEAD"}
       /\ matching # {} => response.by \notin {"spa", "health", "404"}
       /\ response.by = "404" => matching = {} /\ response.status = 404
  BY <1>5, <1>9, <1>10, <1>11, <1>13
<1> QED
  BY <1>11, <1>14, <1>15 DEF RequestIsHandled, HandlerIsGuarded, response, first, matching

-----------------------------------------------------------------------------
(* What an identity provider says, and what is granted for it.             *)

\* A list with one more value.
LEMMA OneMoreValue ==
  ASSUME NEW V, NEW t \in Seq(V), NEW v \in V
  PROVE  /\ Append(t, v) \in Seq(V) /\ ToSet(Append(t, v)) = ToSet(t) \cup {v}
         /\ IsInjective(t) /\ v \notin ToSet(t) => IsInjective(Append(t, v))
<1> DEFINE L == Len(t)
           u == Append(t, v)
<1>1. /\ L \in Nat /\ u \in Seq(V) /\ DOMAIN t = 1..L /\ DOMAIN u = 1..(L + 1) /\ u[L + 1] = v
      /\ \A i \in 1..L : u[i] = t[i]
  OBVIOUS
<1> HIDE DEF L, u
<1>2. 1..(L + 1) = 1..L \cup {L + 1} /\ L + 1 \notin 1..L
  BY <1>1
<1>3. ToSet(u) = ToSet(t) \cup {v}
  BY <1>1, <1>2 DEF ToSet
<1>4. ASSUME IsInjective(t), v \notin ToSet(t) PROVE IsInjective(u)
  <2>1. ASSUME NEW i \in 1..(L + 1), NEW j \in 1..(L + 1), u[i] = u[j] PROVE i = j
    <3>1. \A k \in 1..L : t[k] # v
      BY <1>1, <1>4 DEF ToSet
    <3>2. \A a, b \in 1..L : t[a] = t[b] => a = b
      BY <1>1, <1>4 DEF IsInjective
    <3> QED
      BY <1>1, <1>2, <2>1, <3>1, <3>2
  <2> QED
    BY <1>1, <2>1 DEF IsInjective
<1> QED
  BY <1>1, <1>3, <1>4 DEF u

\* What is left of a list has every value of it but those that are dropped.
LEMMA WhatIsLeft ==
  ASSUME NEW V, NEW values \in Seq(V), NEW dropped
  PROVE  Without(values, dropped) \in Seq(V) /\ ToSet(Without(values, dropped)) = ToSet(values) \ dropped
<1> DEFINE L == Len(values)
           R == Seq(V)
           After(n, t) == IF values[n] \in dropped THEN t ELSE Append(t, values[n])
           step == [n \in 1..L |-> [t \in R |-> After(n, t)]]
           Is(f) == f = [n \in 0..L |-> IF n = 0 THEN <<>> ELSE After(n, f[n - 1])]
           left == CHOOSE g : Is(g)
           First(n) == {values[i] : i \in 1..n} \ dropped
<1>1. L \in Nat /\ <<>> \in R /\ DOMAIN values = 1..L
  OBVIOUS
<1>2. ASSUME NEW t \in R, NEW n \in 1..L
      PROVE  After(n, t) \in R /\ ToSet(After(n, t)) = ToSet(t) \cup ({values[n]} \ dropped)
  <2>1. values[n] \in V
    BY <1>1
  <2>2. ToSet(Append(t, values[n])) = ToSet(t) \cup {values[n]}
    BY <2>1, OneMoreValue
  <2> QED
    BY <2>1, <2>2
<1>3. Without(values, dropped) = left[L]
  BY DEF Without
<1> HIDE DEF R, L, After
<1>4. step \in [1..L -> [R -> R]] /\ \A n \in 1..L, t \in R : step[n][t] = After(n, t)
  BY <1>2
<1> HIDE DEF step
<1>5. PICK f \in [0..L -> R] : Follows(f, L, <<>>, step)
  BY <1>1, <1>4, RecursionExists
<1>6. Is(f)
  <2>1. ASSUME NEW n \in 0..L
        PROVE  f[n] = IF n = 0 THEN <<>> ELSE After(n, f[n - 1])
    <3>1. n # 0 => n \in 1..L /\ n - 1 \in 0..L
      BY <1>1
    <3> QED
      BY <1>4, <1>5, <3>1 DEF Follows
  <2> QED
    BY <2>1
<1>7. Is(left)
  <2> HIDE DEF Is
  <2> QED
    BY <1>6
<1> HIDE DEF left
<1>8. left[0] = <<>> /\ \A n \in 1..L : left[n] = After(n, left[n - 1])
  <2>1. 0 \in 0..L /\ \A n \in 1..L : n \in 0..L /\ n # 0
    BY <1>1
  <2> QED
    BY <1>7, <2>1
<1> HIDE DEF Is
<1> DEFINE P == {n \in 0..L : left[n] \in R /\ ToSet(left[n]) = First(n)}
<1>9. 0 \in P
  <2>1. 0 \in 0..L /\ First(0) = {} /\ ToSet(<<>>) = {}
    BY <1>1 DEF ToSet
  <2> QED
    BY <1>1, <1>8, <2>1
<1>10. ASSUME NEW n \in 0..L, n < L, n \in P PROVE n + 1 \in P
  <2>1. n + 1 \in 1..L /\ n + 1 \in 0..L /\ (n + 1) - 1 = n
    BY <1>1, <1>10
  <2>2. left[n + 1] = After(n + 1, left[n])
    BY <1>8, <2>1
  <2>3. First(n + 1) = First(n) \cup ({values[n + 1]} \ dropped)
    <3>1. 1..(n + 1) = 1..n \cup {n + 1}
      BY <2>1
    <3> QED
      BY <3>1
  <2> QED
    BY <1>2, <1>10, <2>1, <2>2, <2>3
<1>11. L \in P
  <2> HIDE DEF P
  <2>1. 0..L \subseteq P
    BY <1>1, <1>9, <1>10, PositionInduction
  <2> QED
    BY <1>1, <2>1
<1>12. First(L) = ToSet(values) \ dropped
  BY <1>1 DEF ToSet
<1> QED
  BY <1>3, <1>11, <1>12 DEF R

\* A grant has each value once: those it had, and every string among the others.
LEMMA GrantsAreAppended ==
  ASSUME NEW V, NEW values \in Seq(V), NEW target \in Seq(V)
  PROVE  /\ AppendGrant(target, values) \in Seq(V)
         /\ ToSet(AppendGrant(target, values)) = ToSet(target) \cup (ToSet(values) \ {Foreign})
         /\ IsInjective(target) => IsInjective(AppendGrant(target, values))
<1> DEFINE L == Len(values)
           R == Seq(V)
           After(n, t) == IF values[n] = Foreign \/ values[n] \in ToSet(t) THEN t ELSE Append(t, values[n])
           step == [n \in 1..L |-> [t \in R |-> After(n, t)]]
           Is(f) == f = [n \in 0..L |-> IF n = 0 THEN target ELSE After(n, f[n - 1])]
           after == CHOOSE g : Is(g)
           First(n) == {values[i] : i \in 1..n} \ {Foreign}
<1>1. L \in Nat /\ target \in R /\ DOMAIN values = 1..L
  OBVIOUS
<1>2. ASSUME NEW t \in R, NEW n \in 1..L
      PROVE  /\ After(n, t) \in R /\ ToSet(After(n, t)) = ToSet(t) \cup ({values[n]} \ {Foreign})
             /\ IsInjective(t) => IsInjective(After(n, t))
  <2>1. values[n] \in V
    BY <1>1
  <2>2. /\ Append(t, values[n]) \in R /\ ToSet(Append(t, values[n])) = ToSet(t) \cup {values[n]}
        /\ IsInjective(t) /\ values[n] \notin ToSet(t) => IsInjective(Append(t, values[n]))
    BY <2>1, OneMoreValue
  <2> QED
    BY <2>1, <2>2
<1>3. AppendGrant(target, values) = after[L]
  BY DEF AppendGrant
<1> HIDE DEF R, L, After
<1>4. step \in [1..L -> [R -> R]] /\ \A n \in 1..L, t \in R : step[n][t] = After(n, t)
  BY <1>2
<1> HIDE DEF step
<1>5. PICK f \in [0..L -> R] : Follows(f, L, target, step)
  BY <1>1, <1>4, RecursionExists
<1>6. Is(f)
  <2>1. ASSUME NEW n \in 0..L
        PROVE  f[n] = IF n = 0 THEN target ELSE After(n, f[n - 1])
    <3>1. n # 0 => n \in 1..L /\ n - 1 \in 0..L
      BY <1>1
    <3> QED
      BY <1>4, <1>5, <3>1 DEF Follows
  <2> QED
    BY <2>1
<1>7. Is(after)
  <2> HIDE DEF Is
  <2> QED
    BY <1>6
<1> HIDE DEF after
<1>8. after[0] = target /\ \A n \in 1..L : after[n] = After(n, after[n - 1])
  <2>1. 0 \in 0..L /\ \A n \in 1..L : n \in 0..L /\ n # 0
    BY <1>1
  <2> QED
    BY <1>7, <2>1
<1> HIDE DEF Is
<1> DEFINE P == {n \in 0..L : /\ after[n] \in R /\ ToSet(after[n]) = ToSet(target) \cup First(n)
                              /\ IsInjective(target) => IsInjective(after[n])}
<1>9. 0 \in P
  <2>1. 0 \in 0..L /\ First(0) = {}
    BY <1>1
  <2> QED
    BY <1>1, <1>8, <2>1
<1>10. ASSUME NEW n \in 0..L, n < L, n \in P PROVE n + 1 \in P
  <2>1. n + 1 \in 1..L /\ n + 1 \in 0..L /\ (n + 1) - 1 = n
    BY <1>1, <1>10
  <2>2. after[n + 1] = After(n + 1, after[n])
    BY <1>8, <2>1
  <2>3. First(n + 1) = First(n) \cup ({values[n + 1]} \ {Foreign})
    <3>1. 1..(n + 1) = 1..n \cup {n + 1}
      BY <2>1
    <3> QED
      BY <3>1
  <2> HIDE DEF First
  <2> QED
    BY <1>2, <1>10, <2>1, <2>2, <2>3
<1>11. L \in P
  <2> HIDE DEF P
  <2>1. 0..L \subseteq P
    BY <1>1, <1>9, <1>10, PositionInduction
  <2> QED
    BY <1>1, <2>1
<1>12. First(L) = ToSet(values) \ {Foreign}
  BY <1>1 DEF ToSet
<1> QED
  BY <1>3, <1>11, <1>12 DEF R

\* Keys, an application's map of them and its list of what passes by itself; a grant in the making.
ClaimKeys(Sources, Texts) == [source : Sources, value : Texts]
Entries(Texts) == [roles : Seq(Texts \cup {Foreign}), permissions : Seq(Texts \cup {Foreign})]
IsMap(map, Texts) == \A k \in DOMAIN map : map[k] \in Entries(Texts)
Lists(Texts) == [roles : SUBSET Texts, permissions : SUBSET Texts]

\* So many keys are good for what each of them is good for.
AddUp(K1, K2, map, allowed) ==
    /\ RolesOf(K1 \cup K2, map, allowed) = RolesOf(K1, map, allowed) \cup RolesOf(K2, map, allowed)
    /\ PermissionsOf(K1 \cup K2, map, allowed) = PermissionsOf(K1, map, allowed) \cup PermissionsOf(K2, map, allowed)

LEMMA KeysAddUp ==
  ASSUME NEW K1, NEW K2, NEW map, NEW allowed
  PROVE  AddUp(K1, K2, map, allowed)
<1>1. MappedRoles(K1 \cup K2, map) = MappedRoles(K1, map) \cup MappedRoles(K2, map)
  BY DEF MappedRoles
<1>2. PassingRoles(K1 \cup K2, map, allowed) = PassingRoles(K1, map, allowed) \cup PassingRoles(K2, map, allowed)
  BY DEF PassingRoles
<1>3. MappedPermissions(K1 \cup K2, map) = MappedPermissions(K1, map) \cup MappedPermissions(K2, map)
  BY DEF MappedPermissions
<1>4. PassingPermissions(K1 \cup K2, map, allowed)
        = PassingPermissions(K1, map, allowed) \cup PassingPermissions(K2, map, allowed)
  BY DEF PassingPermissions
<1> QED
  BY <1>1, <1>2, <1>3, <1>4 DEF RolesOf, PermissionsOf, AddUp

\* One key adds what it is good for.
LEMMA OneKeyGrants ==
  ASSUME NEW Sources, NEW Texts, Foreign \notin Texts, NEW map, IsMap(map, Texts), NEW allowed \in Lists(Texts),
         NEW key \in ClaimKeys(Sources, Texts), NEW so \in Entries(Texts)
  PROVE  /\ Granted(map, allowed, key, so) \in Entries(Texts)
         /\ ToSet(Granted(map, allowed, key, so).roles) = ToSet(so.roles) \cup RolesOf({key}, map, allowed)
         /\ ToSet(Granted(map, allowed, key, so).permissions) = ToSet(so.permissions) \cup PermissionsOf({key}, map, allowed)
         /\ IsInjective(so.roles) => IsInjective(Granted(map, allowed, key, so).roles)
         /\ IsInjective(so.permissions) => IsInjective(Granted(map, allowed, key, so).permissions)
<1> DEFINE V == Texts \cup {Foreign}
           granted == Granted(map, allowed, key, so)
<1>1. /\ so.roles \in Seq(V) /\ so.permissions \in Seq(V) /\ key.value \in Texts
      /\ so = [roles |-> so.roles, permissions |-> so.permissions]
  BY DEF Entries, ClaimKeys
<1>2. CASE key \in DOMAIN map
  <2>1. map[key].roles \in Seq(V) /\ map[key].permissions \in Seq(V)
    BY <1>2 DEF IsMap, Entries
  <2>2. granted = [roles |-> AppendGrant(so.roles, map[key].roles),
                   permissions |-> AppendGrant(so.permissions, map[key].permissions)]
    BY <1>2 DEF Granted
  <2>3. RolesOf({key}, map, allowed) = ToSet(map[key].roles) \ {Foreign}
    <3>1. MappedRoles({key}, map) = ToSet(Strings(map[key].roles))
      BY <1>2 DEF MappedRoles
    <3>2. PassingRoles({key}, map, allowed) = {}
      BY <1>2 DEF PassingRoles
    <3>3. ToSet(Strings(map[key].roles)) = ToSet(map[key].roles) \ {Foreign}
      <4> HIDE DEF V
      <4> QED
        BY <2>1, WhatIsLeft DEF Strings
    <3> QED
      BY <3>1, <3>2, <3>3 DEF RolesOf
  <2>4. PermissionsOf({key}, map, allowed) = ToSet(map[key].permissions) \ {Foreign}
    <3>1. MappedPermissions({key}, map) = ToSet(Strings(map[key].permissions))
      BY <1>2 DEF MappedPermissions
    <3>2. PassingPermissions({key}, map, allowed) = {}
      BY <1>2 DEF PassingPermissions
    <3>3. ToSet(Strings(map[key].permissions)) = ToSet(map[key].permissions) \ {Foreign}
      <4> HIDE DEF V
      <4> QED
        BY <2>1, WhatIsLeft DEF Strings
    <3> QED
      BY <3>1, <3>2, <3>3 DEF PermissionsOf
  <2>5. /\ granted.roles = AppendGrant(so.roles, map[key].roles)
        /\ granted.permissions = AppendGrant(so.permissions, map[key].permissions)
    BY <2>2
  <2>6. /\ AppendGrant(so.roles, map[key].roles) \in Seq(V)
        /\ ToSet(AppendGrant(so.roles, map[key].roles)) = ToSet(so.roles) \cup RolesOf({key}, map, allowed)
        /\ IsInjective(so.roles) => IsInjective(AppendGrant(so.roles, map[key].roles))
    BY <1>1, <2>1, <2>3, GrantsAreAppended
  <2>7. /\ AppendGrant(so.permissions, map[key].permissions) \in Seq(V)
        /\ ToSet(AppendGrant(so.permissions, map[key].permissions))
             = ToSet(so.permissions) \cup PermissionsOf({key}, map, allowed)
        /\ IsInjective(so.permissions) => IsInjective(AppendGrant(so.permissions, map[key].permissions))
    BY <1>1, <2>1, <2>4, GrantsAreAppended
  <2>8. granted \in Entries(Texts)
    BY <2>2, <2>6, <2>7 DEF Entries
  <2> QED
    BY <2>5, <2>6, <2>7, <2>8
<1>3. CASE key \notin DOMAIN map
  <2> DEFINE passesRole == key.source = "role" /\ key.value \in allowed.roles
             passesPermission == key.source = "permission" /\ key.value \in allowed.permissions
             roles == IF passesRole THEN AppendGrant(so.roles, <<key.value>>) ELSE so.roles
             permissions == IF passesPermission THEN AppendGrant(so.permissions, <<key.value>>) ELSE so.permissions
  <2>1. granted = [roles |-> roles, permissions |-> permissions]
    BY <1>3 DEF Granted
  <2>2. RolesOf({key}, map, allowed) = IF passesRole THEN {key.value} ELSE {}
    <3>1. MappedRoles({key}, map) = {}
      BY <1>3 DEF MappedRoles
    <3>2. PassingRoles({key}, map, allowed) = IF passesRole THEN {key.value} ELSE {}
      BY <1>3 DEF PassingRoles
    <3> QED
      BY <3>1, <3>2 DEF RolesOf
  <2>3. PermissionsOf({key}, map, allowed) = IF passesPermission THEN {key.value} ELSE {}
    <3>1. MappedPermissions({key}, map) = {}
      BY <1>3 DEF MappedPermissions
    <3>2. PassingPermissions({key}, map, allowed) = IF passesPermission THEN {key.value} ELSE {}
      BY <1>3 DEF PassingPermissions
    <3> QED
      BY <3>1, <3>2 DEF PermissionsOf
  <2>4. <<key.value>> \in Seq(V) /\ ToSet(<<key.value>>) \ {Foreign} = {key.value}
    <3>1. <<key.value>> \in Seq(V)
      BY <1>1
    <3>2. key.value # Foreign
      BY <1>1
    <3>3. DOMAIN <<key.value>> = {1} /\ <<key.value>>[1] = key.value
      OBVIOUS
    <3>4. ToSet(<<key.value>>) = {key.value}
      BY <3>3 DEF ToSet
    <3> QED
      BY <3>1, <3>2, <3>4
  <2>5. /\ roles \in Seq(V) /\ ToSet(roles) = ToSet(so.roles) \cup RolesOf({key}, map, allowed)
        /\ IsInjective(so.roles) => IsInjective(roles)
    <3>1. /\ AppendGrant(so.roles, <<key.value>>) \in Seq(V)
          /\ ToSet(AppendGrant(so.roles, <<key.value>>)) = ToSet(so.roles) \cup {key.value}
          /\ IsInjective(so.roles) => IsInjective(AppendGrant(so.roles, <<key.value>>))
      BY <1>1, <2>4, GrantsAreAppended
    <3> QED
      BY <1>1, <2>2, <3>1
  <2>6. /\ permissions \in Seq(V) /\ ToSet(permissions) = ToSet(so.permissions) \cup PermissionsOf({key}, map, allowed)
        /\ IsInjective(so.permissions) => IsInjective(permissions)
    <3>1. /\ AppendGrant(so.permissions, <<key.value>>) \in Seq(V)
          /\ ToSet(AppendGrant(so.permissions, <<key.value>>)) = ToSet(so.permissions) \cup {key.value}
          /\ IsInjective(so.permissions) => IsInjective(AppendGrant(so.permissions, <<key.value>>))
      BY <1>1, <2>4, GrantsAreAppended
    <3> QED
      BY <1>1, <2>3, <3>1
  <2> HIDE DEF roles, permissions
  <2>7. granted.roles = roles /\ granted.permissions = permissions /\ granted \in Entries(Texts)
    BY <2>1, <2>5, <2>6 DEF Entries
  <2> QED
    BY <2>5, <2>6, <2>7
<1> QED
  BY <1>2, <1>3

\* A list of keys grants what they are good for, each once.
LEMMA KeysAreResolved ==
  ASSUME NEW Sources, NEW Texts, Foreign \notin Texts, NEW map, IsMap(map, Texts), NEW allowed \in Lists(Texts),
         NEW keys \in Seq(ClaimKeys(Sources, Texts))
  PROVE  /\ ResolveGrants(keys, map, allowed) \in Entries(Texts)
         /\ ToSet(ResolveGrants(keys, map, allowed).roles) = RolesOf(ToSet(keys), map, allowed)
         /\ ToSet(ResolveGrants(keys, map, allowed).permissions) = PermissionsOf(ToSet(keys), map, allowed)
         /\ IsInjective(ResolveGrants(keys, map, allowed).roles)
         /\ IsInjective(ResolveGrants(keys, map, allowed).permissions)
<1> DEFINE L == Len(keys)
           R == Entries(Texts)
           none == [roles |-> <<>>, permissions |-> <<>>]
           After(n, t) == Granted(map, allowed, keys[n], t)
           step == [n \in 1..L |-> [t \in R |-> After(n, t)]]
           Is(f) == f = [n \in 0..L |-> IF n = 0 THEN none ELSE After(n, f[n - 1])]
           after == CHOOSE g : Is(g)
           First(n) == {keys[i] : i \in 1..n}
           Good(n, t) == /\ ToSet(t.roles) = RolesOf(First(n), map, allowed)
                         /\ ToSet(t.permissions) = PermissionsOf(First(n), map, allowed)
                         /\ IsInjective(t.roles) /\ IsInjective(t.permissions)
<1>1. L \in Nat /\ none \in R /\ DOMAIN keys = 1..L /\ none.roles = <<>> /\ none.permissions = <<>>
  BY DEF Entries
<1>2. ASSUME NEW t \in R, NEW n \in 1..L
      PROVE  /\ After(n, t) \in R
             /\ ToSet(After(n, t).roles) = ToSet(t.roles) \cup RolesOf({keys[n]}, map, allowed)
             /\ ToSet(After(n, t).permissions) = ToSet(t.permissions) \cup PermissionsOf({keys[n]}, map, allowed)
             /\ IsInjective(t.roles) => IsInjective(After(n, t).roles)
             /\ IsInjective(t.permissions) => IsInjective(After(n, t).permissions)
  <2>1. keys[n] \in ClaimKeys(Sources, Texts)
    BY <1>1
  <2> QED
    BY <2>1, OneKeyGrants
<1>3. ResolveGrants(keys, map, allowed) = after[L]
  BY DEF ResolveGrants
<1> HIDE DEF R, L, After, none
<1>4. step \in [1..L -> [R -> R]] /\ \A n \in 1..L, t \in R : step[n][t] = After(n, t)
  BY <1>2
<1> HIDE DEF step
<1>5. PICK f \in [0..L -> R] : Follows(f, L, none, step)
  BY <1>1, <1>4, RecursionExists
<1>6. Is(f)
  <2>1. ASSUME NEW n \in 0..L
        PROVE  f[n] = IF n = 0 THEN none ELSE After(n, f[n - 1])
    <3>1. n # 0 => n \in 1..L /\ n - 1 \in 0..L
      BY <1>1
    <3> QED
      BY <1>4, <1>5, <3>1 DEF Follows
  <2> QED
    BY <2>1
<1>7. Is(after)
  <2> HIDE DEF Is
  <2> QED
    BY <1>6
<1> HIDE DEF after
<1>8. after[0] = none /\ \A n \in 1..L : after[n] = After(n, after[n - 1])
  <2>1. 0 \in 0..L /\ \A n \in 1..L : n \in 0..L /\ n # 0
    BY <1>1
  <2> QED
    BY <1>7, <2>1
<1> HIDE DEF Is
<1> DEFINE P == {n \in 0..L : after[n] \in R /\ Good(n, after[n])}
<1>9. 0 \in P
  <2>1. 0 \in 0..L /\ First(0) = {}
    BY <1>1
  <2>2. RolesOf({}, map, allowed) = {} /\ PermissionsOf({}, map, allowed) = {}
    BY DEF RolesOf, PermissionsOf, MappedRoles, MappedPermissions, PassingRoles, PassingPermissions
  <2>3. ToSet(<<>>) = {} /\ IsInjective(<<>>)
    BY DEF ToSet, IsInjective
  <2> HIDE DEF First
  <2> QED
    BY <1>1, <1>8, <2>1, <2>2, <2>3
<1>10. ASSUME NEW n \in 0..L, n < L, n \in P PROVE n + 1 \in P
  <2>1. n + 1 \in 1..L /\ n + 1 \in 0..L /\ (n + 1) - 1 = n
    BY <1>1, <1>10
  <2>2. after[n + 1] = After(n + 1, after[n])
    BY <1>8, <2>1
  <2>3. First(n + 1) = First(n) \cup {keys[n + 1]}
    <3>1. 1..(n + 1) = 1..n \cup {n + 1}
      BY <2>1
    <3> QED
      BY <3>1
  <2> HIDE DEF First
  <2>4. /\ RolesOf(First(n + 1), map, allowed) = RolesOf(First(n), map, allowed) \cup RolesOf({keys[n + 1]}, map, allowed)
        /\ PermissionsOf(First(n + 1), map, allowed)
             = PermissionsOf(First(n), map, allowed) \cup PermissionsOf({keys[n + 1]}, map, allowed)
    <3> DEFINE K1 == First(n)
               K2 == {keys[n + 1]}
    <3>1. First(n + 1) = K1 \cup K2
      BY <2>3
    <3> HIDE DEF K1, K2
    <3>2. AddUp(K1, K2, map, allowed)
      BY KeysAddUp
    <3> QED
      BY <3>1, <3>2 DEF AddUp, K1, K2
  <2> QED
    BY <1>2, <1>10, <2>1, <2>2, <2>4
<1>11. L \in P
  <2> HIDE DEF P
  <2>1. 0..L \subseteq P
    BY <1>1, <1>9, <1>10, PositionInduction
  <2> QED
    BY <1>1, <2>1
<1>12. First(L) = ToSet(keys)
  BY <1>1 DEF ToSet
<1> HIDE DEF First, after
<1> QED
  BY <1>3, <1>11, <1>12 DEF R

\* Lists of the same keys grant the same.
SameGrants(keys1, keys2, map, allowed) ==
    /\ ToSet(ResolveGrants(keys1, map, allowed).roles) = ToSet(ResolveGrants(keys2, map, allowed).roles)
    /\ ToSet(ResolveGrants(keys1, map, allowed).permissions) = ToSet(ResolveGrants(keys2, map, allowed).permissions)

\* A key that is reported is good for nothing.
LEMMA ReportedKeysGrantNothing ==
  ASSUME NEW Sources, NEW Texts, Foreign \notin Texts, NEW map, IsMap(map, Texts), NEW allowed \in Lists(Texts),
         NEW keys \in Seq(ClaimKeys(Sources, Texts))
  PROVE  SameGrants(Without(keys, Unmapped(keys, map, allowed)), keys, map, allowed)
<1> DEFINE reported == Unmapped(keys, map, allowed)
           left == Without(keys, reported)
           K == ToSet(keys)
           lost == K \cap reported
<1>0. left \in Seq(ClaimKeys(Sources, Texts))
  BY WhatIsLeft
<1>1. ToSet(left) = K \ reported
  BY WhatIsLeft
<1>2. K = ToSet(left) \cup lost
  BY <1>1
<1>3. MappedRoles(lost, map) = {} /\ MappedPermissions(lost, map) = {}
  BY DEF MappedRoles, MappedPermissions, Unmapped
<1>4. PassingRoles(lost, map, allowed) = {} /\ PassingPermissions(lost, map, allowed) = {}
  BY DEF PassingRoles, PassingPermissions, Unmapped, IsAllowedCanonical
<1>5. RolesOf(lost, map, allowed) = {} /\ PermissionsOf(lost, map, allowed) = {}
  <2> HIDE DEF lost
  <2> QED
    BY <1>3, <1>4 DEF RolesOf, PermissionsOf
<1> DEFINE K1 == ToSet(left)
<1> HIDE DEF lost, K1, left, K
<1>6. AddUp(K1, lost, map, allowed)
  BY KeysAddUp
<1>7. RolesOf(K, map, allowed) = RolesOf(K1, map, allowed) /\ PermissionsOf(K, map, allowed) = PermissionsOf(K1, map, allowed)
  BY <1>2, <1>5, <1>6 DEF AddUp, K1
<1>8. /\ ToSet(ResolveGrants(keys, map, allowed).roles) = RolesOf(K, map, allowed)
      /\ ToSet(ResolveGrants(keys, map, allowed).permissions) = PermissionsOf(K, map, allowed)
  BY KeysAreResolved DEF K
<1>9. /\ ToSet(ResolveGrants(left, map, allowed).roles) = RolesOf(K1, map, allowed)
      /\ ToSet(ResolveGrants(left, map, allowed).permissions) = PermissionsOf(K1, map, allowed)
  BY <1>0, KeysAreResolved DEF K1
<1> QED
  BY <1>7, <1>8, <1>9 DEF SameGrants, left

\* However an application maps claims: a grant comes from its map or from its list of what passes by
\* itself, an entry of the map overrules that list, neither order nor repetition matters, what granted
\* nothing is reported, and one more claim takes nothing away (resolveGrants and createClaimsTranslator
\* in translation.ts).
THEOREM GrantsAreAlwaysEarned ==
  ASSUME NEW Sources, NEW Texts, Foreign \notin Texts, NEW map, IsMap(map, Texts), NEW allowed \in Lists(Texts),
         NEW keys \in Seq(ClaimKeys(Sources, Texts))
  PROVE  GrantsAreEarned(keys, map, allowed)
<1> DEFINE C == ClaimKeys(Sources, Texts)
           granted == ResolveGrants(keys, map, allowed)
           reported == Unmapped(keys, map, allowed)
           mapped == ToSet(keys) \cap DOMAIN map
           Sets(g) == [roles |-> ToSet(g.roles), permissions |-> ToSet(g.permissions)]
<1>1. /\ ToSet(granted.roles) = RolesOf(ToSet(keys), map, allowed)
      /\ ToSet(granted.permissions) = PermissionsOf(ToSet(keys), map, allowed)
      /\ IsInjective(granted.roles) /\ IsInjective(granted.permissions)
  BY KeysAreResolved
<1>2. Sets(ResolveGrants(Reverse(keys), map, allowed)) = Sets(granted)
  <2> DEFINE back == Reverse(keys)
  <2>1. back \in Seq(C)
    <3>1. back = [i \in 1..Len(keys) |-> keys[(Len(keys) - i) + 1]]
      BY DEF Reverse
    <3>2. \A i \in 1..Len(keys) : keys[(Len(keys) - i) + 1] \in C
      OBVIOUS
    <3>3. Len(keys) \in Nat
      OBVIOUS
    <3> HIDE DEF C
    <3> QED
      BY <3>1, <3>2, <3>3
  <2>2. ToSet(back) = ToSet(keys)
    <3>1. DOMAIN back = 1..Len(keys) /\ \A i \in 1..Len(keys) : back[i] = keys[(Len(keys) - i) + 1]
      BY DEF Reverse
    <3>2. DOMAIN keys = 1..Len(keys) /\ Len(keys) \in Nat
      OBVIOUS
    <3> HIDE DEF back
    <3>3. ASSUME NEW v \in ToSet(keys) PROVE v \in ToSet(back)
      <4>1. PICK i \in 1..Len(keys) : keys[i] = v
        BY <3>2 DEF ToSet
      <4>2. (Len(keys) - i) + 1 \in 1..Len(keys) /\ (Len(keys) - ((Len(keys) - i) + 1)) + 1 = i
        BY <3>2
      <4>3. back[(Len(keys) - i) + 1] = v
        BY <3>1, <4>1, <4>2
      <4> QED
        BY <3>1, <4>2, <4>3 DEF ToSet
    <3>4. ASSUME NEW v \in ToSet(back) PROVE v \in ToSet(keys)
      <4>1. PICK i \in 1..Len(keys) : back[i] = v
        BY <3>1 DEF ToSet
      <4>2. (Len(keys) - i) + 1 \in DOMAIN keys
        BY <3>2
      <4> QED
        BY <3>1, <4>1, <4>2 DEF ToSet
    <3> QED
      BY <3>3, <3>4
  <2>3. /\ ToSet(ResolveGrants(back, map, allowed).roles) = RolesOf(ToSet(back), map, allowed)
        /\ ToSet(ResolveGrants(back, map, allowed).permissions) = PermissionsOf(ToSet(back), map, allowed)
    <3> HIDE DEF back
    <3> QED
      BY <2>1, KeysAreResolved
  <2> QED
    BY <1>1, <2>2, <2>3
<1>3. reported \cap mapped = {}
  BY DEF Unmapped
<1>4. Sets(ResolveGrants(Without(keys, reported), map, allowed)) = Sets(granted)
  BY ReportedKeysGrantNothing DEF SameGrants
<1>5. ASSUME keys # <<>>
      PROVE  /\ Sets(ResolveGrants(Front(keys), map, allowed)).roles \subseteq ToSet(granted.roles)
             /\ Sets(ResolveGrants(Front(keys), map, allowed)).permissions \subseteq ToSet(granted.permissions)
             /\ Unmapped(<<Last(keys)>>, map, allowed) = {} \/ Last(keys) \in reported
  <2> DEFINE front == Front(keys)
             last == Last(keys)
             n == Len(keys)
             K1 == ToSet(front)
             K2 == {last}
  <2>1. n \in Nat \ {0} /\ DOMAIN keys = 1..n /\ last = keys[n] /\ n \in 1..n
    BY <1>5 DEF Last
  <2>2. front \in Seq(C) /\ DOMAIN front = 1..(n - 1) /\ \A i \in 1..(n - 1) : front[i] = keys[i]
    BY <1>5 DEF Front
  <2> HIDE DEF front, last, n
  <2>3. ToSet(keys) = K1 \cup K2
    <3>1. 1..n = 1..(n - 1) \cup {n}
      BY <2>1
    <3> QED
      BY <2>1, <2>2, <3>1 DEF ToSet
  <2>4. AddUp(K1, K2, map, allowed)
    BY KeysAddUp
  <2>5. /\ ToSet(ResolveGrants(front, map, allowed).roles) = RolesOf(K1, map, allowed)
        /\ ToSet(ResolveGrants(front, map, allowed).permissions) = PermissionsOf(K1, map, allowed)
    BY <2>2, KeysAreResolved
  <2>6. /\ RolesOf(K1, map, allowed) \subseteq RolesOf(ToSet(keys), map, allowed)
        /\ PermissionsOf(K1, map, allowed) \subseteq PermissionsOf(ToSet(keys), map, allowed)
    <3> HIDE DEF K1, K2
    <3> QED
      BY <2>3, <2>4 DEF AddUp
  <2>7. Unmapped(<<last>>, map, allowed) = {} \/ last \in reported
    <3>1. last \in ToSet(keys)
      BY <2>3
    <3>2. ToSet(<<last>>) = {last}
      BY DEF ToSet
    <3> QED
      BY <3>1, <3>2 DEF Unmapped
  <2> QED
    BY <1>1, <2>5, <2>6, <2>7 DEF front, last
<1> HIDE DEF granted, reported
<1> QED
  BY <1>1, <1>2, <1>3, <1>4, <1>5 DEF GrantsAreEarned, granted, reported

\* What a provider says: claims, each a list, a text or something else.
ClaimSources == {"role", "permission", "scp", "group"}
Said(Texts) ==
    {c \in [form : {"list", "text", "other"}, entries : Seq(Texts \cup {Foreign})] : c.form = "text" => c.entries \in Seq(Texts)}
ClaimSets(Texts) == UNION {[names -> Said(Texts)] : names \in SUBSET STRING}
Sayings(Texts) == [form : {"jwt", "opaque"}, claims : ClaimSets(Texts)]
Identities(Texts) ==
    [userInfo : ClaimSets(Texts), idTokenClaims : ClaimSets(Texts), accessTokenClaims : ClaimSets(Texts)]

\* Only strings are read.
LEMMA StringsAreRead ==
  ASSUME NEW Texts, Foreign \notin Texts, NEW claim \in Said(Texts)
  PROVE  /\ ReadStringArray(claim) \in Seq(Texts)
         /\ ToSet(ReadStringArray(claim)) = IF claim.form = "list" THEN ToSet(claim.entries) \ {Foreign} ELSE {}
<1> DEFINE left == Without(claim.entries, {Foreign})
           V == Texts \cup {Foreign}
<1>1. claim.entries \in Seq(V)
  BY DEF Said
<1>2. left \in Seq(V) /\ ToSet(left) = ToSet(claim.entries) \ {Foreign}
  <2> HIDE DEF V
  <2> QED
    BY <1>1, WhatIsLeft
<1> HIDE DEF left
<1>3. left \in Seq(Texts)
  <2>1. \A i \in DOMAIN left : left[i] \in Texts
    BY <1>2 DEF ToSet
  <2>2. Len(left) \in Nat /\ DOMAIN left = 1..Len(left)
    BY <1>2
  <2>3. left = [i \in 1..Len(left) |-> left[i]]
    BY <1>2
  <2> QED
    BY <2>1, <2>2, <2>3
<1>4. ToSet(<<>>) = {}
  BY DEF ToSet
<1>5. ReadStringArray(claim) = IF claim.form = "list" THEN left ELSE <<>>
  BY DEF ReadStringArray, Strings, left
<1>6. <<>> \in Seq(Texts)
  OBVIOUS
<1>7. CASE claim.form = "list"
  <2>1. ReadStringArray(claim) = left
    BY <1>5, <1>7
  <2> QED
    BY <1>2, <1>3, <1>7, <2>1, Zenon
<1>8. CASE claim.form # "list"
  <2>1. ReadStringArray(claim) = <<>>
    BY <1>5, <1>8
  <2> QED
    BY <1>4, <1>6, <1>8, <2>1, Zenon
<1> QED
  BY <1>7, <1>8

LEMMA ClaimsAreSaid ==
  ASSUME NEW Texts, NEW identity \in Identities(Texts), NEW name
  PROVE  MergedClaim(identity, name) \in Said(Texts)
<1>1. Absent \in Said(Texts)
  <2> DEFINE V == Texts \cup {Foreign}
  <2>1. \A v \in Seq(V) : [form |-> "other", entries |-> v] \in [form : {"list", "text", "other"}, entries : Seq(V)]
    OBVIOUS
  <2> HIDE DEF V
  <2>2. <<>> \in Seq(V)
    OBVIOUS
  <2> QED
    BY <2>1, <2>2 DEF Absent, Said, V
<1>2. ASSUME NEW claims \in ClaimSets(Texts), name \in DOMAIN claims PROVE claims[name] \in Said(Texts)
  BY <1>2 DEF ClaimSets
<1>3. /\ identity.userInfo \in ClaimSets(Texts) /\ identity.idTokenClaims \in ClaimSets(Texts)
      /\ identity.accessTokenClaims \in ClaimSets(Texts)
  BY DEF Identities
<1> QED
  BY <1>1, <1>2, <1>3 DEF MergedClaim

\* The keys of one source.
LEMMA KeysOfASource ==
  ASSUME NEW Texts, NEW values \in Seq(Texts), NEW source \in ClaimSources
  PROVE  /\ Keys(source, values) \in Seq(ClaimKeys(ClaimSources, Texts))
         /\ \A k \in ToSet(Keys(source, values)) : k.source = source
<1> DEFINE n == Len(values)
<1>1. n \in Nat /\ DOMAIN values = 1..n /\ \A i \in 1..n : values[i] \in Texts
  OBVIOUS
<1> HIDE DEF n
<1>2. Keys(source, values) = [i \in 1..n |-> [source |-> source, value |-> values[i]]]
  BY <1>1 DEF Keys
<1>3. \A i \in 1..n : [source |-> source, value |-> values[i]] \in ClaimKeys(ClaimSources, Texts)
  BY <1>1 DEF ClaimKeys
<1>4. \A i \in 1..n : [source |-> source, value |-> values[i]].source = source
  OBVIOUS
<1>5. Keys(source, values) \in Seq(ClaimKeys(ClaimSources, Texts))
  BY <1>1, <1>2, <1>3
<1>6. \A k \in ToSet(Keys(source, values)) : k.source = source
  BY <1>1, <1>2, <1>4 DEF ToSet
<1> QED
  BY <1>5, <1>6

LEMMA Together ==
  ASSUME NEW S, NEW s \in Seq(S), NEW t \in Seq(S)
  PROVE  s \o t \in Seq(S) /\ ToSet(s \o t) = ToSet(s) \cup ToSet(t)
<1> DEFINE m == Len(s)
           n == Len(t)
           u == s \o t
<1>1. /\ m \in Nat /\ n \in Nat /\ DOMAIN s = 1..m /\ DOMAIN t = 1..n /\ DOMAIN u = 1..(m + n) /\ u \in Seq(S)
      /\ \A i \in 1..(m + n) : u[i] = IF i <= m THEN s[i] ELSE t[i - m]
  OBVIOUS
<1> HIDE DEF m, n, u
<1>2. ASSUME NEW v \in ToSet(u) PROVE v \in ToSet(s) \cup ToSet(t)
  <2>1. PICK i \in 1..(m + n) : u[i] = v
    BY <1>1 DEF ToSet
  <2>2. (i <= m => i \in 1..m) /\ (~(i <= m) => i - m \in 1..n)
    BY <1>1
  <2> QED
    BY <1>1, <2>1, <2>2 DEF ToSet
<1>3. ASSUME NEW v \in ToSet(s) PROVE v \in ToSet(u)
  <2>1. PICK i \in 1..m : s[i] = v
    BY <1>1 DEF ToSet
  <2>2. i \in 1..(m + n) /\ i <= m
    BY <1>1
  <2> QED
    BY <1>1, <2>1, <2>2 DEF ToSet
<1>4. ASSUME NEW v \in ToSet(t) PROVE v \in ToSet(u)
  <2>1. PICK i \in 1..n : t[i] = v
    BY <1>1 DEF ToSet
  <2>2. m + i \in 1..(m + n) /\ ~(m + i <= m) /\ (m + i) - m = i
    BY <1>1
  <2> QED
    BY <1>1, <2>1, <2>2 DEF ToSet
<1> QED
  BY <1>1, <1>2, <1>3, <1>4 DEF u

\* The claims that the profiles read, and the keys that come of them.
RoleKeys(identity) == Keys("role", ReadStringArray(MergedClaim(identity, "roles")))
PermissionKeys(identity) == Keys("permission", ReadStringArray(MergedClaim(identity, "permissions")))
ScopeKeys(identity) ==
    Keys("scp", IF MergedClaim(identity, "scp").form = "text" THEN Without(MergedClaim(identity, "scp").entries, {""}) ELSE <<>>)
GroupKeys(identity) == Keys("group", ReadStringArray(MergedClaim(identity, "groups")))
From(list, source) == \A k \in ToSet(list) : k.source = source

LEMMA ProfilesMakeKeys ==
  ASSUME NEW Texts, Foreign \notin Texts, NEW identity \in Identities(Texts)
  PROVE  /\ GenericClaimsProfile(identity) \in Seq(ClaimKeys(ClaimSources, Texts))
         /\ AzureClaimsProfile(identity) \in Seq(ClaimKeys(ClaimSources, Texts))
         /\ ToSet(GenericClaimsProfile(identity)) = ToSet(RoleKeys(identity)) \cup ToSet(PermissionKeys(identity))
         /\ ToSet(AzureClaimsProfile(identity))
              = ToSet(RoleKeys(identity)) \cup ToSet(ScopeKeys(identity)) \cup ToSet(GroupKeys(identity))
         /\ From(RoleKeys(identity), "role") /\ From(PermissionKeys(identity), "permission")
         /\ From(ScopeKeys(identity), "scp") /\ From(GroupKeys(identity), "group")
<1> DEFINE C == ClaimKeys(ClaimSources, Texts)
           scp == MergedClaim(identity, "scp")
           scopes == IF scp.form = "text" THEN Without(scp.entries, {""}) ELSE <<>>
<1>1. \A name : ReadStringArray(MergedClaim(identity, name)) \in Seq(Texts)
  BY ClaimsAreSaid, StringsAreRead
<1>2. scopes \in Seq(Texts)
  <2>1. scp.form = "text" => scp.entries \in Seq(Texts)
    BY ClaimsAreSaid DEF Said
  <2> HIDE DEF scp
  <2>2. scp.form = "text" => Without(scp.entries, {""}) \in Seq(Texts)
    BY <2>1, WhatIsLeft
  <2>3. <<>> \in Seq(Texts)
    OBVIOUS
  <2> QED
    BY <2>2, <2>3
<1>3. /\ RoleKeys(identity) \in Seq(C) /\ PermissionKeys(identity) \in Seq(C) /\ GroupKeys(identity) \in Seq(C)
      /\ From(RoleKeys(identity), "role") /\ From(PermissionKeys(identity), "permission")
      /\ From(GroupKeys(identity), "group")
  <2>1. "role" \in ClaimSources /\ "permission" \in ClaimSources /\ "group" \in ClaimSources
    BY DEF ClaimSources
  <2> QED
    BY <1>1, <2>1, KeysOfASource DEF RoleKeys, PermissionKeys, GroupKeys, From
<1>4. ScopeKeys(identity) \in Seq(C) /\ From(ScopeKeys(identity), "scp")
  <2>1. ScopeKeys(identity) = Keys("scp", scopes) /\ "scp" \in ClaimSources
    BY DEF ScopeKeys, ClaimSources
  <2> HIDE DEF scopes
  <2> QED
    BY <1>2, <2>1, KeysOfASource DEF From
<1>5. GenericClaimsProfile(identity) = RoleKeys(identity) \o PermissionKeys(identity)
  BY DEF GenericClaimsProfile, RoleKeys, PermissionKeys
<1>6. AzureClaimsProfile(identity) = RoleKeys(identity) \o ScopeKeys(identity) \o GroupKeys(identity)
  BY DEF AzureClaimsProfile, RoleKeys, ScopeKeys, GroupKeys
<1> HIDE DEF C
<1>7. /\ GenericClaimsProfile(identity) \in Seq(C)
      /\ ToSet(GenericClaimsProfile(identity)) = ToSet(RoleKeys(identity)) \cup ToSet(PermissionKeys(identity))
  BY <1>3, <1>5, Together
<1> DEFINE two == RoleKeys(identity) \o ScopeKeys(identity)
<1>8. two \in Seq(C) /\ ToSet(two) = ToSet(RoleKeys(identity)) \cup ToSet(ScopeKeys(identity))
  BY <1>3, <1>4, Together
<1>9. /\ AzureClaimsProfile(identity) \in Seq(C)
      /\ ToSet(AzureClaimsProfile(identity)) = ToSet(two) \cup ToSet(GroupKeys(identity))
  <2>1. AzureClaimsProfile(identity) = two \o GroupKeys(identity)
    BY <1>6
  <2> HIDE DEF two
  <2> QED
    BY <1>3, <1>8, <2>1, Together
<1> QED
  BY <1>3, <1>4, <1>7, <1>8, <1>9 DEF C

\* What is granted are strings.
LEMMA GrantsAreTexts ==
  ASSUME NEW Sources, NEW Texts, Foreign \notin Texts, NEW map, IsMap(map, Texts), NEW allowed \in Lists(Texts),
         NEW keys \in Seq(ClaimKeys(Sources, Texts))
  PROVE  LET granted == ResolveGrants(keys, map, allowed)
         IN /\ granted.roles \in Seq(Texts \cup {Foreign}) /\ granted.permissions \in Seq(Texts \cup {Foreign})
            /\ Foreign \notin ToSet(granted.roles) /\ Foreign \notin ToSet(granted.permissions)
<1> DEFINE granted == ResolveGrants(keys, map, allowed)
           K == ToSet(keys)
           V == Texts \cup {Foreign}
<1>1. granted.roles \in Seq(V) /\ granted.permissions \in Seq(V)
  BY KeysAreResolved DEF Entries
<1>2. ASSUME NEW k \in DOMAIN map
      PROVE  Foreign \notin ToSet(Strings(map[k].roles)) /\ Foreign \notin ToSet(Strings(map[k].permissions))
  <2>1. map[k].roles \in Seq(V) /\ map[k].permissions \in Seq(V)
    BY DEF IsMap, Entries
  <2> HIDE DEF V
  <2> QED
    BY <2>1, WhatIsLeft DEF Strings
<1>3. Foreign \notin MappedRoles(K, map) /\ Foreign \notin MappedPermissions(K, map)
  <2> HIDE DEF K
  <2> QED
    BY <1>2 DEF MappedRoles, MappedPermissions
<1>4. Foreign \notin PassingRoles(K, map, allowed) /\ Foreign \notin PassingPermissions(K, map, allowed)
  <2> HIDE DEF K
  <2> QED
    BY DEF PassingRoles, PassingPermissions, Lists
<1>5. ToSet(granted.roles) = RolesOf(K, map, allowed) /\ ToSet(granted.permissions) = PermissionsOf(K, map, allowed)
  BY KeysAreResolved
<1> HIDE DEF granted, K
<1>6. Foreign \notin ToSet(granted.roles) /\ Foreign \notin ToSet(granted.permissions)
  BY <1>3, <1>4, <1>5 DEF RolesOf, PermissionsOf
<1> QED
  BY <1>1, <1>6 DEF granted

\* What a session holds is what its lists say.
Holder(roles, permissions, scopes) ==
    [claims |-> [c \in {"roles", "permissions"} |-> [form |-> "list", entries |-> IF c = "roles" THEN roles ELSE permissions]],
     scopes |-> scopes]

LEMMA SessionsHoldTheirLists ==
  ASSUME NEW V, NEW roles \in Seq(V), NEW permissions \in Seq(V),
         Foreign \notin ToSet(roles), Foreign \notin ToSet(permissions)
  PROVE  /\ \A scopes : /\ DefaultPrincipalSelector({Holder(roles, permissions, scopes)}).roles = ToSet(roles)
                        /\ DefaultPrincipalSelector({Holder(roles, permissions, scopes)}).permissions = ToSet(permissions)
         /\ ReadScopes({Holder(roles, permissions, [form |-> "list", entries |-> permissions])}) = ToSet(permissions)
         /\ DefaultPrincipalSelector({}) = [roles |-> {}, permissions |-> {}] /\ ReadScopes({}) = {}
<1> DEFINE List(values) == [form |-> "list", entries |-> values]
<1>1. ASSUME NEW values \in Seq(V), Foreign \notin ToSet(values) PROVE ToSet(ReadStringArray(List(values))) = ToSet(values)
  <2>1. ReadStringArray(List(values)) = Without(values, {Foreign})
    BY DEF ReadStringArray, Strings
  <2>2. ToSet(Without(values, {Foreign})) = ToSet(values) \ {Foreign}
    BY WhatIsLeft
  <2> HIDE DEF List
  <2> QED
    BY <1>1, <2>1, <2>2
<1>2. ASSUME NEW scopes
      PROVE  /\ DefaultPrincipalSelector({Holder(roles, permissions, scopes)}).roles = ToSet(roles)
             /\ DefaultPrincipalSelector({Holder(roles, permissions, scopes)}).permissions = ToSet(permissions)
  <2> DEFINE p == Holder(roles, permissions, scopes)
             Of(name) == UNION {ToSet(ReadStringArray(q.claims[name])) : q \in {r \in {p} : name \in DOMAIN r.claims}}
  <2>1. /\ DOMAIN p.claims = {"roles", "permissions"}
        /\ p.claims["roles"] = List(roles) /\ p.claims["permissions"] = List(permissions)
    BY DEF Holder
  <2> HIDE DEF p, List
  <2>2. Of("roles") = ToSet(ReadStringArray(List(roles)))
    BY <2>1
  <2>3. Of("permissions") = ToSet(ReadStringArray(List(permissions)))
    BY <2>1
  <2>4. DefaultPrincipalSelector({p}) = [roles |-> Of("roles"), permissions |-> Of("permissions")]
    BY DEF DefaultPrincipalSelector
  <2> HIDE DEF Of
  <2>5. ToSet(ReadStringArray(List(roles))) = ToSet(roles) /\ ToSet(ReadStringArray(List(permissions))) = ToSet(permissions)
    BY <1>1
  <2> QED
    BY <2>2, <2>3, <2>4, <2>5 DEF p
<1>3. ReadScopes({Holder(roles, permissions, List(permissions))}) = ToSet(permissions)
  <2> DEFINE p == Holder(roles, permissions, List(permissions))
             Listed(q) == ToSet(ReadStringArray(q.scopes))
             Claimed(q) == IF "scope" \in DOMAIN q.claims /\ q.claims["scope"].form = "text"
                           THEN ToSet(q.claims["scope"].entries) \ {""} ELSE {}
             Scopes(q) == IF Listed(q) # {} THEN Listed(q) ELSE Claimed(q)
  <2>1. DOMAIN p.claims = {"roles", "permissions"} /\ p.scopes = List(permissions)
    BY DEF Holder
  <2>2. ReadScopes({p}) = UNION {Scopes(q) : q \in {p}}
    BY DEF ReadScopes
  <2> HIDE DEF p, List
  <2>3. Listed(p) = ToSet(permissions) /\ Claimed(p) = {}
    BY <1>1, <2>1
  <2> HIDE DEF Listed, Claimed
  <2>4. Scopes(p) = ToSet(permissions)
    BY <2>3
  <2> HIDE DEF Scopes
  <2> QED
    BY <2>2, <2>4 DEF p
<1>4. DefaultPrincipalSelector({}) = [roles |-> {}, permissions |-> {}] /\ ReadScopes({}) = {}
  BY DEF DefaultPrincipalSelector, ReadScopes
<1> QED
  BY <1>2, <1>3, <1>4

\* Whatever the identity provider says: the last source that has a claim decides, Azure's roles are those
\* that any provider would name and its other keys grant only through the map, and a requirement is met
\* by what the session holds and by nothing else (profiles.ts, evaluate.ts, principal.ts, identity.ts).
THEOREM AccessAlwaysFollowsClaims ==
  ASSUME NEW Texts, Foreign \notin Texts,
         NEW tokens \in [idToken : Sayings(Texts), accessToken : Sayings(Texts)], NEW userInfo \in ClaimSets(Texts),
         NEW map, IsMap(map, Texts), NEW allowed \in Lists(Texts),
         NEW requirement \in [roles : SUBSET Texts, permissions : SUBSET Texts, mode : {"any", "all"}]
  PROVE  AccessFollowsClaims(tokens, userInfo, map, allowed, requirement)
<1> DEFINE none == [c \in {} |-> Absent]
           Decoded(token) == IF token.form = "jwt" THEN token.claims ELSE none
           identity == BuildProviderIdentity(tokens, userInfo)
           keys == GenericClaimsProfile(identity)
           azure == AzureClaimsProfile(identity)
           granted == ResolveGrants(keys, map, allowed)
           roles == ToSet(granted.roles)
           permissions == ToSet(granted.permissions)
           List(values) == [form |-> "list", entries |-> values]
           principal == [claims |-> [c \in {"roles", "permissions"} |->
                                       List(IF c = "roles" THEN granted.roles ELSE granted.permissions)],
                         scopes |-> Absent]
           Silent(source) == [identity EXCEPT ![source] = [c \in {} |-> Absent]]
<1>1. identity \in Identities(Texts)
  <2>1. none \in [{} -> Said(Texts)]
    OBVIOUS
  <2>2. none \in ClaimSets(Texts)
    <3>1. {} \in SUBSET STRING
      OBVIOUS
    <3> HIDE DEF none
    <3> QED
      BY <2>1, <3>1 DEF ClaimSets
  <2>3. \A token \in Sayings(Texts) : Decoded(token) \in ClaimSets(Texts)
    <3> HIDE DEF none
    <3> QED
      BY <2>2 DEF Sayings
  <2>4. identity = [userInfo |-> userInfo, idTokenClaims |-> Decoded(tokens.idToken),
                    accessTokenClaims |-> Decoded(tokens.accessToken)]
    BY DEF BuildProviderIdentity
  <2> HIDE DEF identity, Decoded
  <2> QED
    BY <2>3, <2>4 DEF Identities
<1>2. tokens.accessToken.form # "jwt" => identity.accessTokenClaims = none
  BY DEF BuildProviderIdentity
<1>3. identity = [userInfo |-> identity.userInfo, idTokenClaims |-> identity.idTokenClaims,
                  accessTokenClaims |-> identity.accessTokenClaims]
  BY DEF BuildProviderIdentity
<1> HIDE DEF identity
<1>4. ASSUME {"roles", "permissions"} \subseteq DOMAIN identity.accessTokenClaims
      PROVE  GenericClaimsProfile(Silent("userInfo")) = keys /\ GenericClaimsProfile(Silent("idTokenClaims")) = keys
  <2>1. ASSUME NEW other, other.accessTokenClaims = identity.accessTokenClaims PROVE GenericClaimsProfile(other) = keys
    <3>1. ASSUME NEW name \in {"roles", "permissions"} PROVE MergedClaim(other, name) = MergedClaim(identity, name)
      <4>1. name \in DOMAIN identity.accessTokenClaims
        BY <1>4
      <4> QED
        BY <2>1, <4>1 DEF MergedClaim
    <3>2. /\ MergedClaim(other, "roles") = MergedClaim(identity, "roles")
          /\ MergedClaim(other, "permissions") = MergedClaim(identity, "permissions")
      BY <3>1
    <3> QED
      BY <3>2 DEF GenericClaimsProfile
  <2>2. /\ Silent("userInfo").accessTokenClaims = identity.accessTokenClaims
        /\ Silent("idTokenClaims").accessTokenClaims = identity.accessTokenClaims
    BY <1>3
  <2> QED
    BY <2>1, <2>2
<1>5. ASSUME tokens.accessToken.form # "jwt" PROVE keys = GenericClaimsProfile(Silent("accessTokenClaims"))
  <2>1. Silent("accessTokenClaims") = identity
    BY <1>2, <1>3, <1>5
  <2> QED
    BY <2>1
<1>6. /\ keys \in Seq(ClaimKeys(ClaimSources, Texts)) /\ azure \in Seq(ClaimKeys(ClaimSources, Texts))
      /\ {k \in ToSet(azure) : k.source = "role"} = {k \in ToSet(keys) : k.source = "role"}
      /\ \A k \in ToSet(azure) : k.source \in {"role", "scp", "group"}
  <2>1. /\ ToSet(keys) = ToSet(RoleKeys(identity)) \cup ToSet(PermissionKeys(identity))
        /\ ToSet(azure) = ToSet(RoleKeys(identity)) \cup ToSet(ScopeKeys(identity)) \cup ToSet(GroupKeys(identity))
        /\ From(RoleKeys(identity), "role") /\ From(PermissionKeys(identity), "permission")
        /\ From(ScopeKeys(identity), "scp") /\ From(GroupKeys(identity), "group")
    BY <1>1, ProfilesMakeKeys
  <2>2. keys \in Seq(ClaimKeys(ClaimSources, Texts)) /\ azure \in Seq(ClaimKeys(ClaimSources, Texts))
    BY <1>1, ProfilesMakeKeys
  <2> HIDE DEF keys, azure
  <2>3. {k \in ToSet(azure) : k.source = "role"} = {k \in ToSet(keys) : k.source = "role"}
    BY <2>1 DEF From
  <2>4. \A k \in ToSet(azure) : k.source \in {"role", "scp", "group"}
    BY <2>1 DEF From
  <2> QED
    BY <2>2, <2>3, <2>4
<1>7. \A k \in ToSet(azure) : k.source = "role" \/ k \in DOMAIN map \/ k \in Unmapped(azure, map, allowed)
  <2> HIDE DEF azure
  <2> QED
    BY <1>6 DEF Unmapped, IsAllowedCanonical
<1>8. /\ granted.roles \in Seq(Texts \cup {Foreign}) /\ granted.permissions \in Seq(Texts \cup {Foreign})
      /\ Foreign \notin roles /\ Foreign \notin permissions
  <2> HIDE DEF keys
  <2> QED
    BY <1>6, GrantsAreTexts
<1> DEFINE Ours(p) == DefaultPrincipalSelector({p}).roles = roles /\ DefaultPrincipalSelector({p}).permissions = permissions
           lists == List(granted.permissions)
<1>9. /\ Ours(principal) /\ ReadScopes({[principal EXCEPT !.scopes = lists]}) = permissions
      /\ DefaultPrincipalSelector({}) = [roles |-> {}, permissions |-> {}] /\ ReadScopes({}) = {}
  <2>1. principal = Holder(granted.roles, granted.permissions, Absent)
    BY DEF Holder
  <2>2. [principal EXCEPT !.scopes = lists] = Holder(granted.roles, granted.permissions, lists)
    <3> DEFINE X == [c \in {"roles", "permissions"} |-> List(IF c = "roles" THEN granted.roles ELSE granted.permissions)]
    <3>1. principal = [claims |-> X, scopes |-> Absent]
      OBVIOUS
    <3>2. Holder(granted.roles, granted.permissions, lists) = [claims |-> X, scopes |-> lists]
      BY DEF Holder
    <3> HIDE DEF X, lists
    <3>3. [[claims |-> X, scopes |-> Absent] EXCEPT !.scopes = lists] = [claims |-> X, scopes |-> lists]
      OBVIOUS
    <3> HIDE DEF principal
    <3> QED
      BY <3>1, <3>2, <3>3
  <2> DEFINE R == granted.roles
             P == granted.permissions
             V == Texts \cup {Foreign}
  <2>3. /\ R \in Seq(V) /\ P \in Seq(V) /\ roles = ToSet(R) /\ permissions = ToSet(P)
        /\ Foreign \notin ToSet(R) /\ Foreign \notin ToSet(P)
    BY <1>8
  <2>4. principal = Holder(R, P, Absent)
    BY <2>1
  <2>5. [principal EXCEPT !.scopes = lists] = Holder(R, P, [form |-> "list", entries |-> P])
    BY <2>2
  <2> HIDE DEF principal, granted, roles, permissions, R, P, V, lists
  <2>6. /\ \A scopes : /\ DefaultPrincipalSelector({Holder(R, P, scopes)}).roles = ToSet(R)
                       /\ DefaultPrincipalSelector({Holder(R, P, scopes)}).permissions = ToSet(P)
        /\ ReadScopes({Holder(R, P, [form |-> "list", entries |-> P])}) = ToSet(P)
        /\ DefaultPrincipalSelector({}) = [roles |-> {}, permissions |-> {}] /\ ReadScopes({}) = {}
    BY <2>3, SessionsHoldTheirLists
  <2> QED
    BY <2>3, <2>4, <2>5, <2>6
<1> HIDE DEF principal, granted
<1>10. /\ RequireAccess(requirement, {principal}) <=>
            IF requirement.mode = "all" THEN requirement.roles \subseteq roles /\ requirement.permissions \subseteq permissions
            ELSE \/ requirement.roles \cup requirement.permissions = {}
                 \/ (requirement.roles \cap roles) \cup (requirement.permissions \cap permissions) # {}
       /\ RequireAccess(requirement, {}) <=> requirement.roles \cup requirement.permissions = {}
  <2> DEFINE ours == DefaultPrincipalSelector({principal})
             nobody == DefaultPrincipalSelector({})
             r == requirement.roles
             q == requirement.permissions
             Met(h) == \/ r \cup q = {}
                       \/ IF requirement.mode = "all" THEN r \subseteq h.roles /\ q \subseteq h.permissions
                          ELSE (r \cap h.roles) \cup (q \cap h.permissions) # {}
  <2>1. (RequireAccess(requirement, {principal}) <=> Met(ours)) /\ (RequireAccess(requirement, {}) <=> Met(nobody))
    BY DEF RequireAccess, SatisfiesAccess
  <2>2. ours.roles = roles /\ ours.permissions = permissions /\ nobody.roles = {} /\ nobody.permissions = {}
    BY <1>9
  <2> HIDE DEF roles, permissions, ours, nobody, r, q
  <2>3. Met(ours) <=> IF requirement.mode = "all" THEN r \subseteq roles /\ q \subseteq permissions
                      ELSE r \cup q = {} \/ (r \cap roles) \cup (q \cap permissions) # {}
    BY <2>2
  <2>4. Met(nobody) <=> r \cup q = {}
    BY <2>2
  <2> HIDE DEF Met
  <2> QED
    BY <2>1, <2>3, <2>4 DEF r, q
<1>11. /\ RequireScopes(requirement.permissions, {}) <=> requirement.permissions = {}
       /\ RequireScopes(requirement.permissions, {[principal EXCEPT !.scopes = lists]})
            <=> requirement.permissions \subseteq permissions
  <2> HIDE DEF permissions
  <2> QED
    BY <1>9 DEF RequireScopes
<1> QED
  BY <1>4, <1>5, <1>6, <1>7, <1>10, <1>11, Zenon DEF AccessFollowsClaims, identity, granted, principal

-----------------------------------------------------------------------------
(* Routes and settings.                                                    *)

Methods == {"get", "post", "put", "patch", "delete"}
CallNames == Methods \cup {"secure", "authorize", "middleware", "validate", "handle"}
BuilderCalls(V) == [name : CallNames, path : V, service : V, fn : V, schema : V]
RouteFields == {"path", "method", "secure", "authorize", "middleware", "validation", "handler"}
FieldValues(V) == V \cup CallNames \cup Seq(V)
Drafts(V) == {d \in UNION {[D -> FieldValues(V)] : D \in SUBSET RouteFields} :
                 "middleware" \in DOMAIN d /\ d["middleware"] \in Seq(V)}

\* e is the draft d with one field more.
Grows(d, e, field, value, V) ==
    /\ e \in Drafts(V) /\ e[field] = value /\ DOMAIN e = DOMAIN d \cup {field}
    /\ \A f \in DOMAIN d : f # field => e[f] = d[f]

LEMMA DraftsGrow ==
  ASSUME NEW V, NEW d \in Drafts(V), NEW field \in RouteFields, NEW value \in FieldValues(V),
         field = "middleware" => value \in Seq(V)
  PROVE  Grows(d, With(d, field, value), field, value, V)
<1> DEFINE W == FieldValues(V)
           e == With(d, field, value)
           D == DOMAIN d
<1>1. D \in SUBSET RouteFields /\ d \in [D -> W] /\ "middleware" \in D /\ d["middleware"] \in Seq(V)
  BY DEF Drafts
<1> HIDE DEF W, D
<1>2. e = [f \in D \cup {field} |-> IF f = field THEN value ELSE d[f]]
  BY DEF With, D
<1> HIDE DEF e
<1>3. /\ DOMAIN e = D \cup {field} /\ e[field] = value /\ \A f \in D : f # field => e[f] = d[f]
      /\ e \in [D \cup {field} -> W]
  BY <1>1, <1>2 DEF W
<1>4. D \cup {field} \in SUBSET RouteFields /\ "middleware" \in DOMAIN e /\ e["middleware"] \in Seq(V)
  BY <1>1, <1>3
<1> QED
  BY <1>3, <1>4 DEF Drafts, Grows, e, D, W

LEMMA DraftsAreRoutes ==
  ASSUME NEW V, NEW d \in Drafts(V)
  PROVE  d # NoRoute
<1>1. DOMAIN NoRoute = {"failed"}
  BY DEF NoRoute
<1>2. "middleware" \in DOMAIN d
  BY DEF Drafts
<1> QED
  BY <1>1, <1>2

\* What a draft has after some calls of the builder, by the last of each kind.
Called(calls, n, names) == {i \in 1..n : calls[i].name \in names}
LastCall(calls, n, names, i) == i \in Called(calls, n, names) /\ \A j \in Called(calls, n, names) : j <= i
MethodDrafted(calls, n, d) ==
    /\ Called(calls, n, Methods) = {} => "method" \notin DOMAIN d /\ "handler" \notin DOMAIN d
    /\ Called(calls, n, Methods) # {} =>
         /\ "method" \in DOMAIN d /\ "path" \in DOMAIN d
         /\ \E i \in 1..n : LastCall(calls, n, Methods, i) /\ d["method"] = calls[i].name /\ d["path"] = calls[i].path
PrincipalDrafted(calls, n, d) ==
    Called(calls, n, {"secure"}) # {} =>
        /\ "secure" \in DOMAIN d
        /\ \E i \in 1..n : LastCall(calls, n, {"secure"}, i) /\ d["secure"] = calls[i].service
Places(calls, n, i) == Cardinality(Called(calls, n, {"middleware"}) \cap 1..i)
MiddlewareDrafted(calls, n, d) ==
    /\ Len(d["middleware"]) = Cardinality(Called(calls, n, {"middleware"}))
    /\ \A i \in Called(calls, n, {"middleware"}) :
         Places(calls, n, i) \in 1..Len(d["middleware"]) /\ d["middleware"][Places(calls, n, i)] = calls[i].fn
Drafted(calls, n, d) == MethodDrafted(calls, n, d) /\ PrincipalDrafted(calls, n, d) /\ MiddlewareDrafted(calls, n, d)
Refused(calls, n) ==
    \/ \E i \in 1..n : calls[i].name = "secure" /\ calls[i].service = " "
    \/ \E i \in 1..n : calls[i].name = "handle" /\ \A j \in 1..i : calls[j].name \notin Methods
Built(calls, n, d) == IF d = NoRoute THEN Refused(calls, n) ELSE Drafted(calls, n, d)

\* One more call.
LEMMA OneMoreCall ==
  ASSUME NEW V, NEW calls \in Seq(BuilderCalls(V)), NEW n \in Nat, n + 1 \in 1..Len(calls), NEW names
  PROVE  /\ calls[n + 1].name \in names =>
              /\ Called(calls, n + 1, names) = Called(calls, n, names) \cup {n + 1} /\ n + 1 \notin Called(calls, n, names)
              /\ LastCall(calls, n + 1, names, n + 1)
         /\ calls[n + 1].name \notin names =>
              /\ Called(calls, n + 1, names) = Called(calls, n, names)
              /\ \A i \in 1..n : LastCall(calls, n, names, i) => LastCall(calls, n + 1, names, i)
<1>1. 1..(n + 1) = 1..n \cup {n + 1} /\ n + 1 \notin 1..n /\ \A j \in 1..n : j <= n + 1
  OBVIOUS
<1> QED
  BY <1>1 DEF Called, LastCall

\* A call of another kind leaves what was drafted.
LEMMA OtherCallsLeave ==
  ASSUME NEW V, NEW calls \in Seq(BuilderCalls(V)), NEW n \in Nat, n + 1 \in 1..Len(calls), NEW d, NEW e
  PROVE  /\ /\ MethodDrafted(calls, n, d) /\ calls[n + 1].name \notin Methods
            /\ \A f \in {"method", "path"} : (f \in DOMAIN e <=> f \in DOMAIN d) /\ (f \in DOMAIN d => e[f] = d[f])
            /\ "handler" \in DOMAIN e => "handler" \in DOMAIN d \/ "method" \in DOMAIN d
            => MethodDrafted(calls, n + 1, e)
         /\ /\ PrincipalDrafted(calls, n, d) /\ calls[n + 1].name # "secure"
            /\ "secure" \in DOMAIN d => "secure" \in DOMAIN e /\ e["secure"] = d["secure"]
            => PrincipalDrafted(calls, n + 1, e)
         /\ MiddlewareDrafted(calls, n, d) /\ calls[n + 1].name # "middleware" /\ e["middleware"] = d["middleware"]
            => MiddlewareDrafted(calls, n + 1, e)
<1>0. 1..n \subseteq 1..(n + 1)
  OBVIOUS
<1>1. ASSUME MethodDrafted(calls, n, d), calls[n + 1].name \notin Methods,
             \A f \in {"method", "path"} : (f \in DOMAIN e <=> f \in DOMAIN d) /\ (f \in DOMAIN d => e[f] = d[f]),
             "handler" \in DOMAIN e => "handler" \in DOMAIN d \/ "method" \in DOMAIN d
      PROVE  MethodDrafted(calls, n + 1, e)
  <2>1. /\ Called(calls, n + 1, Methods) = Called(calls, n, Methods)
        /\ \A i \in 1..n : LastCall(calls, n, Methods, i) => LastCall(calls, n + 1, Methods, i)
    BY <1>1, OneMoreCall
  <2> QED
    BY <1>0, <1>1, <2>1 DEF MethodDrafted
<1>2. ASSUME PrincipalDrafted(calls, n, d), calls[n + 1].name # "secure",
             "secure" \in DOMAIN d => "secure" \in DOMAIN e /\ e["secure"] = d["secure"]
      PROVE  PrincipalDrafted(calls, n + 1, e)
  <2>1. /\ Called(calls, n + 1, {"secure"}) = Called(calls, n, {"secure"})
        /\ \A i \in 1..n : LastCall(calls, n, {"secure"}, i) => LastCall(calls, n + 1, {"secure"}, i)
    BY <1>2, OneMoreCall
  <2> QED
    BY <1>0, <1>2, <2>1 DEF PrincipalDrafted
<1>3. ASSUME MiddlewareDrafted(calls, n, d), calls[n + 1].name # "middleware", e["middleware"] = d["middleware"]
      PROVE  MiddlewareDrafted(calls, n + 1, e)
  <2>1. Called(calls, n + 1, {"middleware"}) = Called(calls, n, {"middleware"})
    BY <1>3, OneMoreCall
  <2> QED
    BY <1>3, <2>1 DEF MiddlewareDrafted, Places
<1> QED
  BY <1>1, <1>2, <1>3

\* Another middleware goes behind those before it.
LEMMA MiddlewareIsAppended ==
  ASSUME NEW V, NEW calls \in Seq(BuilderCalls(V)), NEW n \in Nat, n + 1 \in 1..Len(calls),
         NEW d \in Drafts(V), MiddlewareDrafted(calls, n, d), calls[n + 1].name = "middleware",
         NEW e, e["middleware"] = Append(d["middleware"], calls[n + 1].fn)
  PROVE  MiddlewareDrafted(calls, n + 1, e)
<1> DEFINE A == Called(calls, n, {"middleware"})
           B == Called(calls, n + 1, {"middleware"})
           m == d["middleware"]
           L == Len(m)
           fn == calls[n + 1].fn
<1>1. B = A \cup {n + 1} /\ n + 1 \notin A
  BY OneMoreCall
<1>2. A \subseteq 1..n /\ IsFiniteSet(A) /\ \A i \in 1..n : A \cap 1..i = B \cap 1..i
  <2>1. A \subseteq 1..n
    BY DEF Called
  <2>2. IsFiniteSet(1..n)
    BY FS_Interval
  <2>3. IsFiniteSet(A)
    <3> HIDE DEF A
    <3> QED
      BY <2>1, <2>2, FS_Subset
  <2> HIDE DEF A, B
  <2>4. \A i \in 1..n : n + 1 \notin 1..i
    OBVIOUS
  <2> QED
    BY <1>1, <2>1, <2>3, <2>4
<1>3. m \in Seq(V) /\ fn \in V /\ L \in Nat
  <2>1. m \in Seq(V)
    BY DEF Drafts
  <2>2. calls[n + 1] \in BuilderCalls(V)
    OBVIOUS
  <2>3. fn \in V
    BY <2>2 DEF BuilderCalls
  <2> HIDE DEF m, fn
  <2> QED
    BY <2>1, <2>3
<1> HIDE DEF A, B
<1>4. Cardinality(B) = Cardinality(A) + 1
  BY <1>1, <1>2, FS_AddElement
<1>5. L = Cardinality(A)
  BY DEF MiddlewareDrafted, A
<1>6. B \cap 1..(n + 1) = B
  <2>1. 1..(n + 1) = 1..n \cup {n + 1}
    OBVIOUS
  <2> QED
    BY <1>1, <1>2, <2>1
<1>7. \A i \in A : Cardinality(A \cap 1..i) \in 1..L /\ m[Cardinality(A \cap 1..i)] = calls[i].fn
  BY DEF MiddlewareDrafted, Places, A
<1>8. /\ Len(e["middleware"]) = L + 1 /\ e["middleware"][L + 1] = fn
      /\ \A k \in 1..L : e["middleware"][k] = m[k]
  BY <1>3
<1>9. ASSUME NEW i \in B
      PROVE  Cardinality(B \cap 1..i) \in 1..(L + 1) /\ e["middleware"][Cardinality(B \cap 1..i)] = calls[i].fn
  <2>1. CASE i = n + 1
    <3>1. Cardinality(B \cap 1..i) = L + 1
      BY <1>4, <1>5, <1>6, <2>1
    <3>2. L + 1 \in 1..(L + 1)
      BY <1>3
    <3> QED
      BY <1>8, <2>1, <3>1, <3>2
  <2>2. CASE i # n + 1
    <3>1. i \in A
      BY <1>1, <2>2
    <3>2. B \cap 1..i = A \cap 1..i
      BY <1>2, <3>1
    <3>3. Cardinality(A \cap 1..i) \in 1..L /\ m[Cardinality(A \cap 1..i)] = calls[i].fn
      BY <1>7, <3>1
    <3> DEFINE k == Cardinality(A \cap 1..i)
    <3> HIDE DEF k, m, L
    <3>4. k \in 1..(L + 1) /\ e["middleware"][k] = calls[i].fn
      BY <1>3, <1>8, <3>3 DEF k
    <3> QED
      BY <3>2, <3>4 DEF k
  <2> QED
    BY <2>1, <2>2
<1> QED
  BY <1>4, <1>5, <1>8, <1>9 DEF MiddlewareDrafted, Places, B

Keeps(V, calls, n, d) == d \in Drafts(V) \cup {NoRoute} /\ Built(calls, n + 1, d)

\* Every call of the builder keeps the last word of each kind.
LEMMA CallsKeepTheLast ==
  ASSUME NEW V, NEW calls \in Seq(BuilderCalls(V)), NEW n \in Nat, n + 1 \in 1..Len(calls),
         NEW d \in Drafts(V) \cup {NoRoute}, Built(calls, n, d)
  PROVE  Keeps(V, calls, n, Build(d, calls[n + 1]))
<1> SUFFICES ASSUME NEW call, call = calls[n + 1], NEW e, e = Build(d, call)
             PROVE  Keeps(V, calls, n, e)
  OBVIOUS
<1> DEFINE name == call.name
<1>1. call \in BuilderCalls(V) /\ n + 1 \in 1..(n + 1) /\ 1..n \subseteq 1..(n + 1)
  OBVIOUS
<1>2. /\ name \in CallNames /\ call.path \in FieldValues(V) /\ call.service \in FieldValues(V)
      /\ call.fn \in FieldValues(V) /\ call.schema \in FieldValues(V) /\ name \in FieldValues(V) /\ call.fn \in V
  BY <1>1 DEF BuilderCalls, FieldValues
<1>3. CASE d = NoRoute
  <2>1. e = NoRoute
    BY <1>3 DEF Build
  <2>2. Refused(calls, n)
    BY <1>3 DEF Built
  <2>3. Refused(calls, n + 1)
    BY <1>1, <2>2 DEF Refused
  <2> QED
    BY <2>1, <2>3 DEF Keeps, Built
<1>4. CASE d \in Drafts(V)
  <2>1. d # NoRoute
    BY <1>4, DraftsAreRoutes
  <2>2. MethodDrafted(calls, n, d) /\ PrincipalDrafted(calls, n, d) /\ MiddlewareDrafted(calls, n, d)
    BY <2>1 DEF Built, Drafted
  <2>3. ASSUME NEW x \in Drafts(V), e = x, MethodDrafted(calls, n + 1, x), PrincipalDrafted(calls, n + 1, x),
               MiddlewareDrafted(calls, n + 1, x)
        PROVE  Keeps(V, calls, n, e)
    <3>1. x # NoRoute
      BY <2>3, DraftsAreRoutes
    <3> QED
      BY <2>3, <3>1 DEF Keeps, Built, Drafted
  <2>4. CASE name \in Methods
    <3> DEFINE x == With(d, "path", call.path)
               y == With(x, "method", name)
    <3>1. e = y
      BY <2>1, <2>4 DEF Build, Methods
    <3>2g. Grows(d, x, "path", call.path, V)
      BY <1>2, <1>4, DraftsGrow DEF RouteFields
    <3>2. /\ x \in Drafts(V) /\ x["path"] = call.path /\ DOMAIN x = DOMAIN d \cup {"path"}
          /\ \A f \in DOMAIN d : f # "path" => x[f] = d[f]
      BY <3>2g DEF Grows
    <3> HIDE DEF x
    <3>3g. Grows(x, y, "method", name, V)
      <4>1. "method" \in RouteFields /\ "method" # "middleware" /\ name \in FieldValues(V) /\ x \in Drafts(V)
        BY <1>2, <3>2 DEF RouteFields
      <4> HIDE DEF name
      <4> QED
        BY <4>1, DraftsGrow
    <3>3. /\ y \in Drafts(V) /\ y["method"] = name /\ DOMAIN y = DOMAIN x \cup {"method"}
          /\ \A f \in DOMAIN x : f # "method" => y[f] = x[f]
      BY <3>3g DEF Grows
    <3> HIDE DEF y
    <3>4. y["path"] = call.path /\ "path" \in DOMAIN y /\ "method" \in DOMAIN y /\ y["middleware"] = d["middleware"]
      BY <1>4, <3>2, <3>3 DEF Drafts
    <3>5. /\ Called(calls, n + 1, Methods) = Called(calls, n, Methods) \cup {n + 1}
          /\ LastCall(calls, n + 1, Methods, n + 1)
      BY <2>4, OneMoreCall
    <3>6. MethodDrafted(calls, n + 1, y)
      BY <1>1, <3>3, <3>4, <3>5 DEF MethodDrafted
    <3>7. name # "secure" /\ name # "middleware"
      BY <2>4 DEF Methods
    <3>8. PrincipalDrafted(calls, n + 1, y) /\ MiddlewareDrafted(calls, n + 1, y)
      BY <2>2, <3>2, <3>3, <3>4, <3>7, OtherCallsLeave
    <3> QED
      BY <2>3, <3>1, <3>3, <3>6, <3>8
  <2>5. CASE name = "secure"
    <3>1. CASE call.service = " "
      <4>1. e = NoRoute
        BY <2>1, <2>5, <3>1 DEF Build
      <4>2. Refused(calls, n + 1)
        BY <1>1, <2>5, <3>1 DEF Refused
      <4> QED
        BY <4>1, <4>2 DEF Keeps, Built
    <3>2. CASE call.service # " "
      <4> DEFINE x == With(d, "secure", call.service)
      <4>1. e = x
        BY <2>1, <2>5, <3>2 DEF Build
      <4>2g. Grows(d, x, "secure", call.service, V)
        BY <1>2, <1>4, DraftsGrow DEF RouteFields
      <4>2. /\ x \in Drafts(V) /\ x["secure"] = call.service /\ DOMAIN x = DOMAIN d \cup {"secure"}
            /\ \A f \in DOMAIN d : f # "secure" => x[f] = d[f]
        BY <4>2g DEF Grows
      <4> HIDE DEF x
      <4>3. LastCall(calls, n + 1, {"secure"}, n + 1)
        BY <2>5, OneMoreCall
      <4>4. PrincipalDrafted(calls, n + 1, x)
        BY <1>1, <4>2, <4>3 DEF PrincipalDrafted
      <4>5. name \notin Methods /\ name # "middleware"
        BY <2>5 DEF Methods
      <4>6. x["middleware"] = d["middleware"]
        BY <1>4, <4>2 DEF Drafts
      <4>7. MethodDrafted(calls, n + 1, x) /\ MiddlewareDrafted(calls, n + 1, x)
        BY <2>2, <4>2, <4>5, <4>6, OtherCallsLeave
      <4> QED
        BY <2>3, <4>1, <4>2, <4>4, <4>7
    <3> QED
      BY <3>1, <3>2
  <2>6. CASE name = "middleware"
    <3> DEFINE m == Append(d["middleware"], call.fn)
               x == With(d, "middleware", m)
    <3>0. d["middleware"] \in Seq(V) /\ "middleware" \in DOMAIN d
      BY <1>4 DEF Drafts
    <3>1. e = x
      <4>1. e = [d EXCEPT !.middleware = m]
        BY <2>1, <2>6 DEF Build
      <4>2. [d EXCEPT !.middleware = m] = x
        <5>1. DOMAIN d \cup {"middleware"} = DOMAIN d
          BY <3>0
        <5>2. x = [f \in DOMAIN d |-> IF f = "middleware" THEN m ELSE d[f]]
          BY <5>1 DEF With
        <5>3. d = [f \in DOMAIN d |-> d[f]]
          BY <1>4 DEF Drafts
        <5> HIDE DEF m, x
        <5> QED
          BY <5>2, <5>3
      <4> QED
        BY <4>1, <4>2
    <3>2. m \in Seq(V) /\ m \in FieldValues(V)
      BY <1>2, <3>0 DEF FieldValues
    <3> HIDE DEF m
    <3>3g. Grows(d, x, "middleware", m, V)
      BY <1>4, <3>2, DraftsGrow DEF RouteFields
    <3>3. /\ x \in Drafts(V) /\ x["middleware"] = m /\ DOMAIN x = DOMAIN d \cup {"middleware"}
          /\ \A f \in DOMAIN d : f # "middleware" => x[f] = d[f]
      BY <3>3g DEF Grows
    <3> HIDE DEF x
    <3>4. MiddlewareDrafted(calls, n + 1, x)
      BY <1>4, <2>2, <2>6, <3>3, MiddlewareIsAppended DEF m
    <3>5. name \notin Methods /\ name # "secure"
      BY <2>6 DEF Methods
    <3>6. MethodDrafted(calls, n + 1, x) /\ PrincipalDrafted(calls, n + 1, x)
      BY <2>2, <3>3, <3>5, OtherCallsLeave
    <3> QED
      BY <2>3, <3>1, <3>3, <3>4, <3>6
  <2>7. ASSUME NEW field \in {"authorize", "validation", "handler"}, NEW value \in FieldValues(V), e = With(d, field, value),
               name \in {"authorize", "validate", "handle"}, field = "handler" => "method" \in DOMAIN d
        PROVE  Keeps(V, calls, n, e)
    <3> DEFINE x == With(d, field, value)
    <3>1g. Grows(d, x, field, value, V)
      <4>1. field \in RouteFields /\ field # "middleware"
        BY <2>7 DEF RouteFields
      <4> QED
        BY <1>4, <2>7, <4>1, DraftsGrow
    <3>1. /\ x \in Drafts(V) /\ x[field] = value /\ DOMAIN x = DOMAIN d \cup {field}
          /\ \A f \in DOMAIN d : f # field => x[f] = d[f]
      BY <3>1g DEF Grows
    <3>2. e = x
      BY <2>7
    <3> HIDE DEF x
    <3>3. name \notin Methods /\ name # "secure" /\ name # "middleware"
      BY <2>7 DEF Methods
    <3>4. field \notin {"method", "path", "secure", "middleware"}
      BY <2>7
    <3>5. x["middleware"] = d["middleware"]
      BY <1>4, <3>1, <3>4 DEF Drafts
    <3>6. MethodDrafted(calls, n + 1, x)
      BY <2>2, <2>7, <3>1, <3>3, <3>4, OtherCallsLeave
    <3>7. PrincipalDrafted(calls, n + 1, x) /\ MiddlewareDrafted(calls, n + 1, x)
      BY <2>2, <3>1, <3>3, <3>4, <3>5, OtherCallsLeave
    <3> QED
      BY <2>3, <3>1, <3>2, <3>6, <3>7
  <2>8. CASE name = "authorize"
    <3>1. e = With(d, "authorize", call.fn)
      BY <2>1, <2>8 DEF Build
    <3> QED
      BY <1>2, <2>7, <2>8, <3>1
  <2>9. CASE name = "validate"
    <3>1. e = With(d, "validation", call.schema)
      BY <2>1, <2>9 DEF Build
    <3> QED
      BY <1>2, <2>7, <2>9, <3>1
  <2>10. CASE name = "handle"
    <3>1. e = IF {"method", "path"} \subseteq DOMAIN d THEN With(d, "handler", call.fn) ELSE NoRoute
      BY <2>1, <2>10 DEF Build
    <3>2. CASE {"method", "path"} \subseteq DOMAIN d
      BY <1>2, <2>7, <2>10, <3>1, <3>2
    <3>3. CASE ~({"method", "path"} \subseteq DOMAIN d)
      <4>1. Called(calls, n, Methods) = {}
        BY <2>2, <3>3 DEF MethodDrafted
      <4>2. name \notin Methods
        BY <2>10 DEF Methods
      <4>3. Called(calls, n + 1, Methods) = {}
        BY <4>1, <4>2, OneMoreCall
      <4>4. Refused(calls, n + 1)
        BY <1>1, <2>10, <4>3 DEF Refused, Called
      <4> QED
        BY <3>1, <3>3, <4>4 DEF Keeps, Built
    <3> QED
      BY <3>2, <3>3
  <2> QED
    BY <1>2, <2>4, <2>5, <2>6, <2>8, <2>9, <2>10 DEF CallNames
<1> QED
  BY <1>3, <1>4

\* Whatever is called on a builder (route-builder.ts), in whatever order and however often: the method and
\* path are those of the last call of a method, the principal the one of the last secure(), every middleware
\* is kept in its order, and a chain is refused only for a blank principal or a handle() before its method.
THEOREM BuildersAlwaysKeepTheLast ==
  ASSUME NEW V, NEW calls \in Seq(BuilderCalls(V))
  PROVE  BuilderKeepsTheLast(calls)
<1> DEFINE L == Len(calls)
           R == Drafts(V) \cup {NoRoute}
           After(n, d) == Build(d, calls[n])
           step == [n \in 1..L |-> [d \in R |-> IF After(n, d) \in R THEN After(n, d) ELSE NoRoute]]
           Is(f) == f = [n \in 0..L |-> IF n = 0 THEN NewRoute ELSE After(n, f[n - 1])]
           after == CHOOSE g : Is(g)
           route == Route(calls)
<1>1. L \in Nat /\ DOMAIN calls = 1..L /\ NewRoute \in R /\ NoRoute \in R
  <2>1. DOMAIN NewRoute = {"middleware"} /\ NewRoute["middleware"] = <<>> /\ <<>> \in Seq(V)
    BY DEF NewRoute
  <2>2. NewRoute \in [{"middleware"} -> FieldValues(V)]
    BY <2>1 DEF NewRoute, FieldValues
  <2>3. NewRoute \in Drafts(V)
    BY <2>1, <2>2 DEF Drafts, RouteFields
  <2> QED
    BY <2>3
<1>2. route = after[L]
  BY DEF Route
<1> HIDE DEF L, After
<1>3. step \in [1..L -> [R -> R]] /\ \A n \in 1..L, d \in R : step[n][d] = IF After(n, d) \in R THEN After(n, d) ELSE NoRoute
  <2> HIDE DEF R
  <2> QED
    BY <1>1
<1> HIDE DEF step, R
<1>4. PICK f \in [0..L -> R] : Follows(f, L, NewRoute, step)
  BY <1>1, <1>3, RecursionExists
<1> DEFINE P == {n \in 0..L : Built(calls, n, f[n]) /\ (n # 0 => f[n] = After(n, f[n - 1]))}
<1>5. 0 \in P
  <2>1. 0 \in 0..L /\ f[0] = NewRoute
    BY <1>1, <1>4 DEF Follows
  <2>2. \A names : Called(calls, 0, names) = {}
    BY DEF Called
  <2>3. DOMAIN NewRoute = {"middleware"} /\ NewRoute["middleware"] = <<>> /\ NewRoute # NoRoute
    <3>1. DOMAIN NewRoute = {"middleware"} /\ NewRoute["middleware"] = <<>> /\ DOMAIN NoRoute = {"failed"}
      BY DEF NewRoute, NoRoute
    <3> QED
      BY <3>1
  <2>4. Built(calls, 0, NewRoute)
    <3>1. MethodDrafted(calls, 0, NewRoute) /\ PrincipalDrafted(calls, 0, NewRoute)
      BY <2>2, <2>3 DEF MethodDrafted, PrincipalDrafted
    <3>2. MiddlewareDrafted(calls, 0, NewRoute)
      BY <2>2, <2>3, FS_EmptySet DEF MiddlewareDrafted
    <3> QED
      BY <2>3, <3>1, <3>2 DEF Built, Drafted
  <2> QED
    BY <2>1, <2>4
<1>6. ASSUME NEW n \in 0..L, n < L, n \in P PROVE n + 1 \in P
  <2>1. n \in Nat /\ n + 1 \in 1..L /\ n + 1 \in 0..L /\ (n + 1) - 1 = n /\ n + 1 # 0
    BY <1>1, <1>6
  <2>2. f[n] \in R /\ Built(calls, n, f[n])
    BY <1>6
  <2>3. Keeps(V, calls, n, Build(f[n], calls[n + 1]))
    BY <2>1, <2>2, CallsKeepTheLast DEF R, L
  <2>4. After(n + 1, f[n]) \in R /\ Built(calls, n + 1, After(n + 1, f[n]))
    BY <2>3 DEF Keeps, After, R
  <2>5. f[n + 1] = step[n + 1][f[n]]
    BY <1>4, <2>1 DEF Follows
  <2>6. f[n + 1] = After(n + 1, f[n])
    BY <1>3, <2>1, <2>2, <2>4, <2>5
  <2> QED
    BY <2>1, <2>4, <2>6
<1>7. 0..L \subseteq P
  <2> HIDE DEF P
  <2> QED
    BY <1>1, <1>5, <1>6, PositionInduction
<1>8. Is(f)
  <2>1. ASSUME NEW n \in 0..L
        PROVE  f[n] = IF n = 0 THEN NewRoute ELSE After(n, f[n - 1])
    <3>1. f[0] = NewRoute
      BY <1>4 DEF Follows
    <3> QED
      BY <1>7, <3>1
  <2> QED
    BY <2>1
<1>9. Is(after)
  <2> HIDE DEF Is
  <2> QED
    BY <1>8
<1> HIDE DEF after
<1>10. after = f
  <2> DEFINE Q == {n \in 0..L : after[n] = f[n]}
  <2>1. 0 \in Q
    BY <1>1, <1>8, <1>9
  <2>2. ASSUME NEW n \in 0..L, n < L, n \in Q PROVE n + 1 \in Q
    <3>1. n + 1 \in 0..L /\ (n + 1) - 1 = n /\ n + 1 # 0
      BY <1>1, <2>2
    <3>2. after[n + 1] = After(n + 1, after[n]) /\ f[n + 1] = After(n + 1, f[n])
      BY <1>8, <1>9, <3>1
    <3> QED
      BY <2>2, <3>1, <3>2
  <2>3. 0..L \subseteq Q
    <3> HIDE DEF Q
    <3> QED
      BY <1>1, <2>1, <2>2, PositionInduction
  <2>4. DOMAIN after = 0..L /\ DOMAIN f = 0..L /\ after = [n \in DOMAIN after |-> after[n]] /\ f = [n \in DOMAIN f |-> f[n]]
    BY <1>8, <1>9
  <2> QED
    BY <2>3, <2>4
<1>11. Built(calls, L, route)
  BY <1>1, <1>2, <1>7, <1>10
<1> HIDE DEF route
<1> DEFINE At(names) == {i \in DOMAIN calls : calls[i].name \in names}
           LastOf(names) == calls[CHOOSE i \in At(names) : \A j \in At(names) : j <= i]
<1>12. \A names : At(names) = Called(calls, L, names)
  BY <1>1 DEF Called
<1>13. ASSUME NEW names, NEW i, LastCall(calls, L, names, i)
       PROVE  LastOf(names) = calls[i]
  <2>1. i \in At(names) /\ \A j \in At(names) : j <= i
    BY <1>12, <1>13 DEF LastCall
  <2>2. \A k \in At(names) : (\A j \in At(names) : j <= k) => k = i
    BY <1>1, <2>1
  <2> HIDE DEF At
  <2> QED
    BY <2>1, <2>2
<1>14. CASE route = NoRoute
  <2>1. Refused(calls, L)
    BY <1>11, <1>14 DEF Built
  <2> QED
    BY <1>1, <1>14, <2>1 DEF Refused, BuilderKeepsTheLast, route, Methods
<1>15. CASE route # NoRoute
  <2>1. MethodDrafted(calls, L, route) /\ PrincipalDrafted(calls, L, route) /\ MiddlewareDrafted(calls, L, route)
    BY <1>11, <1>15 DEF Built, Drafted
  <2> HIDE DEF At, LastOf
  <2>2. /\ "handler" \in DOMAIN route => At(Methods) # {}
        /\ At(Methods) # {} => route.method = LastOf(Methods).name /\ route.path = LastOf(Methods).path
    BY <1>12, <1>13, <2>1 DEF MethodDrafted
  <2>3. At({"secure"}) # {} => route.secure = LastOf({"secure"}).service
    BY <1>12, <1>13, <2>1 DEF PrincipalDrafted
  <2>4. /\ Len(route.middleware) = Cardinality(At({"middleware"}))
        /\ \A i \in At({"middleware"}) : route.middleware[Cardinality(At({"middleware"}) \cap 1..i)] = calls[i].fn
    BY <1>12, <2>1 DEF MiddlewareDrafted, Places
  <2> QED
    BY <1>15, <2>2, <2>3, <2>4 DEF BuilderKeepsTheLast, route, Methods, At, LastOf
<1> QED
  BY <1>14, <1>15

\* Configurations with the keys K and the values V, beside what the settings derive themselves.
SettingNames(K) == K \cup {"ENV_MODE", "LOG_LEVEL"}
SettingValues(V) == V \cup {"production", "DEBUG", "ERROR"}
Configurations(K, V) == UNION {[D -> SettingValues(V)] : D \in SUBSET SettingNames(K)}
Settled(K, V) == [config : Configurations(K, V), failed : BOOLEAN]

\* e is c with one key set.
Sets(K, V, c, e, k, v) ==
    /\ e \in Configurations(K, V) /\ DOMAIN e = DOMAIN c \cup {k} /\ e[k] = v
    /\ \A l \in DOMAIN c : l # k => e[l] = c[l]

LEMMA SettingsGrow ==
  ASSUME NEW K, NEW V, NEW c \in Configurations(K, V), NEW k \in SettingNames(K), NEW v \in SettingValues(V)
  PROVE  Sets(K, V, c, With(c, k, v), k, v)
<1> DEFINE e == With(c, k, v)
           D == DOMAIN c
<1>1. D \in SUBSET SettingNames(K) /\ c \in [D -> SettingValues(V)]
  BY DEF Configurations
<1> HIDE DEF D
<1>2. e = [l \in D \cup {k} |-> IF l = k THEN v ELSE c[l]]
  BY DEF With, D
<1> HIDE DEF e
<1>3. DOMAIN e = D \cup {k} /\ e[k] = v /\ (\A l \in D : l # k => e[l] = c[l]) /\ e \in [D \cup {k} -> SettingValues(V)]
  BY <1>1, <1>2
<1>4. D \cup {k} \in SUBSET SettingNames(K)
  BY <1>1
<1>5. e \in Configurations(K, V)
  BY <1>3, <1>4 DEF Configurations
<1> QED
  BY <1>3, <1>5 DEF Sets, e, D

\* e is c with what the file sets.
Merges(K, V, c, file, e) ==
    /\ e \in Configurations(K, V) /\ DOMAIN e = DOMAIN file \cup DOMAIN c
    /\ \A l \in DOMAIN file : e[l] = file[l]
    /\ \A l \in DOMAIN c : l \notin DOMAIN file => e[l] = c[l]

LEMMA SettingsMerge ==
  ASSUME NEW K, NEW V, NEW c \in Configurations(K, V), NEW file \in Configurations(K, V)
  PROVE  Merges(K, V, c, file, Over(file, c))
<1> DEFINE e == Over(file, c)
           C == DOMAIN c
           F == DOMAIN file
<1>1. C \in SUBSET SettingNames(K) /\ c \in [C -> SettingValues(V)] /\ F \in SUBSET SettingNames(K) /\ file \in [F -> SettingValues(V)]
  BY DEF Configurations
<1> HIDE DEF C, F
<1>2. e = [l \in F \cup C |-> IF l \in F THEN file[l] ELSE c[l]]
  BY DEF Over, C, F
<1> HIDE DEF e
<1>3. /\ DOMAIN e = F \cup C /\ (\A l \in F : e[l] = file[l]) /\ \A l \in C : l \notin F => e[l] = c[l]
      /\ e \in [F \cup C -> SettingValues(V)]
  BY <1>1, <1>2
<1>4. F \cup C \in SUBSET SettingNames(K)
  BY <1>1
<1>5. e \in Configurations(K, V)
  BY <1>3, <1>4 DEF Configurations
<1> QED
  BY <1>3, <1>5 DEF Merges, e, C, F

\* What a file makes of the configuration.
Loads(K, V, c, file, t) ==
    /\ t \in Settled(K, V)
    /\ DOMAIN t.config = DOMAIN file \cup DOMAIN c \cup {"ENV_MODE", "LOG_LEVEL"}
    /\ \A l \in DOMAIN file : t.config[l] = file[l]
    /\ \A l \in DOMAIN c : l \notin DOMAIN file => t.config[l] = c[l]
    /\ ~t.failed /\ "PORT" \in DOMAIN file => file["PORT"] \in Ports

LEMMA FilesAreLoaded ==
  ASSUME NEW K, NEW V, NEW c \in Configurations(K, V), NEW file \in Configurations(K, V)
  PROVE  Loads(K, V, c, file, LoadFromFile(c, file))
<1> DEFINE merged == Over(file, c)
           mode == Get(merged, "ENV_MODE", "production")
           derived == IF Get(merged, "DEBUG", FALSE) \/ mode # "production" THEN "DEBUG" ELSE "ERROR"
           level == Get(merged, "LOG_LEVEL", derived)
           leveled == With(merged, "LOG_LEVEL", level)
           settled == With(leveled, "ENV_MODE", mode)
           t == LoadFromFile(c, file)
<1>1. t = [config |-> settled, failed |-> ~ValidateConfig(merged)]
  BY DEF LoadFromFile
<1>2. Merges(K, V, c, file, merged)
  BY SettingsMerge
<1> HIDE DEF t, merged
<1>3. derived \in SettingValues(V)
  BY DEF SettingValues
<1> HIDE DEF derived
<1>4. /\ mode \in SettingValues(V) /\ level \in SettingValues(V)
      /\ "ENV_MODE" \in DOMAIN merged => mode = merged["ENV_MODE"]
      /\ "LOG_LEVEL" \in DOMAIN merged => level = merged["LOG_LEVEL"]
  <2>1. \A k \in DOMAIN merged : merged[k] \in SettingValues(V)
    BY <1>2 DEF Merges, Configurations
  <2>2. "production" \in SettingValues(V)
    BY DEF SettingValues
  <2> QED
    BY <1>3, <2>1, <2>2 DEF Get
<1> HIDE DEF mode, level
<1>5. Sets(K, V, merged, leveled, "LOG_LEVEL", level)
  <2>1. merged \in Configurations(K, V) /\ "LOG_LEVEL" \in SettingNames(K)
    BY <1>2 DEF Merges, SettingNames
  <2> QED
    BY <1>4, <2>1, SettingsGrow
<1> HIDE DEF leveled
<1>6. Sets(K, V, leveled, settled, "ENV_MODE", mode)
  <2>1. leveled \in Configurations(K, V) /\ "ENV_MODE" \in SettingNames(K)
    BY <1>5 DEF Sets, SettingNames
  <2> QED
    BY <1>4, <2>1, SettingsGrow
<1> HIDE DEF settled
<1>7. /\ settled \in Configurations(K, V) /\ DOMAIN settled = DOMAIN merged \cup {"ENV_MODE", "LOG_LEVEL"}
      /\ \A l \in DOMAIN merged : settled[l] = merged[l]
  <2>1. DOMAIN settled = DOMAIN merged \cup {"ENV_MODE", "LOG_LEVEL"}
    BY <1>5, <1>6 DEF Sets
  <2>2. ASSUME NEW l \in DOMAIN merged PROVE settled[l] = merged[l]
    <3>1. CASE l = "ENV_MODE"
      BY <1>4, <1>6, <3>1 DEF Sets
    <3>2. CASE l = "LOG_LEVEL"
      BY <1>4, <1>5, <1>6, <3>2 DEF Sets
    <3>3. CASE l \notin {"ENV_MODE", "LOG_LEVEL"}
      BY <1>5, <1>6, <3>3 DEF Sets
    <3> QED
      BY <3>1, <3>2, <3>3
  <2> QED
    BY <1>6, <2>1, <2>2 DEF Sets
<1>8. t.config = settled /\ t \in Settled(K, V) /\ (~t.failed => ValidateConfig(merged))
  <2> DEFINE valid == ValidateConfig(merged)
  <2>1. valid \in BOOLEAN
    BY DEF ValidateConfig
  <2> HIDE DEF valid
  <2>2. t = [config |-> settled, failed |-> ~valid]
    BY <1>1 DEF valid
  <2>3. t.config = settled /\ (t.failed <=> ~valid) /\ t \in Settled(K, V)
    BY <1>7, <2>1, <2>2 DEF Settled
  <2> QED
    BY <2>3 DEF valid
<1>9. /\ DOMAIN merged = DOMAIN file \cup DOMAIN c /\ \A l \in DOMAIN file : merged[l] = file[l]
      /\ \A l \in DOMAIN c : l \notin DOMAIN file => merged[l] = c[l]
  BY <1>2 DEF Merges
<1>10. ~t.failed /\ "PORT" \in DOMAIN file => file["PORT"] \in Ports
  <2>1. SUFFICES ASSUME ~t.failed, "PORT" \in DOMAIN file PROVE file["PORT"] \in Ports
    OBVIOUS
  <2>2. "PORT" \in DOMAIN merged /\ merged["PORT"] = file["PORT"]
    BY <1>9, <2>1
  <2>3. ValidateConfig(merged)
    BY <1>8, <2>1
  <2>4. merged["PORT"] \in Ports
    BY <2>2, <2>3 DEF ValidateConfig
  <2> QED
    BY <2>2, <2>4
<1>11. /\ DOMAIN t.config = DOMAIN file \cup DOMAIN c \cup {"ENV_MODE", "LOG_LEVEL"}
       /\ \A l \in DOMAIN file : t.config[l] = file[l]
       /\ \A l \in DOMAIN c : l \notin DOMAIN file => t.config[l] = c[l]
  BY <1>7, <1>8, <1>9
<1>12. Loads(K, V, c, file, t)
  BY <1>8, <1>10, <1>11 DEF Loads
<1> QED
  BY <1>12 DEF t

\* What the settings hold after n files.
Sources(config, files, i) == IF i = 0 THEN {config} ELSE files[i]
Setting(config, files, n, k) == {i \in 0..n : \E source \in Sources(config, files, i) : k \in DOMAIN source}
HoldsSource(config, files, n, c, i, source) ==
    \A k \in DOMAIN source :
        /\ k \in DOMAIN c
        /\ (\A j \in Setting(config, files, n, k) : j <= i) => c[k] = source[k]
        /\ k = "PORT" => source["PORT"] \in Ports
HoldsSettings(config, files, n, c) ==
    /\ \A k \in DOMAIN c : Setting(config, files, n, k) # {} \/ k \in {"ENV_MODE", "LOG_LEVEL"}
    /\ \A i \in 0..n : \A source \in Sources(config, files, i) : HoldsSource(config, files, n, c, i, source)

\* One more file, when there is none.
LEMMA MissingFilesChangeNothing ==
  ASSUME NEW config, NEW files, NEW n \in Nat, files[n + 1] = {}, NEW c, HoldsSettings(config, files, n, c)
  PROVE  HoldsSettings(config, files, n + 1, c)
<1>1. 0..(n + 1) = 0..n \cup {n + 1} /\ n + 1 # 0
  OBVIOUS
<1>2. Sources(config, files, n + 1) = {}
  BY <1>1 DEF Sources
<1>3. \A k : Setting(config, files, n + 1, k) = Setting(config, files, n, k)
  BY <1>1, <1>2 DEF Setting
<1> QED
  BY <1>1, <1>2, <1>3 DEF HoldsSettings, HoldsSource

LEMMA LaterFilesWin ==
  ASSUME NEW K, NEW V, NEW config, NEW files, NEW n \in Nat, NEW file \in Configurations(K, V), files[n + 1] = {file},
         NEW c \in Configurations(K, V), HoldsSettings(config, files, n, c),
         NEW t, Loads(K, V, c, file, t), ~t.failed
  PROVE  HoldsSettings(config, files, n + 1, t.config)
<1>1. 0..(n + 1) = 0..n \cup {n + 1} /\ n + 1 # 0 /\ (\A i \in 0..n : ~ (n + 1 <= i)) /\ \A j \in 0..(n + 1) : j <= n + 1
  OBVIOUS
<1>2. Sources(config, files, n + 1) = {file}
  BY <1>1 DEF Sources
<1>3. \A k : /\ k \in DOMAIN file => Setting(config, files, n + 1, k) = Setting(config, files, n, k) \cup {n + 1}
             /\ k \notin DOMAIN file => Setting(config, files, n + 1, k) = Setting(config, files, n, k)
  BY <1>1, <1>2 DEF Setting
<1>4. \A k \in DOMAIN t.config : Setting(config, files, n + 1, k) # {} \/ k \in {"ENV_MODE", "LOG_LEVEL"}
  <2> SUFFICES ASSUME NEW k \in DOMAIN t.config, k \notin {"ENV_MODE", "LOG_LEVEL"}
               PROVE  Setting(config, files, n + 1, k) # {}
    OBVIOUS
  <2>1. k \in DOMAIN file \/ k \in DOMAIN c
    BY DEF Loads
  <2>2. k \in DOMAIN c => Setting(config, files, n, k) # {}
    BY DEF HoldsSettings
  <2> QED
    BY <1>3, <2>1, <2>2
<1>5. HoldsSource(config, files, n + 1, t.config, n + 1, file)
  <2> SUFFICES ASSUME NEW k \in DOMAIN file
               PROVE  k \in DOMAIN t.config /\ t.config[k] = file[k] /\ (k = "PORT" => file["PORT"] \in Ports)
    BY DEF HoldsSource
  <2> QED
    BY DEF Loads
<1>6. ASSUME NEW i \in 0..n, NEW source \in Sources(config, files, i)
      PROVE  HoldsSource(config, files, n + 1, t.config, i, source)
  <2>1. HoldsSource(config, files, n, c, i, source)
    BY DEF HoldsSettings
  <2> SUFFICES ASSUME NEW k \in DOMAIN source
               PROVE  /\ k \in DOMAIN t.config
                      /\ (\A j \in Setting(config, files, n + 1, k) : j <= i) => t.config[k] = source[k]
                      /\ k = "PORT" => source["PORT"] \in Ports
    BY DEF HoldsSource
  <2>2. /\ k \in DOMAIN c
        /\ (\A j \in Setting(config, files, n, k) : j <= i) => c[k] = source[k]
        /\ k = "PORT" => source["PORT"] \in Ports
    BY <2>1 DEF HoldsSource
  <2>3. CASE k \in DOMAIN file
    <3>1. n + 1 \in Setting(config, files, n + 1, k) /\ ~ (n + 1 <= i)
      BY <1>1, <1>3, <2>3
    <3>2. k \in DOMAIN t.config
      BY <2>3 DEF Loads
    <3> QED
      BY <2>2, <3>1, <3>2
  <2>4. CASE k \notin DOMAIN file
    <3>1. Setting(config, files, n + 1, k) = Setting(config, files, n, k)
      BY <1>3, <2>4
    <3>2. k \in DOMAIN t.config /\ t.config[k] = c[k]
      BY <2>2, <2>4 DEF Loads
    <3> QED
      BY <2>2, <3>1, <3>2
  <2> QED
    BY <2>3, <2>4
<1> QED
  BY <1>1, <1>2, <1>4, <1>5, <1>6 DEF HoldsSettings

\* Whatever files there are and whatever they set (application-settings.ts, loadConfiguration): if the
\* application starts, every key has the value of the last source that sets it, nothing else is set but
\* what is derived, and every source's port was a port.
THEOREM SettingsAreAlwaysMerged ==
  ASSUME NEW K, NEW V, NEW config \in Configurations(K, V), NEW files \in Seq(SUBSET Configurations(K, V)),
         \A i \in 1..Len(files) : \A f, g \in files[i] : f = g
  PROVE  SettingsAreMerged(config, files)
<1> DEFINE L == Len(files)
           R == Settled(K, V)
           own == IF "ENV_MODE" \in DOMAIN config THEN config ELSE With(config, "ENV_MODE", "production")
           base == [config |-> own, failed |-> FALSE]
           File(n) == CHOOSE f \in files[n] : TRUE
           After(n, t) == IF files[n] = {} \/ t.failed THEN t ELSE LoadFromFile(t.config, File(n))
           step == [n \in 1..L |-> [t \in R |-> After(n, t)]]
           Is(f) == f = [n \in 0..L |-> IF n = 0 THEN base ELSE After(n, f[n - 1])]
           after == CHOOSE g : Is(g)
           started == Started(config, files)
           valid == ValidateConfig(own)
<1>1. L \in Nat /\ DOMAIN files = 1..L
  OBVIOUS
<1>2. /\ own \in Configurations(K, V) /\ (\A k \in DOMAIN config : k \in DOMAIN own /\ own[k] = config[k])
      /\ \A k \in DOMAIN own : k \in DOMAIN config \/ k = "ENV_MODE"
  <2>1. "ENV_MODE" \in SettingNames(K) /\ "production" \in SettingValues(V)
    BY DEF SettingNames, SettingValues
  <2>2. Sets(K, V, config, With(config, "ENV_MODE", "production"), "ENV_MODE", "production")
    BY <2>1, SettingsGrow
  <2> QED
    BY <2>2 DEF Sets
<1> HIDE DEF own
<1>3. base \in R /\ base.config = own /\ ~base.failed
  BY <1>2 DEF Settled
<1>4. ASSUME NEW n \in 1..L, files[n] # {}
      PROVE  File(n) \in Configurations(K, V) /\ files[n] = {File(n)}
  <2>1. files[n] \in SUBSET Configurations(K, V) /\ \A f, g \in files[n] : f = g
    OBVIOUS
  <2>2. File(n) \in files[n]
    BY <1>4
  <2> HIDE DEF File
  <2> QED
    BY <2>1, <2>2
<1>5. started.config = after[L].config /\ (~started.failed => ~after[L].failed /\ valid)
  <2> DEFINE bad == after[L].failed \/ ~valid
  <2>1. started.config = after[L].config /\ started.failed = bad
    BY DEF Started, own
  <2> HIDE DEF after, started, valid
  <2>2. ~bad => ~after[L].failed /\ valid
    OBVIOUS
  <2> QED
    BY <2>1, <2>2
<1> HIDE DEF L, R, base, File, started, valid
<1>6. ASSUME NEW n \in 1..L, NEW t \in R
      PROVE  /\ After(n, t) \in R
             /\ files[n] = {} \/ t.failed => After(n, t) = t
             /\ files[n] # {} /\ ~t.failed => Loads(K, V, t.config, File(n), After(n, t))
  <2>1. CASE files[n] = {} \/ t.failed
    BY <2>1
  <2>2. CASE files[n] # {} /\ ~t.failed
    <3>1. After(n, t) = LoadFromFile(t.config, File(n))
      BY <2>2
    <3>2. t.config \in Configurations(K, V) /\ File(n) \in Configurations(K, V)
      BY <1>4, <2>2 DEF R, Settled
    <3>3. Loads(K, V, t.config, File(n), After(n, t))
      BY <3>1, <3>2, FilesAreLoaded
    <3> HIDE DEF After
    <3> QED
      BY <2>2, <3>3 DEF Loads, R
  <2> QED
    BY <2>1, <2>2
<1> HIDE DEF After
<1>7. step \in [1..L -> [R -> R]] /\ \A n \in 1..L, t \in R : step[n][t] = After(n, t)
  BY <1>6
<1> HIDE DEF step
<1>8. PICK f \in [0..L -> R] : Follows(f, L, base, step)
  BY <1>1, <1>3, <1>7, RecursionExists
<1>9. Is(f)
  <2>1. ASSUME NEW n \in 0..L
        PROVE  f[n] = IF n = 0 THEN base ELSE After(n, f[n - 1])
    <3>1. n # 0 => n \in 1..L /\ n - 1 \in 0..L
      BY <1>1
    <3> QED
      BY <1>7, <1>8, <3>1 DEF Follows
  <2> QED
    BY <2>1
<1>10. Is(after)
  <2> HIDE DEF Is
  <2> QED
    BY <1>9
<1> HIDE DEF after
<1>11. after[0] = base /\ \A n \in 1..L : after[n] = After(n, after[n - 1])
  <2>1. 0 \in 0..L /\ \A n \in 1..L : n \in 0..L /\ n # 0
    BY <1>1
  <2> QED
    BY <1>10, <2>1
<1> HIDE DEF Is
<1> SUFFICES ASSUME ~started.failed
             PROVE  HoldsSettings(config, files, L, started.config)
  <2> DEFINE Had(i) == IF i = 0 THEN {config} ELSE files[i]
             Set(k) == {i \in 0..L : \E source \in Had(i) : k \in DOMAIN source}
  <2>1. (\A i : Had(i) = Sources(config, files, i)) /\ \A k : Set(k) = Setting(config, files, L, k)
    BY DEF Sources, Setting
  <2> HIDE DEF Had, Set
  <2>2. HoldsSettings(config, files, L, started.config)
        => /\ \A k \in DOMAIN started.config : Set(k) # {} \/ k \in {"ENV_MODE", "LOG_LEVEL"}
           /\ \A i \in 0..L : \A source \in Had(i) : \A k \in DOMAIN source :
                /\ k \in DOMAIN started.config
                /\ (\A j \in Set(k) : j <= i) => started.config[k] = source[k]
                /\ k = "PORT" => source["PORT"] \in Ports
    BY <2>1 DEF HoldsSettings, HoldsSource
  <2> QED
    BY <2>2 DEF SettingsAreMerged, started, Had, Set, L
<1> DEFINE P == {n \in 0..L : after[n] \in R /\ (~after[n].failed => HoldsSettings(config, files, n, after[n].config))}
<1>12. 0 \in P
  <2>1. 0 \in 0..L /\ 0..0 = {0}
    BY <1>1
  <2>2. \A k \in DOMAIN config : k = "PORT" => config["PORT"] \in Ports
    BY <1>2, <1>5 DEF valid, ValidateConfig
  <2>3. Sources(config, files, 0) = {config} /\ \A k \in DOMAIN config : 0 \in Setting(config, files, 0, k)
    BY <2>1 DEF Sources, Setting
  <2>4. HoldsSource(config, files, 0, own, 0, config)
    BY <1>2, <2>2 DEF HoldsSource
  <2>5. HoldsSettings(config, files, 0, own)
    BY <1>2, <2>1, <2>3, <2>4 DEF HoldsSettings
  <2> QED
    BY <1>3, <1>11, <2>1, <2>5
<1>13. ASSUME NEW n \in 0..L, n < L, n \in P PROVE n + 1 \in P
  <2>1. n \in Nat /\ n + 1 \in 1..L /\ n + 1 \in 0..L /\ (n + 1) - 1 = n
    BY <1>1, <1>13
  <2>2. after[n + 1] = After(n + 1, after[n]) /\ after[n] \in R
    BY <1>11, <1>13, <2>1
  <2>3. after[n + 1] \in R
    BY <1>6, <2>1, <2>2
  <2> SUFFICES ASSUME ~after[n + 1].failed PROVE HoldsSettings(config, files, n + 1, after[n + 1].config)
    BY <2>1, <2>3
  <2>4. CASE after[n].failed
    BY <1>6, <2>1, <2>2, <2>4
  <2>5. CASE ~after[n].failed /\ files[n + 1] = {}
    <3>1. after[n + 1] = after[n]
      BY <1>6, <2>1, <2>2, <2>5
    <3>2. HoldsSettings(config, files, n, after[n].config)
      BY <1>13, <2>5
    <3> QED
      BY <2>1, <2>5, <3>1, <3>2, MissingFilesChangeNothing
  <2>6. CASE ~after[n].failed /\ files[n + 1] # {}
    <3>1. Loads(K, V, after[n].config, File(n + 1), after[n + 1])
      BY <1>6, <2>1, <2>2, <2>6
    <3>2. HoldsSettings(config, files, n, after[n].config) /\ after[n].config \in Configurations(K, V)
      BY <1>13, <2>2, <2>6 DEF R, Settled
    <3>3. File(n + 1) \in Configurations(K, V) /\ files[n + 1] = {File(n + 1)}
      BY <1>4, <2>1, <2>6
    <3> QED
      BY <2>1, <3>1, <3>2, <3>3, LaterFilesWin
  <2> QED
    BY <2>4, <2>5, <2>6
<1>14. L \in P
  <2> HIDE DEF P
  <2>1. 0..L \subseteq P
    BY <1>1, <1>12, <1>13, PositionInduction
  <2> QED
    BY <1>1, <2>1
<1> QED
  BY <1>5, <1>14

-----------------------------------------------------------------------------
(* What the runs ask of their probes, for all of them.                     *)

\* The configurations, answers and requests that there can be: an identity provider answers with one ID
\* token or one error at most, whose code stands for a refusal only where no server failed; the answers
\* outlast the redirects that are followed.
Judgeable(p, Texts, Resolvers) ==
    /\ p.of = "token" => p.static \in ProviderConfigs(Texts, Resolvers) /\ p.own \in ProviderConfigs(Texts, Resolvers)
    /\ p.of = "factory" => p.c \in FactoryConfigs(Texts, BOOLEAN)
    /\ p.of = "callback" =>
         /\ \A x, y \in p.answer.idToken : x = y
         /\ \A x, y \in p.answer.error : x = y
         /\ \A e \in p.answer.error : e.class = "ClientError" /\ e.code \in FlowCodes => \A s \in e.status : s < 500
         /\ p.static \in SignInConfigs(Texts)
         /\ \A own \in p.owns :
              own = {} \/ \E f : own = {f} /\ ("redirectUri" \in DOMAIN f => f.redirectUri \in Optional(Texts))
    /\ p.of = "request" =>
         /\ p.request \in Requests(Texts, Texts, Texts) /\ ("content-length" \in p.request.headers => p.request.body)
         /\ \A rest \in p.rests : p.answers \o rest \in Seq(Responses(Texts)) /\ Len(p.answers \o rest) > MaxRedirects
    /\ p.of = "memory" =>
         /\ p.operations \in Seq(Operations(Texts, Results(Texts, SUBSET Texts, Texts)))
         /\ p.orders \subseteq Seq(TokenSources)
         /\ \A req \in p.requests : req \in Carriers(Texts) /\ IsFiniteSet(req.query)

\* RequestsAreJudged of every probe: bearer tokens, factories, callbacks, logins, redirects and
\* memory providers are judged as AuthDecisions says, whatever the configurations and the answers.
THEOREM RequestsAreAlwaysJudged ==
  ASSUME NEW Texts, NEW Resolvers, "GET" \in Texts, "content-length" \in Texts, Judgeable(probe, Texts, Resolvers)
  PROVE  RequestsAreJudged
<1>1. probe.of = "token" => BearerIsJudged(probe.static, probe.own, probe.token, probe.keys, probe.now)
  BY BearerTokensAreJudged DEF Judgeable
<1>2. probe.of = "factory" => \A token \in probe.tokens : FactoryIsFaithful(probe.c, token, probe.keys, probe.now)
  BY FactoriesAreFaithful DEF Judgeable
<1>3. ASSUME probe.of = "callback", NEW own \in probe.owns, NEW query \in probe.queries, NEW info \in probe.infos
      PROVE  CallbackIsJudged(probe.static, own, query, probe.remembered, probe.answer, info)
  <2> DEFINE answer == probe.answer
  <2>1. /\ \A x, y \in answer.idToken : x = y
        /\ \A x, y \in answer.error : x = y
        /\ \A e \in answer.error : e.class = "ClientError" /\ e.code \in FlowCodes => \A s \in e.status : s < 500
    BY <1>3 DEF Judgeable
  <2> HIDE DEF answer
  <2>2. CallbackIsJudged(probe.static, own, query, probe.remembered, answer, info)
    BY <2>1, CallbacksAreJudged
  <2> QED
    BY <2>2 DEF answer
<1>4. ASSUME probe.of = "callback", NEW own \in probe.owns, NEW query \in probe.logins
      PROVE  LoginIsRemembered(probe.static, own, query, probe.secrets)
  <2>1. /\ probe.static \in SignInConfigs(Texts)
        /\ own = {} \/ \E f : own = {f} /\ ("redirectUri" \in DOMAIN f => f.redirectUri \in Optional(Texts))
    BY <1>4 DEF Judgeable
  <2> QED
    BY <2>1, LoginsAreRemembered
<1>5. ASSUME probe.of = "request", NEW rest \in probe.rests
      PROVE  RedirectsAreSafe(probe.request, probe.answers \o rest)
  <2> DEFINE answers == probe.answers \o rest
  <2>1. /\ probe.request \in Requests(Texts, Texts, Texts)
        /\ "content-length" \in probe.request.headers => probe.request.body
        /\ answers \in Seq(Responses(Texts)) /\ Len(answers) > MaxRedirects
    BY <1>5 DEF Judgeable
  <2> HIDE DEF answers
  <2>2. RedirectsAreSafe(probe.request, answers)
    BY <2>1, RedirectChainsAreSafe
  <2> QED
    BY <2>2 DEF answers
<1>6. ASSUME probe.of = "memory", NEW order \in probe.orders, NEW req \in probe.requests
      PROVE  MemoryAnswersForTokens(probe.operations, order, req)
  <2>1. /\ probe.operations \in Seq(Operations(Texts, Results(Texts, SUBSET Texts, Texts)))
        /\ order \in Seq(TokenSources) /\ req \in Carriers(Texts) /\ IsFiniteSet(req.query)
    BY <1>6 DEF Judgeable
  <2> QED
    BY <2>1, MemoryAnswers
<1> QED
  BY <1>1, <1>2, <1>3, <1>4, <1>5, <1>6 DEF RequestsAreJudged

\* A limiter's state after some requests, cleanups and time.
Reached(limiter, s, Clients) ==
    \E N \in Nat, start \in Nat : \E run :
        /\ run[0] = NewLimiter(Clients, start) /\ run[N] = s
        /\ \A n \in 1..N : LimiterStep(limiter, run[n - 1], run[n])

\* The grant maps and claims, settings, chains of calls, limiters and applications that there can be.
Handleable(p, Texts, Clients, K, V, Names, Plugins, Routes) ==
    /\ p.of = "keys" =>
         /\ IsMap(p.map, Texts) /\ p.allowed \in Lists(Texts) /\ p.lists \subseteq Seq(ClaimKeys(Texts, Texts))
         /\ p.tokens \subseteq [idToken : Sayings(Texts), accessToken : Sayings(Texts)] /\ p.infos \subseteq ClaimSets(Texts)
         /\ p.requirements \subseteq [roles : SUBSET Texts, permissions : SUBSET Texts, mode : {"any", "all"}]
    /\ p.of = "settings" =>
         /\ p.config \in Configurations(K, V) /\ p.files \subseteq Seq(SUBSET Configurations(K, V))
         /\ \A files \in p.files : \A i \in 1..Len(files) : \A f, g \in files[i] : f = g
    /\ p.of = "builder" => p.calls \in Seq(BuilderCalls(V))
    /\ p.of = "limiter" => p.limiter \in Limiters /\ Reached(p.limiter, p.s, Clients)
    /\ p.of = "application" =>
         p.app \in Applications(Plugins, Routes) /\ \A req \in p.requests : req.malformedBody \in BOOLEAN

\* RequestsAreHandled of every probe: what grants and access follow from, how settings are merged and
\* routes are built, what a limiter admits at any time and how every application handles every request.
THEOREM RequestsAreAlwaysHandled ==
  ASSUME NEW Texts, Foreign \notin Texts, NEW Clients, NEW K, NEW V, NEW Names, Names \cap OwnNames = {},
         NEW Plugins, \A p \in Plugins : p.priority \in Int, NEW Routes, \A r \in Routes : Routable(r, Names),
         Handleable(probe, Texts, Clients, K, V, Names, Plugins, Routes)
  PROVE  RequestsAreHandled
<1>1. ASSUME probe.of = "keys", NEW keys \in probe.lists
      PROVE  GrantsAreEarned(keys, probe.map, probe.allowed)
  <2>1. IsMap(probe.map, Texts) /\ probe.allowed \in Lists(Texts) /\ keys \in Seq(ClaimKeys(Texts, Texts))
    BY <1>1 DEF Handleable
  <2> QED
    BY <2>1, GrantsAreAlwaysEarned
<1>2. ASSUME probe.of = "keys", NEW tokens \in probe.tokens, NEW userInfo \in probe.infos,
             NEW requirement \in probe.requirements
      PROVE  AccessFollowsClaims(tokens, userInfo, probe.map, probe.allowed, requirement)
  <2>1. /\ IsMap(probe.map, Texts) /\ probe.allowed \in Lists(Texts)
        /\ tokens \in [idToken : Sayings(Texts), accessToken : Sayings(Texts)] /\ userInfo \in ClaimSets(Texts)
        /\ requirement \in [roles : SUBSET Texts, permissions : SUBSET Texts, mode : {"any", "all"}]
    BY <1>2 DEF Handleable
  <2> QED
    BY <2>1, AccessAlwaysFollowsClaims
<1>3. ASSUME probe.of = "settings", NEW files \in probe.files
      PROVE  SettingsAreMerged(probe.config, files)
  <2>1. /\ probe.config \in Configurations(K, V) /\ files \in Seq(SUBSET Configurations(K, V))
        /\ \A i \in 1..Len(files) : \A f, g \in files[i] : f = g
    BY <1>3 DEF Handleable
  <2> QED
    BY <2>1, SettingsAreAlwaysMerged
<1>4. probe.of = "builder" => BuilderKeepsTheLast(probe.calls)
  BY BuildersAlwaysKeepTheLast DEF Handleable
<1>5. ASSUME probe.of = "limiter"
      PROVE  LimitIsKept(probe.limiter, probe.s)
  <2>1. probe.limiter \in Limiters /\ Reached(probe.limiter, probe.s, Clients)
    BY <1>5 DEF Handleable
  <2>2. PICK N \in Nat, start \in Nat : \E run :
           /\ run[0] = NewLimiter(Clients, start) /\ run[N] = probe.s
           /\ \A n \in 1..N : LimiterStep(probe.limiter, run[n - 1], run[n])
    BY <2>1 DEF Reached
  <2>3. PICK run :
           /\ run[0] = NewLimiter(Clients, start) /\ run[N] = probe.s
           /\ \A n \in 1..N : LimiterStep(probe.limiter, run[n - 1], run[n])
    BY <2>2
  <2>4. \A n \in 0..N : LimitIsKept(probe.limiter, run[n])
    BY <2>1, <2>3, LimitsAreKept
  <2>5. N \in 0..N
    OBVIOUS
  <2> QED
    BY <2>3, <2>4, <2>5
<1>6. ASSUME probe.of = "application", NEW req \in probe.requests
      PROVE  RequestIsHandled(probe.app, req)
  <2>1. probe.app \in Applications(Plugins, Routes) /\ req.malformedBody \in BOOLEAN
    BY <1>6 DEF Handleable
  <2> QED
    BY <2>1, RequestsAreHandledInOrder
<1> QED
  BY <1>1, <1>2, <1>3, <1>4, <1>5, <1>6 DEF RequestsAreHandled
=============================================================================

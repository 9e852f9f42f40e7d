------------------------- MODULE WebApplication_proofs -------------------------
(***************************************************************************)
(* WebApplication, for any number of requests, services and plugins and    *)
(* any graph of dependencies, cyclic ones included.  The properties rest   *)
(* on one invariant.  Of the containers: the frames of a get() form the    *)
(* chain of dependencies it is in (Chained), the names under way in a      *)
(* container are those of its frames, each in one frame only and without   *)
(* an instance yet (Named), and what a frame has passed is there           *)
(* (Supplied).  Of the application: a request that has not come has        *)
(* nothing (Served), and each stage of the shutdown finds the earlier ones *)
(* over (Staged).                                                          *)
(***************************************************************************)
EXTENDS WebApplication, TLAPS

Frames(t) == 1..Len(stack[t])
FrameOK(f) == f.name \in Services /\ f.at \in 1..(Len(Deps[f.name]) + 1)

\* Every frame is of a service and awaits one of its dependencies, or its factory.
Stacked ==
    /\ stack \in [Calls -> Seq([name : Services, at : Nat])]
    /\ \A t \in Calls : \A k \in Frames(t) : FrameOK(stack[t][k])

\* Each frame was called by the one below, for the dependency it awaits; a call that
\* runs has been told nothing yet.
Chained ==
    /\ \A t \in Calls :
        /\ Busy(t) => stack[t][1].name = Asked(t)
        /\ \A k \in Frames(t) : k + 1 \in Frames(t) =>
            /\ stack[t][k].at <= Len(Deps[stack[t][k].name])
            /\ stack[t][k + 1].name = Deps[stack[t][k].name][stack[t][k].at]
        /\ Busy(t) /\ ret[t] # "none" => Top(t).at <= Len(Deps[Top(t).name])
    /\ thread # Nobody => Busy(thread) /\ ret[thread] = "none"

\* The names under way in a container are those of its frames, each of one frame only,
\* and the container has no instance of them.
Named ==
    /\ \A t \in Calls : \A k \in Frames(t) :
        /\ stack[t][k].name \in resolving[Home(t)]
        /\ services[Home(t)][stack[t][k].name] = 0
    /\ \A t, u \in Calls : \A j \in Frames(t), k \in Frames(u) :
        Home(t) = Home(u) /\ stack[t][j].name = stack[u][k].name => t = u /\ j = k
    /\ \A c \in Containers : \A n \in resolving[c] :
        \E t \in Calls : Home(t) = c /\ \E k \in Frames(t) : stack[t][k].name = n

\* The dependencies that a frame has passed are in its container, and so is the service
\* that a get() has just returned.
Supplied ==
    \A t \in Calls :
        /\ \A k \in Frames(t) : \A j \in 1..(stack[t][k].at - 1) :
            services[Home(t)][Deps[stack[t][k].name][j]] # 0
        /\ ret[t] = "value" =>
            IF Busy(t) THEN services[Home(t)][Deps[Top(t).name][Top(t).at]] # 0
            ELSE services[Home(t)][Asked(t)] # 0

\* Nothing was ever asked of container c.
Untouched(c) ==
    /\ \A n \in Services : services[c][n] = 0
    /\ \A t \in Calls : Home(t) = c => ~Busy(t) /\ ret[t] = "none"

ContainerTypes ==
    /\ registry \in [Singletons -> Nat]
    /\ services \in [Containers -> [Services -> Nat]]
    /\ resolving \in [Containers -> SUBSET Services]
    /\ ret \in [Calls -> {"none", "value", "circular", "failed"}]
    /\ made \in [Services -> Nat]
    /\ thread \in Calls \cup {Nobody}

\* The inductive invariant of the containers.
ContainerInv == ContainerTypes /\ Stacked /\ Chained /\ Named /\ Supplied
----------------------------------------------------------------------------
(* Calls, dependencies, and the stack as a sequence of frames *)

FrameSet == [name : Services, at : Nat]

LEMMA CallFacts ==
  \A t \in Calls : /\ Home(t) \in Containers /\ Asked(t) \in Wanted[Home(t)]
                   /\ Asked(t) \in Services /\ t = <<Home(t), Asked(t)>>
  BY ServicesAssumption DEF Calls, Home, Asked

LEMMA DepFacts ==
  \A n \in Services : /\ Len(Deps[n]) \in Nat
                      /\ \A j \in 1..Len(Deps[n]) : Deps[n][j] \in Services
  BY ServicesAssumption

LEMMA Pushed ==
  ASSUME NEW s \in Seq(FrameSet), NEW f \in FrameSet
  PROVE  /\ Append(s, f) \in Seq(FrameSet) /\ Len(Append(s, f)) = Len(s) + 1
         /\ \A k \in 1..Len(s) : Append(s, f)[k] = s[k]
         /\ Append(s, f)[Len(s) + 1] = f /\ Append(s, f) # <<>>
  OBVIOUS

LEMMA Popped ==
  ASSUME NEW s \in Seq(FrameSet), s # <<>>
  PROVE  /\ Front(s) \in Seq(FrameSet) /\ Len(Front(s)) = Len(s) - 1
         /\ \A k \in 1..(Len(s) - 1) : Front(s)[k] = s[k]
         /\ Len(s) \in Nat \ {0} /\ Last(s) = s[Len(s)] /\ Last(s) \in FrameSet
<1>1. PICK m \in Nat : m + 1 = Len(s)
  OBVIOUS
<1>2. Front(s) = SubSeq(s, 1, m) /\ Last(s) = s[Len(s)] /\ s[Len(s)] \in FrameSet
  BY <1>1 DEF Front, Last
<1>3. SubSeq(s, 1, m) \in Seq(FrameSet) /\ Len(SubSeq(s, 1, m)) = m
  BY <1>1
<1>4. \A k \in 1..m : SubSeq(s, 1, m)[k] = s[k]
  BY <1>1
<1> QED BY <1>1, <1>2, <1>3, <1>4

LEMMA LastInSet ==
  ASSUME NEW F, NEW s \in Seq(F), s # <<>>
  PROVE  s[Len(s)] \in F
  OBVIOUS

LEMMA RecordBump ==
  ASSUME NEW S, NEW s \in Seq([name : S, at : Nat]), s # <<>>
  PROVE  LET f == [name |-> s[Len(s)].name, at |-> s[Len(s)].at + 1] IN
         /\ f \in [name : S, at : Nat]
         /\ [s EXCEPT ![Len(s)].at = @ + 1] = [s EXCEPT ![Len(s)] = f]
<1>1. Len(s) \in Nat \ {0} /\ Len(s) \in DOMAIN s
  OBVIOUS
<1>2. s[Len(s)] \in [name : S, at : Nat]
  BY LastInSet
<1>3. [s EXCEPT ![Len(s)].at = @ + 1]
        = [s EXCEPT ![Len(s)] = [s[Len(s)] EXCEPT !.at = s[Len(s)].at + 1]]
  OBVIOUS
<1>4. \A g \in [name : S, at : Nat] :
        [g EXCEPT !.at = g.at + 1] = [name |-> g.name, at |-> g.at + 1]
  OBVIOUS
<1>5. \A g \in [name : S, at : Nat] :
        [name |-> g.name, at |-> g.at + 1] \in [name : S, at : Nat]
  OBVIOUS
<1> QED BY <1>2, <1>3, <1>4, <1>5

LEMMA Replaced ==
  ASSUME NEW F, NEW s \in Seq(F), s # <<>>, NEW f \in F
  PROVE  /\ [s EXCEPT ![Len(s)] = f] \in Seq(F)
         /\ Len([s EXCEPT ![Len(s)] = f]) = Len(s)
         /\ [s EXCEPT ![Len(s)] = f][Len(s)] = f
         /\ \A k \in 1..Len(s) : k # Len(s) => [s EXCEPT ![Len(s)] = f][k] = s[k]
<1>1. [s EXCEPT ![Len(s)] = f] \in Seq(F) /\ Len([s EXCEPT ![Len(s)] = f]) = Len(s)
  OBVIOUS
<1>2. [s EXCEPT ![Len(s)] = f][Len(s)] = f
  OBVIOUS
<1>3. \A k \in 1..Len(s) : k # Len(s) => [s EXCEPT ![Len(s)] = f][k] = s[k]
  OBVIOUS
<1> QED BY <1>1, <1>2, <1>3

LEMMA Bumped ==
  ASSUME NEW s \in Seq(FrameSet), s # <<>>,
         NEW s2, s2 = [s EXCEPT ![Len(s)].at = @ + 1]
  PROVE  /\ s2 \in Seq(FrameSet) /\ Len(s2) = Len(s)
         /\ \A k \in 1..Len(s) : k # Len(s) => s2[k] = s[k]
         /\ s2[Len(s)].name = s[Len(s)].name /\ s2[Len(s)].at = s[Len(s)].at + 1
<1> DEFINE f == [name |-> s[Len(s)].name, at |-> s[Len(s)].at + 1]
<1>1. f \in FrameSet /\ s2 = [s EXCEPT ![Len(s)] = f]
  BY RecordBump DEF FrameSet
<1>2. f.name = s[Len(s)].name /\ f.at = s[Len(s)].at + 1
  OBVIOUS
<1> HIDE DEF f
<1> QED BY <1>1, <1>2, Replaced

LEMMA SeqFacts ==
  ASSUME NEW s \in Seq(FrameSet)
  PROVE  /\ Len(s) \in Nat /\ (s # <<>> <=> Len(s) > 0)
         /\ s # <<>> => Last(s) = s[Len(s)] /\ s[Len(s)] \in FrameSet
         /\ \A k \in 1..Len(s) : s[k] \in FrameSet
<1>1. Last(s) = s[Len(s)]
  BY DEF Last
<1> QED BY <1>1

LEMMA Busyness ==
  ASSUME Stacked, NEW t \in Calls
  PROVE  /\ stack[t] \in Seq(FrameSet) /\ Len(stack[t]) \in Nat
         /\ Busy(t) <=> Len(stack[t]) > 0
         /\ Busy(t) => Top(t) = stack[t][Len(stack[t])] /\ Len(stack[t]) \in Frames(t)
         /\ \A k \in Frames(t) : /\ stack[t][k].name \in Services /\ stack[t][k].at \in Nat \ {0}
                                 /\ stack[t][k].at <= Len(Deps[stack[t][k].name]) + 1
<1>1. stack[t] \in Seq(FrameSet)
  BY DEF Stacked, FrameSet
<1>2. \A k \in Frames(t) : FrameOK(stack[t][k])
  BY DEF Stacked
<1> QED BY <1>1, <1>2, SeqFacts, DepFacts DEF Busy, Top, Frames, FrameOK

----------------------------------------------------------------------------
(* What each step of a get() does to the invariant of the containers *)

\* n is what call t asks for next.
Awaits(t, n) ==
    IF Busy(t) THEN Top(t).at <= Len(Deps[Top(t).name]) /\ n = Deps[Top(t).name][Top(t).at]
    ELSE n = Asked(t)

\* get() returns or refuses at once.
LEMMA AnswerKeeps ==
  ASSUME ContainerInv, NEW t \in Calls, NEW n \in Services, Awaits(t, n),
         NEW r \in {"value", "circular"}, r = "value" => services[Home(t)][n] # 0,
         ret' = [ret EXCEPT ![t] = r], thread' = Nobody, made' = made,
         registry' = registry, services' = services, resolving' = resolving, stack' = stack
  PROVE  ContainerInv'
<1>0. ContainerTypes /\ Stacked /\ Chained /\ Named /\ Supplied
  BY DEF ContainerInv
<1>1. ContainerTypes'
  BY <1>0 DEF ContainerTypes
<1>2. Stacked' /\ Named'
  <2>1. Stacked'
    BY <1>0 DEF Stacked, Frames, FrameOK
  <2>2. Named'
    BY <1>0 DEF Named, Frames
  <2> QED BY <2>1, <2>2
<1>3. \A u \in Calls : ret'[u] = IF u = t THEN r ELSE ret[u]
  BY <1>0 DEF ContainerTypes
<1>4. Chained'
  BY <1>0, <1>3 DEF Chained, Frames, Busy, Top, Awaits
<1>5. Supplied'
  BY <1>0, <1>3 DEF Supplied, Frames, Busy, Top, Awaits
<1> QED BY <1>1, <1>2, <1>4, <1>5 DEF ContainerInv

\* get() begins to resolve n.
Pushes(t, n) ==
    /\ Awaits(t, n)
    /\ services[Home(t)][n] = 0 /\ n \notin resolving[Home(t)]
    /\ resolving' = [resolving EXCEPT ![Home(t)] = @ \cup {n}]
    /\ stack' = [stack EXCEPT ![t] = Append(@, Frame(n, 1))]
    /\ ret' = [ret EXCEPT ![t] = "none"]
    /\ thread' = t
    /\ UNCHANGED <<registry, services, made>>

LEMMA PushKeeps ==
  ASSUME ContainerInv, NEW t \in Calls, NEW n \in Services, Pushes(t, n)
  PROVE  ContainerInv'
<1> DEFINE m == Len(stack[t])
           f == Frame(n, 1)
<1>0. ContainerTypes /\ Stacked /\ Chained /\ Named /\ Supplied
  BY DEF ContainerInv
<1>a. /\ Awaits(t, n) /\ services[Home(t)][n] = 0 /\ n \notin resolving[Home(t)]
      /\ services' = services /\ thread' = t
  BY DEF Pushes
<1>1. ContainerTypes'
  BY <1>0, CallFacts DEF ContainerTypes, Pushes
<1>2. \A u \in Calls : ret'[u] = IF u = t THEN "none" ELSE ret[u]
  BY <1>0 DEF ContainerTypes, Pushes
<1>3. \A u \in Calls \ {t} : stack'[u] = stack[u]
  BY <1>0 DEF Stacked, Pushes
<1>4. stack'[t] = Append(stack[t], f) /\ f \in FrameSet /\ f.name = n /\ f.at = 1
  BY <1>0 DEF Stacked, Frame, FrameSet, Pushes
<1>5. /\ m \in Nat /\ stack[t] \in Seq(FrameSet) /\ stack'[t] \in Seq(FrameSet)
      /\ Len(stack'[t]) = m + 1 /\ stack'[t][m + 1] = f /\ stack'[t] # <<>>
      /\ \A k \in 1..m : stack'[t][k] = stack[t][k]
  <2>1. stack[t] \in Seq(FrameSet) /\ m \in Nat
    BY <1>0, Busyness
  <2>2. m = Len(stack[t])
    OBVIOUS
  <2> HIDE DEF f, m
  <2> QED BY <1>4, <2>1, <2>2, Pushed
<1>6. Last(stack'[t]) = f
  BY <1>5, SeqFacts
<1> HIDE DEF f, m
<1>11. /\ m \in Nat /\ stack'[t][m + 1].name = n /\ stack'[t][m + 1].at = 1
       /\ \A k \in 1..m : stack'[t][k] = stack[t][k]
  BY <1>4, <1>5
<1>7. Stacked'
  <2>1. stack' \in [Calls -> Seq(FrameSet)]
    BY <1>a, <1>0, <1>5 DEF Stacked, FrameSet, Pushes
  <2>2. \A k \in 1..(m + 1) : FrameOK(stack'[t][k])
    <3>1. FrameOK(f)
      BY <1>4 DEF FrameOK
    <3>2. \A k \in 1..m : FrameOK(stack[t][k])
      BY <1>a, <1>0 DEF Stacked, Frames, m
    <3> QED BY <1>5, <3>1, <3>2
  <2> QED BY <1>a, <1>0, <1>3, <1>5, <2>1, <2>2 DEF Stacked, FrameSet, Frames
<1>8. Chained'
  <2>1. stack'[t][1].name = Asked(t)
    BY <1>a, <1>0, <1>4, <1>5, Busyness, DepFacts DEF Chained, Awaits, m
  <2>2. \A k \in 1..m : /\ stack'[t][k].at <= Len(Deps[stack'[t][k].name])
                        /\ stack'[t][k + 1].name = Deps[stack'[t][k].name][stack'[t][k].at]
    <3> TAKE k \in 1..m
    <3>1. CASE k = m
      BY <1>a, <3>1, <1>0, <1>4, <1>5, Busyness DEF Awaits, m
    <3>2. CASE k # m
      <4>1. k \in Frames(t) /\ k + 1 \in Frames(t) /\ k + 1 \in 1..m
        BY <3>2, <1>5 DEF Frames, m
      <4>2. /\ stack[t][k].at <= Len(Deps[stack[t][k].name])
            /\ stack[t][k + 1].name = Deps[stack[t][k].name][stack[t][k].at]
        BY <4>1, <1>0 DEF Chained
      <4> QED BY <4>1, <4>2, <1>5
    <3> QED BY <3>1, <3>2
  <2>3. \A k \in Frames(t)' : k + 1 \in Frames(t)' => k \in 1..m
    BY <1>5 DEF Frames
  <2>4. \A u \in Calls \ {t} : /\ Busy(u)' <=> Busy(u)
                               /\ Top(u)' = Top(u) /\ Frames(u)' = Frames(u)
    BY <1>3 DEF Busy, Top, Frames
  <2>5. Busy(t)'
    BY <1>5 DEF Busy
  <2>6. \A u \in Calls \ {t} :
        /\ Busy(u)' => stack'[u][1].name = Asked(u)
        /\ \A k \in Frames(u)' : k + 1 \in Frames(u)' =>
            /\ stack'[u][k].at <= Len(Deps[stack'[u][k].name])
            /\ stack'[u][k + 1].name = Deps[stack'[u][k].name][stack'[u][k].at]
        /\ Busy(u)' /\ ret'[u] # "none" => Top(u)'.at <= Len(Deps[Top(u)'.name])
    BY <1>a, <1>0, <1>2, <1>3, <2>4 DEF Chained
  <2> QED BY <1>a, <1>2, <2>1, <2>2, <2>3, <2>5, <2>6 DEF Chained
<1>9. Named'
  <2>1. \A c \in Containers : resolving'[c] = IF c = Home(t) THEN resolving[c] \cup {n}
                                              ELSE resolving[c]
    BY <1>a, <1>0, CallFacts DEF ContainerTypes, Pushes, Pushes
  <2>2. \A u \in Calls, k \in Nat : k \in Frames(u)' <=>
            k \in Frames(u) \/ (u = t /\ k = m + 1)
    BY <1>3, <1>5 DEF Frames, m
  <2>3. \A u \in Calls : \A k \in Frames(u) : stack'[u][k] = stack[u][k] /\ k \in Nat
    <3>1. Frames(t) = 1..m
      BY DEF Frames, m
    <3> QED BY <3>1, <1>3, <1>11 DEF Frames
  <2>4. \A u \in Calls : \A k \in Frames(u) : Home(u) = Home(t) => stack[u][k].name # n
    BY <1>a, <1>0 DEF Named
  <2>5. \A u \in Calls : \A k \in Frames(u)' :
        /\ stack'[u][k].name \in resolving'[Home(u)]
        /\ services'[Home(u)][stack'[u][k].name] = 0
    <3> TAKE u \in Calls
    <3> TAKE k \in Frames(u)'
    <3>1. CASE k \in Frames(u)
      <4>1. stack[u][k].name \in resolving[Home(u)] /\ services[Home(u)][stack[u][k].name] = 0
        BY <3>1, <1>0 DEF Named
      <4>2. Home(u) \in Containers /\ stack'[u][k] = stack[u][k]
        BY <3>1, <2>3, CallFacts
      <4> QED BY <1>a, <2>1, <4>1, <4>2
    <3>2. CASE u = t /\ k = m + 1
      BY <1>a, <3>2, <1>11, <2>1, CallFacts
    <3>3. k \in Nat
      BY DEF Frames
    <3> QED BY <3>1, <3>2, <3>3, <2>2
  <2>6. \A u, v \in Calls : \A j \in Frames(u)', k \in Frames(v)' :
          Home(u) = Home(v) /\ stack'[u][j].name = stack'[v][k].name => u = v /\ j = k
    <3> SUFFICES ASSUME NEW u \in Calls, NEW v \in Calls,
                        NEW j \in Frames(u)', NEW k \in Frames(v)',
                        Home(u) = Home(v), stack'[u][j].name = stack'[v][k].name
                 PROVE  u = v /\ j = k
      OBVIOUS
    <3>1. j \in Nat /\ k \in Nat
      BY DEF Frames
    <3>2. CASE j \in Frames(u) /\ k \in Frames(v)
      BY <1>a, <3>2, <1>0, <2>3 DEF Named
    <3>3. CASE u = t /\ j = m + 1 /\ k \in Frames(v)
      BY <1>a, <3>3, <1>11, <2>3, <2>4
    <3>4. CASE v = t /\ k = m + 1 /\ j \in Frames(u)
      BY <3>4, <1>11, <2>3, <2>4
    <3> QED BY <3>1, <3>2, <3>3, <3>4, <2>2
  <2>7. \A c \in Containers : \A x \in resolving'[c] :
          \E u \in Calls : Home(u) = c /\ \E k \in Frames(u)' : stack'[u][k].name = x
    <3> SUFFICES ASSUME NEW c \in Containers, NEW x \in resolving'[c]
                 PROVE  \E u \in Calls : /\ Home(u) = c
                                         /\ \E k \in Frames(u)' : stack'[u][k].name = x
      OBVIOUS
    <3>1. CASE x \in resolving[c]
      <4>1. PICK u \in Calls : Home(u) = c /\ \E k \in Frames(u) : stack[u][k].name = x
        BY <1>a, <3>1, <1>0 DEF Named
      <4>2. PICK k \in Frames(u) : stack[u][k].name = x
        BY <4>1
      <4>3. k \in Frames(u)' /\ stack'[u][k].name = x
        BY <4>2, <2>2, <2>3
      <4> QED BY <4>1, <4>3
    <3>2. CASE c = Home(t) /\ x = n
      <4>1. m + 1 \in Frames(t)'
        BY <1>5 DEF Frames
      <4> QED BY <4>1, <3>2, <1>11
    <3> QED BY <3>1, <3>2, <2>1
  <2> QED BY <2>5, <2>6, <2>7 DEF Named
<1>10. Supplied'
  <2>1. \A u \in Calls \ {t} : Busy(u)' = Busy(u) /\ Top(u)' = Top(u) /\ Frames(u)' = Frames(u)
    BY <1>3 DEF Busy, Top, Frames
  <2>2. \A u \in Calls \ {t} :
        /\ \A k \in Frames(u)' : \A j \in 1..(stack'[u][k].at - 1) :
            services'[Home(u)][Deps[stack'[u][k].name][j]] # 0
        /\ ret'[u] = "value" =>
            IF Busy(u)' THEN services'[Home(u)][Deps[Top(u)'.name][Top(u)'.at]] # 0
            ELSE services'[Home(u)][Asked(u)] # 0
    BY <1>a, <1>0, <1>2, <1>3, <2>1 DEF Supplied
  <2>3. \A k \in Frames(t)' : \A j \in 1..(stack'[t][k].at - 1) :
            services'[Home(t)][Deps[stack'[t][k].name][j]] # 0
    <3>1. \A j \in 1..(stack'[t][m + 1].at - 1) : FALSE
      BY <1>11
    <3>2. \A k \in Frames(t)' : k = m + 1 \/ k \in Frames(t)
      BY <1>5 DEF Frames, m
    <3>3. \A k \in Frames(t) : stack'[t][k] = stack[t][k]
      BY <1>11 DEF Frames, m
    <3>4. \A k \in Frames(t) : \A j \in 1..(stack[t][k].at - 1) :
            services[Home(t)][Deps[stack[t][k].name][j]] # 0
      BY <1>a, <1>0 DEF Supplied
    <3> QED BY <1>a, <3>1, <3>2, <3>3, <3>4
  <2>4. ret'[t] # "value"
    BY <1>2
  <2> QED BY <2>2, <2>3, <2>4 DEF Supplied
<1> QED BY <1>1, <1>7, <1>8, <1>9, <1>10 DEF ContainerInv

\* The innermost get() ends, with a new instance if it succeeds.
Leaves(t, result) ==
    /\ Busy(t)
    /\ result \in {"value", "circular", "failed"}
    /\ Leave(t, result)
    /\ registry' \in [Singletons -> Nat] /\ made' \in [Services -> Nat]
    /\ \/ result # "value" /\ UNCHANGED services
       \/ /\ result = "value"
          /\ \E v \in Nat \ {0} : services' = [services EXCEPT ![Home(t)][Top(t).name] = v]

LEMMA LeaveKeeps ==
  ASSUME ContainerInv, NEW t \in Calls, NEW result, Leaves(t, result)
  PROVE  /\ ContainerInv'
         /\ \A c \in Containers, n \in Services :
              services[c][n] # 0 => services'[c][n] = services[c][n]
<1> DEFINE m == Len(stack[t])
           x == stack[t][m].name
<1>0. ContainerTypes /\ Stacked /\ Chained /\ Named /\ Supplied
  BY DEF ContainerInv
<1>a. /\ m \in Nat \ {0} /\ m \in Frames(t) /\ x \in Services /\ Top(t).name = x
      /\ stack[t] \in Seq(FrameSet) /\ stack[t] # <<>>
  BY <1>0, Busyness DEF Leaves, Busy
<1>b. thread' = Nobody /\ result \in {"value", "circular", "failed"}
  BY DEF Leaves, Leave
<1>1. \A u \in Calls : ret'[u] = IF u = t THEN result ELSE ret[u]
  BY <1>0 DEF ContainerTypes, Leaves, Leave
<1>2. \A u \in Calls \ {t} : stack'[u] = stack[u]
  BY <1>0 DEF Stacked, Leaves, Leave
<1>3. /\ stack'[t] \in Seq(FrameSet) /\ Len(stack'[t]) = m - 1
      /\ \A k \in 1..(m - 1) : stack'[t][k] = stack[t][k]
  <2>1. stack'[t] = Front(stack[t])
    BY <1>0 DEF Stacked, Leaves, Leave
  <2> QED BY <1>a, <2>1, Popped DEF m
<1>4. \A c \in Containers : resolving'[c] = IF c = Home(t) THEN resolving[c] \ {x}
                                            ELSE resolving[c]
  BY <1>0, <1>a, CallFacts DEF ContainerTypes, Leaves, Leave
<1>5. /\ services' \in [Containers -> [Services -> Nat]]
      /\ result = "value" => services'[Home(t)][x] # 0
      /\ \A c \in Containers, n \in Services :
            services'[c][n] = services[c][n] \/ (c = Home(t) /\ n = x)
  <2>1. CASE result # "value" /\ UNCHANGED services
    BY <2>1, <1>0 DEF ContainerTypes
  <2>2. CASE /\ result = "value"
             /\ \E v \in Nat \ {0} : services' = [services EXCEPT ![Home(t)][Top(t).name] = v]
    <3>1. PICK v \in Nat \ {0} : services' = [services EXCEPT ![Home(t)][x] = v]
      BY <2>2, <1>a
    <3>2. services \in [Containers -> [Services -> Nat]] /\ Home(t) \in Containers
      BY <1>0, CallFacts DEF ContainerTypes
    <3> HIDE DEF x
    <3>3. services' \in [Containers -> [Services -> Nat]] /\ services'[Home(t)][x] # 0
      BY <3>1, <3>2, <1>a
    <3>4. \A c \in Containers, n \in Services :
            services'[c][n] = services[c][n] \/ (c = Home(t) /\ n = x)
      BY <3>1, <3>2, <1>a
    <3> QED BY <3>3, <3>4
  <2> QED BY <2>1, <2>2 DEF Leaves
<1>6. services[Home(t)][x] = 0
  BY <1>0, <1>a DEF Named
<1>7. \A c \in Containers, n \in Services :
        services[c][n] # 0 => services'[c][n] = services[c][n]
  BY <1>5, <1>6
<1>8. \A c \in Containers, n \in Services : services[c][n] # 0 => services'[c][n] # 0
  BY <1>7
<1>9. /\ \A u \in Calls : Frames(u) \subseteq Nat
      /\ \A u \in Calls : \A k \in Frames(u)' :
            k \in Frames(u) /\ (u = t => k # m) /\ stack'[u][k] = stack[u][k]
      /\ \A u \in Calls : \A k \in Frames(u) : k \in Frames(u)' \/ (u = t /\ k = m)
  <2>1. Frames(t)' = 1..(m - 1)
    BY <1>3 DEF Frames
  <2>2. Frames(t) = 1..m
    BY DEF Frames, m
  <2>3. \A u \in Calls \ {t} : Frames(u)' = Frames(u)
    BY <1>2 DEF Frames
  <2> HIDE DEF x, m
  <2> QED BY <1>2, <1>3, <1>a, <2>1, <2>2, <2>3 DEF Frames
<1>10. Busy(t)' => m - 1 \in Frames(t) /\ Top(t)' = stack[t][m - 1]
  <2>1. Busy(t)' => m - 1 > 0 /\ Top(t)' = stack'[t][m - 1]
    BY <1>3, SeqFacts DEF Busy, Top
  <2> QED BY <2>1, <1>3, <1>a DEF Frames
<1>11. \A u \in Calls \ {t} : Busy(u)' = Busy(u) /\ Top(u)' = Top(u)
  BY <1>2 DEF Busy, Top
<1>12. \A k \in Frames(t) : k + 1 \in Frames(t) =>
            /\ stack[t][k].at <= Len(Deps[stack[t][k].name])
            /\ stack[t][k + 1].name = Deps[stack[t][k].name][stack[t][k].at]
  BY <1>0 DEF Chained
<1>c. Home(t) \in Containers /\ x = stack[t][m].name
  BY CallFacts
<1> HIDE DEF m, x
<1>13. Busy(t)' => /\ Top(t)'.at <= Len(Deps[Top(t)'.name])
                   /\ x = Deps[Top(t)'.name][Top(t)'.at]
  BY <1>10, <1>12, <1>a, <1>c
<1>14. ContainerTypes'
  BY <1>0, <1>1, <1>5 DEF ContainerTypes, Leaves, Leave
<1>15. Stacked'
  <2>1. stack' \in [Calls -> Seq(FrameSet)]
    BY <1>0, <1>2, <1>3 DEF Stacked, Leaves, Leave, FrameSet
  <2>2. \A u \in Calls : \A k \in Frames(u)' : FrameOK(stack'[u][k])
    BY <1>9, <1>0 DEF Stacked
  <2> QED BY <2>1, <2>2 DEF Stacked, FrameSet
<1>16. Chained'
  <2>1. \A u \in Calls : Busy(u)' => stack'[u][1].name = Asked(u)
    <3> SUFFICES ASSUME NEW u \in Calls, Busy(u)'  PROVE stack'[u][1].name = Asked(u)
      OBVIOUS
    <3>1. stack[u][1].name = Asked(u)
      BY <1>0, <1>11, <1>a DEF Chained, Busy
    <3>2. CASE u # t
      BY <3>1, <3>2, <1>2
    <3>3. CASE u = t
      BY <3>1, <3>3, <1>3, SeqFacts DEF Busy
    <3> QED BY <3>2, <3>3
  <2>2. \A u \in Calls : \A k \in Frames(u)' : k + 1 \in Frames(u)' =>
            /\ stack'[u][k].at <= Len(Deps[stack'[u][k].name])
            /\ stack'[u][k + 1].name = Deps[stack'[u][k].name][stack'[u][k].at]
    <3>1. \A u \in Calls : \A k \in Frames(u) : k + 1 \in Frames(u) =>
            /\ stack[u][k].at <= Len(Deps[stack[u][k].name])
            /\ stack[u][k + 1].name = Deps[stack[u][k].name][stack[u][k].at]
      BY <1>0 DEF Chained
    <3> QED BY <3>1, <1>9
  <2>3. \A u \in Calls : Busy(u)' /\ ret'[u] # "none" => Top(u)'.at <= Len(Deps[Top(u)'.name])
    BY <1>0, <1>1, <1>11, <1>13 DEF Chained
  <2> QED BY <1>b, <2>1, <2>2, <2>3 DEF Chained
<1>17. Named'
  <2>1. \A u \in Calls : \A k \in Frames(u) :
          /\ stack[u][k].name \in resolving[Home(u)]
          /\ services[Home(u)][stack[u][k].name] = 0
          /\ Home(u) = Home(t) /\ stack[u][k].name = x => u = t /\ k = m
    BY <1>0, <1>a, <1>c DEF Named
  <2>2. \A u \in Calls : \A k \in Frames(u)' :
          /\ stack'[u][k].name \in resolving'[Home(u)]
          /\ services'[Home(u)][stack'[u][k].name] = 0
    <3> SUFFICES ASSUME NEW u \in Calls, NEW k \in Frames(u)'
                 PROVE  /\ stack'[u][k].name \in resolving'[Home(u)]
                        /\ services'[Home(u)][stack'[u][k].name] = 0
      OBVIOUS
    <3>1. /\ k \in Frames(u) /\ stack'[u][k] = stack[u][k] /\ Home(u) \in Containers
          /\ stack[u][k].name \in Services
      BY <1>0, <1>9, Busyness, CallFacts
    <3>2. Home(u) = Home(t) => stack[u][k].name # x
      BY <3>1, <2>1, <1>9
    <3>3. /\ stack[u][k].name \in resolving[Home(u)]
          /\ services[Home(u)][stack[u][k].name] = 0
      BY <3>1, <2>1
    <3>4. stack[u][k].name \in resolving'[Home(u)]
      BY <3>1, <3>2, <3>3, <1>4
    <3>5. services'[Home(u)][stack[u][k].name] = 0
      BY <3>1, <3>2, <3>3, <1>5
    <3> QED BY <3>1, <3>4, <3>5
  <2>3. \A u, v \in Calls : \A j \in Frames(u)', k \in Frames(v)' :
          Home(u) = Home(v) /\ stack'[u][j].name = stack'[v][k].name => u = v /\ j = k
    <3>1. \A u, v \in Calls : \A j \in Frames(u), k \in Frames(v) :
            Home(u) = Home(v) /\ stack[u][j].name = stack[v][k].name => u = v /\ j = k
      BY <1>0 DEF Named
    <3> QED BY <3>1, <1>9
  <2>4. \A c \in Containers : \A y \in resolving'[c] :
          \E u \in Calls : Home(u) = c /\ \E k \in Frames(u)' : stack'[u][k].name = y
    <3> SUFFICES ASSUME NEW c \in Containers, NEW y \in resolving'[c]
                 PROVE  \E u \in Calls : /\ Home(u) = c
                                         /\ \E k \in Frames(u)' : stack'[u][k].name = y
      OBVIOUS
    <3>1. y \in resolving[c] /\ (c = Home(t) => y # x)
      BY <1>4
    <3>2. PICK u \in Calls : Home(u) = c /\ \E k \in Frames(u) : stack[u][k].name = y
      BY <3>1, <1>0 DEF Named
    <3>3. PICK k \in Frames(u) : stack[u][k].name = y
      BY <3>2
    <3>4. k \in Frames(u)' /\ stack'[u][k].name = y
      BY <3>1, <3>2, <3>3, <1>9, <1>c
    <3> QED BY <3>2, <3>4
  <2> QED BY <2>2, <2>3, <2>4 DEF Named
<1>18. Supplied'
  <2>1. \A u \in Calls : \A k \in Frames(u)' : \A j \in 1..(stack'[u][k].at - 1) :
            services'[Home(u)][Deps[stack'[u][k].name][j]] # 0
    <3> SUFFICES ASSUME NEW u \in Calls, NEW k \in Frames(u)',
                        NEW j \in 1..(stack'[u][k].at - 1)
                 PROVE  services'[Home(u)][Deps[stack'[u][k].name][j]] # 0
      OBVIOUS
    <3>1. /\ k \in Frames(u) /\ stack'[u][k] = stack[u][k] /\ Home(u) \in Containers
          /\ stack[u][k].name \in Services /\ stack[u][k].at \in Nat
          /\ stack[u][k].at <= Len(Deps[stack[u][k].name]) + 1
      BY <1>0, <1>9, Busyness, CallFacts
    <3>2. Deps[stack[u][k].name][j] \in Services
      BY <3>1, DepFacts
    <3>3. services[Home(u)][Deps[stack[u][k].name][j]] # 0
      BY <3>1, <1>0 DEF Supplied
    <3> QED BY <3>1, <3>2, <3>3, <1>8
  <2>2. \A u \in Calls : ret'[u] = "value" =>
            IF Busy(u)' THEN services'[Home(u)][Deps[Top(u)'.name][Top(u)'.at]] # 0
            ELSE services'[Home(u)][Asked(u)] # 0
    <3> SUFFICES ASSUME NEW u \in Calls, ret'[u] = "value"
                 PROVE  IF Busy(u)' THEN services'[Home(u)][Deps[Top(u)'.name][Top(u)'.at]] # 0
                        ELSE services'[Home(u)][Asked(u)] # 0
      OBVIOUS
    <3>1. CASE u = t
      <4>1. services'[Home(t)][x] # 0
        BY <3>1, <1>1, <1>5
      <4>2. ~Busy(t)' => x = Asked(t)
        <5>1. ~Busy(t)' => m = 1
          BY <1>3, <1>a, SeqFacts DEF Busy
        <5>2. stack[t][1].name = Asked(t)
          BY <1>0, <1>a DEF Chained, Busy
        <5> QED BY <5>1, <5>2, <1>c
      <4> QED BY <3>1, <4>1, <4>2, <1>13
    <3>2. CASE u # t
      <4>1. ret[u] = "value" /\ Busy(u)' = Busy(u) /\ Top(u)' = Top(u) /\ Home(u) \in Containers
        BY <3>2, <1>1, <1>11, CallFacts
      <4>2. IF Busy(u) THEN services[Home(u)][Deps[Top(u).name][Top(u).at]] # 0
            ELSE services[Home(u)][Asked(u)] # 0
        BY <4>1, <1>0 DEF Supplied
      <4>3. Busy(u) => Deps[Top(u).name][Top(u).at] \in Services
        <5> SUFFICES ASSUME Busy(u) PROVE Deps[Top(u).name][Top(u).at] \in Services
          OBVIOUS
        <5>1. Top(u).name \in Services /\ Top(u).at \in Nat \ {0}
          BY <1>0, Busyness
        <5>2. Top(u).at <= Len(Deps[Top(u).name])
          BY <4>1, <1>0 DEF Chained
        <5> QED BY <5>1, <5>2, DepFacts
      <4> QED BY <4>1, <4>2, <4>3, <1>8, CallFacts
    <3> QED BY <3>1, <3>2
  <2> QED BY <2>1, <2>2 DEF Supplied
<1> QED BY <1>7, <1>14, <1>15, <1>16, <1>17, <1>18 DEF ContainerInv

\* A frame goes on with its next dependency.
Bumps(t) ==
    /\ thread = Nobody /\ Busy(t) /\ ret[t] = "value"
    /\ stack' = [stack EXCEPT ![t][Len(stack[t])].at = @ + 1]
    /\ ret' = [ret EXCEPT ![t] = "none"]
    /\ thread' = t
    /\ UNCHANGED <<registry, services, resolving, made>>

LEMMA BumpKeeps ==
  ASSUME ContainerInv, NEW t \in Calls, Bumps(t)
  PROVE  ContainerInv'
<1> DEFINE m == Len(stack[t])
<1>0. ContainerTypes /\ Stacked /\ Chained /\ Named /\ Supplied
  BY DEF ContainerInv
<1>a. /\ m \in Nat \ {0} /\ m \in Frames(t) /\ Top(t) = stack[t][m] /\ Frames(t) = 1..m
      /\ stack[t] \in Seq(FrameSet) /\ stack[t] # <<>>
  BY <1>0, Busyness DEF Bumps, Busy, Frames
<1>b. /\ ret[t] = "value" /\ thread' = t /\ services' = services
      /\ resolving' = resolving
  BY DEF Bumps
<1>1. \A u \in Calls : ret'[u] = IF u = t THEN "none" ELSE ret[u]
  BY <1>0 DEF ContainerTypes, Bumps
<1>2. \A u \in Calls \ {t} : stack'[u] = stack[u]
  BY <1>0 DEF Stacked, Bumps
<1>3. /\ stack'[t] \in Seq(FrameSet) /\ Len(stack'[t]) = m
      /\ \A k \in 1..m : k # m => stack'[t][k] = stack[t][k]
      /\ stack'[t][m].name = stack[t][m].name /\ stack'[t][m].at = stack[t][m].at + 1
  <2>1. stack'[t] = [stack[t] EXCEPT ![Len(stack[t])].at = @ + 1]
    BY <1>0 DEF Stacked, Bumps
  <2> QED BY <1>a, <2>1, Bumped DEF m
<1>4. Busy(t) /\ Busy(t)'
  BY <1>3, <1>a, SeqFacts DEF Busy
<1>5. \A u \in Calls \ {t} : Busy(u)' = Busy(u) /\ Top(u)' = Top(u)
  BY <1>2 DEF Busy, Top
<1>6. \A u \in Calls : Frames(u)' = Frames(u) /\ Frames(u) \subseteq Nat
  BY <1>2, <1>3 DEF Frames
<1> HIDE DEF m
<1>7. \A u \in Calls : \A k \in Frames(u) :
        /\ stack'[u][k].name = stack[u][k].name
        /\ ~ (u = t /\ k = m) => stack'[u][k] = stack[u][k]
  BY <1>2, <1>3, <1>a
<1>8. /\ stack[t][m].name \in Services /\ stack[t][m].at \in Nat \ {0}
      /\ stack[t][m].at <= Len(Deps[stack[t][m].name])
      /\ services[Home(t)][Deps[stack[t][m].name][stack[t][m].at]] # 0
  <2>1. stack[t][m].name \in Services /\ stack[t][m].at \in Nat \ {0}
    BY <1>0, <1>a, Busyness
  <2>2. Top(t).at <= Len(Deps[Top(t).name])
    BY <1>0, <1>b, <1>4 DEF Chained
  <2>3. services[Home(t)][Deps[Top(t).name][Top(t).at]] # 0
    BY <1>0, <1>b, <1>4 DEF Supplied
  <2> QED BY <2>1, <2>2, <2>3, <1>a
<1>9. ContainerTypes'
  BY <1>0, <1>1 DEF ContainerTypes, Bumps
<1>10. Stacked'
  <2>1. stack' \in [Calls -> Seq(FrameSet)]
    BY <1>0, <1>2, <1>3 DEF Stacked, Bumps, FrameSet
  <2>2. FrameOK(stack'[t][m])
    BY <1>3, <1>8, DepFacts DEF FrameOK
  <2>3. \A u \in Calls : \A k \in Frames(u)' : FrameOK(stack'[u][k])
    BY <2>2, <1>6, <1>7, <1>0 DEF Stacked
  <2> QED BY <2>1, <2>3 DEF Stacked, FrameSet
<1>11. Chained'
  <2>1. \A u \in Calls : Busy(u)' => stack'[u][1].name = Asked(u)
    <3>1. 1 \in Frames(t)
      BY <1>a
    <3>2. \A u \in Calls : Busy(u) => stack[u][1].name = Asked(u)
      BY <1>0 DEF Chained
    <3> QED BY <3>1, <3>2, <1>2, <1>4, <1>5, <1>7
  <2>2. \A u \in Calls : \A k \in Frames(u)' : k + 1 \in Frames(u)' =>
            /\ stack'[u][k].at <= Len(Deps[stack'[u][k].name])
            /\ stack'[u][k + 1].name = Deps[stack'[u][k].name][stack'[u][k].at]
    <3>1. \A u \in Calls : \A k \in Frames(u) : k + 1 \in Frames(u) =>
            /\ stack[u][k].at <= Len(Deps[stack[u][k].name])
            /\ stack[u][k + 1].name = Deps[stack[u][k].name][stack[u][k].at]
      BY <1>0 DEF Chained
    <3>2. \A k \in Frames(t) : k + 1 \in Frames(t) => k # m
      BY <1>a
    <3> QED BY <3>1, <3>2, <1>6, <1>7
  <2>3. \A u \in Calls : Busy(u)' /\ ret'[u] # "none" => Top(u)'.at <= Len(Deps[Top(u)'.name])
    BY <1>0, <1>1, <1>5 DEF Chained
  <2> QED BY <1>1, <1>4, <1>b, <2>1, <2>2, <2>3 DEF Chained
<1>12. Named'
  <2>1. /\ \A u \in Calls : \A k \in Frames(u)' :
            /\ stack'[u][k].name \in resolving'[Home(u)]
            /\ services'[Home(u)][stack'[u][k].name] = 0
        /\ \A u, v \in Calls : \A j \in Frames(u)', k \in Frames(v)' :
            Home(u) = Home(v) /\ stack'[u][j].name = stack'[v][k].name => u = v /\ j = k
    BY <1>0, <1>6, <1>7, <1>b DEF Named
  <2>2. \A c \in Containers : \A n \in resolving'[c] :
          \E u \in Calls : Home(u) = c /\ \E k \in Frames(u)' : stack'[u][k].name = n
    <3> SUFFICES ASSUME NEW c \in Containers, NEW n \in resolving[c]
                 PROVE  \E u \in Calls : Home(u) = c /\ \E k \in Frames(u) : stack'[u][k].name = n
      BY <1>6, <1>b
    <3>1. PICK u \in Calls : Home(u) = c /\ \E k \in Frames(u) : stack[u][k].name = n
      BY <1>0 DEF Named
    <3> QED BY <3>1, <1>7
  <2> QED BY <2>1, <2>2 DEF Named
<1>13. Supplied'
  <2>1. \A u \in Calls : \A k \in Frames(u)' : \A j \in 1..(stack'[u][k].at - 1) :
            services'[Home(u)][Deps[stack'[u][k].name][j]] # 0
    <3>1. \A u \in Calls : \A k \in Frames(u) : \A j \in 1..(stack[u][k].at - 1) :
            services[Home(u)][Deps[stack[u][k].name][j]] # 0
      BY <1>0 DEF Supplied
    <3>2. \A j \in 1..(stack'[t][m].at - 1) :
            services[Home(t)][Deps[stack'[t][m].name][j]] # 0
      <4> TAKE j \in 1..(stack'[t][m].at - 1)
      <4>1. j \in 1..(stack[t][m].at - 1) \/ j = stack[t][m].at
        BY <1>3, <1>8
      <4> QED BY <4>1, <3>1, <1>3, <1>8, <1>a
    <3> QED BY <3>1, <3>2, <1>6, <1>7, <1>b
  <2>2. \A u \in Calls : ret'[u] = "value" =>
            IF Busy(u)' THEN services'[Home(u)][Deps[Top(u)'.name][Top(u)'.at]] # 0
            ELSE services'[Home(u)][Asked(u)] # 0
    BY <1>0, <1>1, <1>5, <1>b DEF Supplied
  <2> QED BY <2>1, <2>2 DEF Supplied
<1> QED BY <1>9, <1>10, <1>11, <1>12, <1>13 DEF ContainerInv

\* A step that disturbs no frame: a result is taken, a factory is called.
LEMMA IdleKeeps ==
  ASSUME ContainerInv, UNCHANGED <<services, resolving, stack>>,
         registry' \in [Singletons -> Nat], made' = made, thread' \in {Nobody, thread},
         ret' \in [Calls -> {"none", "value", "circular", "failed"}],
         \A t \in Calls : ret'[t] \in {ret[t], "none"}
  PROVE  ContainerInv'
<1>0. ContainerTypes /\ Stacked /\ Chained /\ Named /\ Supplied
  BY DEF ContainerInv
<1>1. ContainerTypes'
  BY <1>0 DEF ContainerTypes
<1>2. Stacked'
  BY <1>0 DEF Stacked, Frames, FrameOK
<1>3. Chained'
  <2>1. \A t \in Calls : Busy(t)' = Busy(t) /\ Top(t)' = Top(t) /\ Frames(t)' = Frames(t)
    BY DEF Busy, Top, Frames
  <2>2. \A t \in Calls : ret'[t] # "none" => ret[t] # "none"
    OBVIOUS
  <2>3. thread' # Nobody => Busy(thread') /\ ret'[thread'] = "none"
    BY <1>0 DEF Chained, ContainerTypes
  <2> QED BY <1>0, <2>1, <2>2, <2>3 DEF Chained, Busy
<1>4. Named'
  BY <1>0 DEF Named, Frames
<1>5. Supplied'
  <2>1. \A t \in Calls : Busy(t)' = Busy(t) /\ Top(t)' = Top(t) /\ Frames(t)' = Frames(t)
    BY DEF Busy, Top, Frames
  <2>2. \A t \in Calls : ret'[t] = "value" => ret[t] = "value"
    OBVIOUS
  <2> QED BY <1>0, <2>1, <2>2 DEF Supplied
<1> QED BY <1>1, <1>2, <1>3, <1>4, <1>5 DEF ContainerInv

\* No instance leaves a container or is replaced in it.
Stable == \A c \in Containers, n \in Services :
            services[c][n] # 0 => services'[c][n] = services[c][n]

\* A container nobody has used may take the singletons there are.
LEMMA NewContainerKeeps ==
  ASSUME ContainerInv, NEW c \in Containers, Untouched(c), NewContainer(c)
  PROVE  ContainerInv' /\ Stable
<1>0. ContainerTypes /\ Stacked /\ Chained /\ Named /\ Supplied
  BY DEF ContainerInv
<1>1. UNCHANGED <<registry, resolving, stack, ret, made, thread>>
  BY DEF NewContainer
<1>2. services' \in [Containers -> [Services -> Nat]]
  BY <1>0, ServicesAssumption DEF ContainerTypes, NewContainer
<1>3. \A d \in Containers : d # c => services'[d] = services[d]
  BY <1>0 DEF ContainerTypes, NewContainer
<1>4. \A t \in Calls : Home(t) = c => Frames(t) = {} /\ ~Busy(t) /\ ret[t] # "value"
  BY <1>0, Busyness DEF Untouched, Frames
<1>5. \A t \in Calls : Busy(t)' = Busy(t) /\ Top(t)' = Top(t) /\ Frames(t)' = Frames(t)
  BY <1>1 DEF Busy, Top, Frames
<1>6. ContainerTypes'
  BY <1>0, <1>1, <1>2 DEF ContainerTypes
<1>7. Stacked'
  BY <1>0, <1>1 DEF Stacked, Frames, FrameOK
<1>8. Chained'
  BY <1>0, <1>1 DEF Chained, Frames, Busy, Top
<1>9. Named'
  BY <1>0, <1>1, <1>3, <1>4, <1>5, CallFacts DEF Named
<1>10. Supplied'
  BY <1>0, <1>1, <1>3, <1>4, <1>5, CallFacts DEF Supplied
<1>11. Stable
  BY <1>3 DEF Untouched, Stable
<1> QED BY <1>6, <1>7, <1>8, <1>9, <1>10, <1>11 DEF ContainerInv

\* A step of call t leaves the other calls, and the other containers, alone
Aside(t) ==
    /\ \A c \in Containers : c # Home(t) => services'[c] = services[c]
    /\ \A u \in Calls : u # t => stack'[u] = stack[u] /\ ret'[u] = ret[u]

LEMMA EnterKeeps ==
  ASSUME ContainerInv, NEW t \in Calls, NEW n \in Services, Awaits(t, n),
         Enter(t, n), UNCHANGED <<registry, services, made>>
  PROVE  ContainerInv' /\ Stable /\ Aside(t)
<1>0. /\ stack \in [Calls -> Seq(FrameSet)]
      /\ ret \in [Calls -> {"none", "value", "circular", "failed"}]
  BY DEF ContainerInv, ContainerTypes, Stacked, FrameSet
<1>1. CASE services[Home(t)][n] # 0
  <2>1. ret' = [ret EXCEPT ![t] = "value"] /\ thread' = Nobody /\ UNCHANGED <<resolving, stack>>
    BY <1>1 DEF Enter
  <2> QED BY <1>0, <1>1, <2>1, AnswerKeeps DEF Stable, Aside
<1>2. CASE services[Home(t)][n] = 0 /\ n \in resolving[Home(t)]
  <2>1. /\ ret' = [ret EXCEPT ![t] = "circular"] /\ thread' = Nobody
        /\ UNCHANGED <<resolving, stack>>
    BY <1>2 DEF Enter
  <2> QED BY <1>0, <2>1, AnswerKeeps DEF Stable, Aside
<1>3. CASE services[Home(t)][n] = 0 /\ n \notin resolving[Home(t)]
  <2>1. Pushes(t, n)
    BY <1>3 DEF Enter, Pushes
  <2>2. ContainerInv'
    BY <2>1, PushKeeps
  <2> QED BY <1>0, <2>1, <2>2 DEF Stable, Aside, Pushes
<1> QED BY <1>1, <1>2, <1>3

LEMMA AwaitedIsService ==
  ASSUME ContainerInv, NEW t \in Calls, Busy(t), Top(t).at <= Len(Deps[Top(t).name])
  PROVE  Deps[Top(t).name][Top(t).at] \in Services
<1>1. Top(t).name \in Services /\ Top(t).at \in Nat \ {0}
  BY Busyness DEF ContainerInv
<1> QED BY <1>1, DepFacts

LEMMA LeaveAside ==
  ASSUME ContainerInv, NEW t \in Calls, NEW result, Leaves(t, result)
  PROVE  ContainerInv' /\ Stable /\ Aside(t)
<1>1. ContainerInv' /\ Stable
  BY LeaveKeeps DEF Stable
<1>2. /\ stack \in [Calls -> Seq(FrameSet)]
      /\ ret \in [Calls -> {"none", "value", "circular", "failed"}]
      /\ services \in [Containers -> [Services -> Nat]]
  BY DEF ContainerInv, ContainerTypes, Stacked, FrameSet
<1>3. Aside(t)
  BY <1>2, CallFacts DEF Aside, Leaves, Leave
<1> QED BY <1>1, <1>3

\* Every step of a get() keeps the invariant of the containers, replaces no instance and
\* leaves the other calls alone.
LEMMA CallKeeps ==
  ASSUME ContainerInv, NEW t \in Calls, Get(t) \/ GoOn(t) \/ Answered(t)
  PROVE  ContainerInv' /\ Stable /\ Aside(t)
<1>0. /\ ContainerTypes /\ Stacked /\ Chained /\ Named /\ Supplied
      /\ stack \in [Calls -> Seq(FrameSet)]
  BY DEF ContainerInv, Stacked, FrameSet
<1>1. CASE Get(t)
  BY <1>1, EnterKeeps, CallFacts DEF Get, Awaits
<1>2. CASE Descend(t)
  <2>1. Busy(t)
    BY <1>2, <1>0, ServicesAssumption DEF Descend, Chained
  <2> QED BY <1>2, <2>1, EnterKeeps, AwaitedIsService DEF Descend, Awaits
<1>3. CASE Resume(t)
  <2>1. CASE ret[t] = "value"
    <3>1. Bumps(t)
      BY <1>3, <2>1 DEF Resume, Bumps
    <3>2. ContainerInv'
      BY <3>1, BumpKeeps
    <3> QED BY <1>0, <3>1, <3>2 DEF Bumps, Stable, Aside, ContainerTypes
  <2>2. CASE ret[t] # "value"
    <3>1. Leaves(t, ret[t])
      BY <1>0, <1>3, <2>2 DEF Resume, Leaves, ContainerTypes
    <3> QED BY <3>1, LeaveAside
  <2> QED BY <2>1, <2>2
<1>4. CASE Create(t)
  <2>0. Busy(t)
    BY <1>4, <1>0, ServicesAssumption DEF Create, Chained
  <2>1. CASE /\ Top(t).name \in Singletons /\ registry[Top(t).name] # 0
             /\ services' = [services EXCEPT ![Home(t)][Top(t).name] = registry[Top(t).name]]
             /\ Leave(t, "value")
    <3>1. Leaves(t, "value")
      BY <1>0, <1>4, <2>0, <2>1 DEF Create, Leaves, ContainerTypes
    <3> QED BY <3>1, LeaveAside
  <2>2. CASE Leave(t, "failed") /\ UNCHANGED services
    <3>1. Leaves(t, "failed")
      BY <1>0, <1>4, <2>0, <2>2 DEF Create, Leaves, ContainerTypes
    <3> QED BY <3>1, LeaveAside
  <2>3. CASE thread' = Nobody /\ UNCHANGED <<services, resolving, stack, ret>>
    <3>1. ContainerInv'
      BY <1>0, <1>4, <2>3, IdleKeeps DEF Create, ContainerTypes
    <3> QED BY <3>1, <2>3 DEF Stable, Aside
  <2> QED BY <1>4, <2>1, <2>2, <2>3 DEF Create
<1>5. CASE FactoryReturns(t)
  <2>1. Busy(t) /\ Top(t).name \in Services
    BY <1>5, <1>0, Busyness DEF FactoryReturns, InFactory
  <2>2. made' \in [Services -> Nat] /\ made'[Top(t).name] \in Nat \ {0}
    BY <1>5, <1>0, <2>1 DEF FactoryReturns, ContainerTypes
  <2>3. registry' \in [Singletons -> Nat]
    BY <1>5, <1>0, <2>1, <2>2 DEF FactoryReturns, ContainerTypes
  <2>4. Leaves(t, "value")
    BY <1>5, <2>1, <2>2, <2>3 DEF FactoryReturns, Leaves
  <2> QED BY <2>4, LeaveAside
<1>6. CASE FactoryThrows(t)
  <2>1. Leaves(t, "failed")
    BY <1>6, <1>0 DEF FactoryThrows, InFactory, Leaves, ContainerTypes
  <2> QED BY <2>1, LeaveAside
<1>7. CASE Answered(t)
  <2>1. ContainerInv'
    BY <1>7, <1>0, IdleKeeps DEF Answered, ContainerTypes
  <2> QED BY <1>7, <1>0, <2>1 DEF Answered, Stable, Aside, ContainerTypes
<1> QED BY <1>1, <1>2, <1>3, <1>4, <1>5, <1>6, <1>7 DEF GoOn
----------------------------------------------------------------------------
(* The life of the application around its containers *)

\* A request that has not come has nothing; one that is handled has its principal
Served ==
    \A r \in Requests :
        /\ req[r] = "none" => Untouched(r)
        /\ req[r] = "handler" => services[r][Principal] # 0

\* What is true from each stage of the shutdown on
Staged ==
    /\ shut # "no" => start = "running"
    /\ shut \notin {"no", "stopping"} => ~listening
    /\ shut \notin {"no", "stopping", "closing"} => \A r \in Requests : conn[r] # "open"
    /\ shut \notin {"disposing", "rejected"} => disposing = {}
    /\ shut \notin {"plugins", "done", "rejected"} => disposed = {} /\ down = 0
    /\ shut = "rejected" => disposing = {} \/ (disposed = {} /\ down = 0)

LifecycleTypes ==
    /\ start \in {"new", "installing", "afterStart", "running", "rejected", "pending"}
    /\ started \in BOOLEAN /\ listening \in BOOLEAN
    /\ installed \in 0..NPlugins /\ down \in 0..NPlugins
    /\ req \in [Requests -> {"none", "guard", "handler", "done"}]
    /\ conn \in [Requests -> {"none", "open", "closed"}]
    /\ stopper \in [Stoppers -> {"idle", "waiting", "returned"}]
    /\ shut \in {"no", "stopping", "closing", "hooks", "dispose", "disposing", "plugins",
                 "done", "rejected"}
    /\ disposing \subseteq Disposable \X Nat /\ disposed \subseteq Disposable \X Nat

\* The inductive invariant of the application.
ApplicationInv == ContainerInv /\ LifecycleTypes /\ Served /\ Staged

LEMMA ContainerIdle ==
  ASSUME ContainerInv, UNCHANGED container
  PROVE  /\ ContainerInv' /\ Stable
         /\ \A r \in Requests : Untouched(r) => Untouched(r)'
<1>1. ContainerInv'
  BY IdleKeeps DEF ContainerInv, ContainerTypes, container
<1> QED BY <1>1 DEF container, Stable, Untouched, Busy

LEMMA InitApplication == Init => ApplicationInv
<1> SUFFICES ASSUME Init PROVE ApplicationInv
  OBVIOUS
<1> USE DEF Init, InitContainer
<1>1. ContainerTypes
  BY DEF ContainerTypes
<1>2. \A t \in Calls : ~Busy(t) /\ Frames(t) = {} /\ ret[t] = "none"
  BY DEF Busy, Frames
<1>3. Stacked /\ Chained /\ Supplied
  BY <1>2 DEF Stacked, Chained, Supplied
<1>4. Named
  BY <1>2, CallFacts DEF Named
<1>5. LifecycleTypes
  <2>1. started \in BOOLEAN /\ listening \in BOOLEAN
    BY Zenon
  <2> QED BY <2>1, ApplicationAssumption DEF LifecycleTypes
<1>6. Served /\ Staged
  BY <1>2 DEF Served, Staged, Untouched, Containers
<1> QED BY <1>1, <1>3, <1>4, <1>5, <1>6 DEF ApplicationInv, ContainerInv

\* Steps of start(), of a connection and of the shutdown touch no container, save that a
\* disposal empties the registry.
LEMMA LifecycleKeeps ==
  ASSUME ApplicationInv,
         \/ Initialize \/ InstallPlugin \/ Listen \/ AfterStart
         \/ \E r \in Requests : Finish(r) \/ ClientGone(r)
         \/ \E k \in Stoppers : CallShutdown(k)
         \/ Shutdown
  PROVE  ApplicationInv' /\ Stable
<1>0. ContainerInv /\ LifecycleTypes /\ Served /\ Staged /\ ContainerTypes
  BY DEF ApplicationInv, ContainerInv
<1>1. CASE Initialize \/ InstallPlugin \/ Listen \/ AfterStart
  <2>1. UNCHANGED container /\ UNCHANGED traffic /\ UNCHANGED teardown
    BY <1>1 DEF Initialize, InstallPlugin, Listen, AfterStart
  <2>2. ContainerInv' /\ Stable /\ \A r \in Requests : Untouched(r) => Untouched(r)'
    BY <1>0, <2>1, ContainerIdle
  <2>3. LifecycleTypes'
    <3>1. started' \in BOOLEAN /\ listening' \in BOOLEAN
      BY <1>0, <1>1, Zenon DEF LifecycleTypes, Initialize, InstallPlugin, Listen, AfterStart
    <3>2. start' \in {"new", "installing", "afterStart", "running", "rejected", "pending"}
      BY <1>0, <1>1 DEF LifecycleTypes, Initialize, InstallPlugin, Listen, AfterStart
    <3>3. installed' \in 0..NPlugins
      BY <1>0, <1>1, ApplicationAssumption
      DEF LifecycleTypes, Initialize, InstallPlugin, Listen, AfterStart
    <3> QED BY <3>1, <3>2, <3>3, <2>1, <1>0 DEF LifecycleTypes, traffic, teardown
  <2>4. Served'
    BY <1>0, <2>1, <2>2 DEF Served, traffic, container
  <2>5. Staged'
    BY <1>0, <1>1 DEF Staged, Initialize, InstallPlugin, Listen, AfterStart, traffic, teardown
  <2> QED BY <2>2, <2>3, <2>4, <2>5 DEF ApplicationInv
<1>2. CASE \E r \in Requests : Finish(r) \/ ClientGone(r)
  <2>1. PICK r \in Requests : Finish(r) \/ ClientGone(r)
    BY <1>2
  <2>2. UNCHANGED container /\ UNCHANGED lifecycle /\ UNCHANGED teardown
    BY <2>1 DEF Finish, ClientGone
  <2>3. ContainerInv' /\ Stable /\ \A q \in Requests : Untouched(q) => Untouched(q)'
    BY <1>0, <2>2, ContainerIdle
  <2>4. /\ req' = [req EXCEPT ![r] = "done"] \/ req' = req
        /\ conn' = [conn EXCEPT ![r] = "closed"]
    BY <2>1 DEF Finish, ClientGone, Respond
  <2>5. LifecycleTypes'
    BY <1>0, <2>2, <2>4 DEF LifecycleTypes, lifecycle, teardown
  <2>6. Served'
    BY <1>0, <2>2, <2>3, <2>4 DEF Served, LifecycleTypes, container
  <2>7. Staged'
    BY <1>0, <2>2, <2>4 DEF Staged, LifecycleTypes, lifecycle, teardown
  <2> QED BY <2>3, <2>5, <2>6, <2>7 DEF ApplicationInv
<1>3. CASE (\E k \in Stoppers : CallShutdown(k)) \/ (Shutdown /\ ~Disposed)
  <2>1. UNCHANGED container /\ req' = req /\ start' = start /\ installed' = installed
    BY <1>3 DEF CallShutdown, Shutdown, StopListening, ForceClose, Closed, BeforeShutdown,
                DisposeAll, ShutPlugin, AfterShutdown, traffic, lifecycle
  <2>2. ContainerInv' /\ Stable /\ \A q \in Requests : Untouched(q) => Untouched(q)'
    BY <1>0, <2>1, ContainerIdle
  <2>3. Served'
    BY <1>0, <2>1, <2>2 DEF Served, container
  <2>4. LifecycleTypes' /\ Staged'
    <3>1. CASE \E k \in Stoppers : CallShutdown(k)
      BY <3>1, <1>0 DEF CallShutdown, LifecycleTypes, Staged, traffic, lifecycle
    <3>2. CASE StopListening
      BY <3>2, <1>0 DEF StopListening, LifecycleTypes, Staged, traffic
    <3>3. CASE ForceClose
      BY <3>3, <1>0 DEF ForceClose, LifecycleTypes, Staged, lifecycle, teardown
    <3>4. CASE Closed
      BY <3>4, <1>0 DEF Closed, LifecycleTypes, Staged, traffic
    <3>5. CASE BeforeShutdown
      BY <3>5, <1>0 DEF BeforeShutdown, Rejected, LifecycleTypes, Staged, traffic, lifecycle
    <3>6. CASE DisposeAll
      <4>1. Cached \subseteq Disposable \X Nat
        BY <1>0, ApplicationAssumption DEF Cached, ContainerTypes
      <4> QED BY <3>6, <4>1, <1>0
              DEF DisposeAll, Rejected, LifecycleTypes, Staged, traffic, lifecycle
    <3>7. CASE ShutPlugin
      BY <3>7, <1>0, ApplicationAssumption
      DEF ShutPlugin, Rejected, LifecycleTypes, Staged, traffic, lifecycle
    <3>8. CASE AfterShutdown
      BY <3>8, <1>0 DEF AfterShutdown, Rejected, LifecycleTypes, Staged, traffic, lifecycle
    <3> QED BY <1>3, <3>1, <3>2, <3>3, <3>4, <3>5, <3>6, <3>7, <3>8 DEF Shutdown
  <2> QED BY <2>2, <2>3, <2>4 DEF ApplicationInv
<1>4. CASE Disposed
  <2>1. /\ UNCHANGED <<services, resolving, stack, ret, made, thread>>
        /\ registry' \in [Singletons -> Nat]
    BY <1>0, <1>4 DEF Disposed, ContainerTypes
  <2>2. ContainerInv'
    BY <1>0, <2>1, IdleKeeps DEF ContainerTypes
  <2>3. Stable /\ \A r \in Requests : Untouched(r) => Untouched(r)'
    BY <2>1 DEF Stable, Untouched, Busy
  <2>4. Served'
    BY <1>0, <1>4, <2>1, <2>3 DEF Served, Disposed, traffic
  <2>5. LifecycleTypes' /\ Staged'
    BY <1>0, <1>4 DEF Disposed, Rejected, LifecycleTypes, Staged, traffic, lifecycle
  <2> QED BY <2>2, <2>3, <2>4, <2>5 DEF ApplicationInv
<1> QED BY <1>1, <1>2, <1>3, <1>4

\* Steps of a request: it is accepted, and what its calls return is taken.
LEMMA RequestKeeps ==
  ASSUME ApplicationInv,
         \/ \E r \in Requests : Accept(r) \/ Guard(r)
         \/ \E t \in Calls : CallGet(t) \/ Work(t) \/ GotService(t)
  PROVE  ApplicationInv' /\ Stable
<1>0. ContainerInv /\ LifecycleTypes /\ Served /\ Staged /\ ContainerTypes /\ Supplied
  BY DEF ApplicationInv, ContainerInv
<1>1. ASSUME NEW r \in Requests, Accept(r)
      PROVE  ApplicationInv' /\ Stable
  <2>1. Untouched(r) /\ NewContainer(r) /\ r \in Containers
    BY <1>0, <1>1 DEF Accept, Served, Containers
  <2>2. ContainerInv' /\ Stable
    BY <1>0, <2>1, NewContainerKeeps
  <2>3. /\ req' = [req EXCEPT ![r] = "guard"] /\ conn' = [conn EXCEPT ![r] = "open"]
        /\ UNCHANGED lifecycle /\ UNCHANGED teardown /\ listening
    BY <1>1 DEF Accept
  <2>4. LifecycleTypes' /\ Staged'
    BY <1>0, <2>3 DEF LifecycleTypes, Staged, lifecycle, teardown
  <2>5. /\ \A q \in Requests \ {r} : services'[q] = services[q]
        /\ stack' = stack /\ ret' = ret
    BY <1>0, <2>1 DEF NewContainer, ContainerTypes, Containers
  <2>6. Served'
    BY <1>0, <2>3, <2>5 DEF Served, LifecycleTypes, Untouched, Busy
  <2> QED BY <2>2, <2>4, <2>6 DEF ApplicationInv
<1>2. ASSUME NEW t \in Calls, Get(t) \/ GoOn(t) \/ Answered(t),
             UNCHANGED lifecycle, UNCHANGED teardown,
             \A r \in Requests : req[r] = "none" => r # Home(t),
             \A r \in Requests : req'[r] = "none" => req[r] = "none",
             \A r \in Requests : req'[r] = "handler" =>
                req[r] = "handler" \/ services[r][Principal] # 0,
             LifecycleTypes', \A r \in Requests : conn'[r] = "open" => conn[r] = "open"
      PROVE  ApplicationInv' /\ Stable
  <2>1. ContainerInv' /\ Stable /\ Aside(t)
    BY <1>0, <1>2, CallKeeps
  <2>2. Staged'
    BY <1>0, <1>2 DEF Staged, lifecycle, teardown
  <2>3. \A r \in Requests : Untouched(r) /\ r # Home(t) => Untouched(r)'
    BY <2>1 DEF Untouched, Aside, Busy, Containers
  <2>4. \A r \in Requests : Principal \in Services /\ r \in Containers
    BY ServicesAssumption, ApplicationAssumption DEF Containers
  <2>5. Served'
    BY <1>0, <1>2, <2>1, <2>3, <2>4 DEF Served, Stable
  <2> QED BY <1>2, <2>1, <2>2, <2>5 DEF ApplicationInv
<1>3. \A r \in Requests : <<r, Principal>> \in Calls /\ Home(<<r, Principal>>) = r
                          /\ Asked(<<r, Principal>>) = Principal
  BY ApplicationAssumption DEF Calls, Home, Asked, Containers
<1>4. ASSUME NEW r \in Requests, Guard(r)
      PROVE  ApplicationInv' /\ Stable
  <2>1. /\ Answered(<<r, Principal>>) /\ req[r] = "guard"
        /\ UNCHANGED lifecycle /\ UNCHANGED teardown
    BY <1>4 DEF Guard, Guarded
  <2>2. ret[<<r, Principal>>] = "value" => services[r][Principal] # 0
    BY <1>0, <1>3, <2>1 DEF Supplied, Answered
  <2>3. LifecycleTypes'
    BY <1>0, <1>4 DEF LifecycleTypes, Guard, Respond, lifecycle, teardown
  <2>4. /\ \A q \in Requests : req'[q] = "none" => req[q] = "none"
        /\ \A q \in Requests : req'[q] = "handler" =>
                req[q] = "handler" \/ services[q][Principal] # 0
        /\ \A q \in Requests : conn'[q] = "open" => conn[q] = "open"
    BY <1>0, <1>4, <2>2 DEF LifecycleTypes, Guard, Respond
  <2>5. \A q \in Requests : req[q] = "none" => q # Home(<<r, Principal>>)
    BY <1>3, <2>1
  <2> QED BY <1>2, <1>3, <2>1, <2>3, <2>4, <2>5
<1>5. ASSUME NEW t \in Calls, CallGet(t) \/ Work(t) \/ GotService(t)
      PROVE  ApplicationInv' /\ Stable
  <2>1. /\ Get(t) \/ GoOn(t) \/ Answered(t)
        /\ UNCHANGED lifecycle /\ UNCHANGED teardown /\ UNCHANGED traffic
    BY <1>5 DEF CallGet, Work, GotService
  <2>2. LifecycleTypes'
    BY <1>0, <2>1 DEF LifecycleTypes, lifecycle, teardown, traffic
  <2>3. \A r \in Requests : req[r] = "none" => r # Home(t)
    <3>1. CASE CallGet(t)
      BY <3>1, ServicesAssumption DEF CallGet, MayGet
    <3>2. CASE Work(t) \/ GotService(t)
      <4>1. Busy(t) \/ ret[t] # "none"
        BY <3>2, <1>0, ServicesAssumption
        DEF Work, GotService, GoOn, Descend, Resume, Create, FactoryReturns, FactoryThrows,
            InFactory, Answered, ContainerInv, Chained
      <4> QED BY <4>1, <1>0 DEF Served, Untouched
    <3> QED BY <1>5, <3>1, <3>2
  <2> QED BY <1>2, <2>1, <2>2, <2>3 DEF traffic
<1> QED BY <1>1, <1>4, <1>5

\* Every step keeps the invariant and replaces no instance.
LEMMA NextKeeps == ApplicationInv /\ [Next]_vars => ApplicationInv' /\ Stable
<1> SUFFICES ASSUME ApplicationInv, [Next]_vars PROVE ApplicationInv' /\ Stable
  OBVIOUS
<1>1. CASE UNCHANGED vars
  <2>1. UNCHANGED container /\ UNCHANGED lifecycle /\ UNCHANGED traffic /\ UNCHANGED teardown
    BY <1>1 DEF vars
  <2>2. ContainerInv' /\ Stable /\ \A r \in Requests : Untouched(r) => Untouched(r)'
    BY <2>1, ContainerIdle DEF ApplicationInv
  <2>3. LifecycleTypes' /\ Staged'
    BY <2>1 DEF ApplicationInv, LifecycleTypes, Staged, lifecycle, traffic, teardown
  <2>4. Served'
    BY <2>1, <2>2 DEF ApplicationInv, Served, traffic, container
  <2> QED BY <2>2, <2>3, <2>4 DEF ApplicationInv
<1>2. CASE Next
  BY <1>2, LifecycleKeeps, RequestKeeps DEF Next
<1> QED BY <1>1, <1>2

----------------------------------------------------------------------------
(* Theorems *)

\* The invariant holds in every state the application reaches.
THEOREM ApplicationInvariant == Spec => []ApplicationInv
<1>1. Init => ApplicationInv
  BY InitApplication
<1>2. ApplicationInv /\ [Next]_vars => ApplicationInv'
  BY NextKeeps
<1> QED BY <1>1, <1>2, PTL DEF Spec

\* Every variable of the application and of its containers keeps its type; the frames of
\* a get() (service-container.ts) never await past the end of their dependencies.
THEOREM ApplicationTypeCorrect == Spec => []TypeOK
<1>1. ApplicationInv => TypeOK
  <2> SUFFICES ASSUME ApplicationInv PROVE TypeOK
    OBVIOUS
  <2>1. \A t \in Calls : \A k \in DOMAIN stack[t] :
          stack[t][k] \in [name : Services, at : 1..(Len(Deps[stack[t][k].name]) + 1)]
    <3> SUFFICES ASSUME NEW t \in Calls, NEW k \in DOMAIN stack[t]
                 PROVE  stack[t][k] \in [name : Services,
                                         at : 1..(Len(Deps[stack[t][k].name]) + 1)]
      OBVIOUS
    <3>0. stack[t] \in Seq(FrameSet) /\ Stacked
      BY DEF ApplicationInv, ContainerInv, Stacked, FrameSet
    <3>1. k \in Frames(t)
      BY <3>0 DEF Frames
    <3>2. stack[t][k] \in FrameSet /\ FrameOK(stack[t][k])
      BY <3>0, <3>1, SeqFacts DEF Frames, Stacked
    <3> QED BY <3>2 DEF FrameOK, FrameSet
  <2> QED BY <2>1 DEF ApplicationInv, ContainerInv, ContainerTypes, LifecycleTypes,
                      TypeOK, ContainerTypeOK
<1> QED BY <1>1, ApplicationInvariant, PTL

\* resolvingServices of a container holds exactly the names its calls of get() are at, each
\* once, whichever of them failed, and a factory runs only when every dependency it names
\* is in the container (service-container.ts).
THEOREM ResolvingIsFollowed == Spec => []ResolvingFollowsCalls
<1>1. ApplicationInv => ResolvingFollowsCalls
  <2> SUFFICES ASSUME ApplicationInv PROVE ResolvingFollowsCalls
    OBVIOUS
  <2>0. ContainerTypes /\ Stacked /\ Named /\ Supplied
    BY DEF ApplicationInv, ContainerInv
  <2>1. \A t \in Calls : DOMAIN stack[t] = Frames(t) /\ (Frames(t) # {} => Busy(t))
    <3> TAKE t \in Calls
    <3>1. stack[t] \in Seq(FrameSet) /\ (Len(stack[t]) > 0 => Busy(t)) /\ Len(stack[t]) \in Nat
      BY <2>0, Busyness
    <3> QED BY <3>1 DEF Frames
  <2>2. \A c \in Containers :
          resolving[c] = UNION {{f.name : f \in ToSet(stack[t])} : t \in Working(c)}
    <3> SUFFICES ASSUME NEW c \in Containers, NEW n
                 PROVE  n \in resolving[c] <=>
                          \E t \in Working(c) : \E f \in ToSet(stack[t]) : n = f.name
      OBVIOUS
    <3>1. n \in resolving[c] <=>
            \E t \in Calls : Home(t) = c /\ \E k \in Frames(t) : stack[t][k].name = n
      BY <2>0 DEF Named
    <3>2. \A t \in Calls : (\E f \in ToSet(stack[t]) : n = f.name)
                            <=> \E k \in Frames(t) : stack[t][k].name = n
      BY <2>1 DEF ToSet
    <3> QED BY <3>1, <3>2, <2>1 DEF Working
  <2>3. \A c \in Containers : \A t, u \in Working(c) :
          \A j \in DOMAIN stack[t], k \in DOMAIN stack[u] :
            stack[t][j].name = stack[u][k].name => <<t, j>> = <<u, k>>
    BY <2>0, <2>1 DEF Named, Working
  <2>4. DependenciesFirst
    <3> SUFFICES ASSUME NEW t \in Calls, InFactory(t), NEW d \in ToSet(Deps[Top(t).name])
                 PROVE  services[Home(t)][d] # 0
      BY DEF DependenciesFirst
    <3>1. /\ Len(stack[t]) \in Frames(t) /\ Top(t) = stack[t][Len(stack[t])]
          /\ Top(t).name \in Services /\ Top(t).at \in Nat
          /\ Top(t).at > Len(Deps[Top(t).name])
      BY <2>0, Busyness DEF InFactory
    <3>2. PICK j \in 1..Len(Deps[Top(t).name]) : d = Deps[Top(t).name][j]
      BY <3>1, ServicesAssumption DEF ToSet
    <3>3. j \in 1..(Top(t).at - 1)
      BY <3>1, <3>2, DepFacts
    <3> QED BY <3>1, <3>2, <3>3, <2>0 DEF Supplied
  <2> QED BY <2>2, <2>3, <2>4 DEF ResolvingFollowsCalls, ResolvingIsExact
<1> QED BY <1>1, ApplicationInvariant, PTL

\* A request whose client is connected holds no instance that shutdown() has begun to
\* dispose, and a handler runs only when the guard has put the principal into its
\* container (web-application.ts).
THEOREM RequestsAreServed == Spec => []RequestHasItsServices
<1>1. ApplicationInv => RequestHasItsServices
  BY DEF ApplicationInv, Served, Staged, LifecycleTypes, RequestHasItsServices
<1> QED BY <1>1, ApplicationInvariant, PTL

\* shutdown() disposes no instance twice and shuts no plugin down while a disposal is
\* under way (web-application.ts), however many callers it has.
THEOREM TeardownIsOrdered == Spec => []TeardownInOrder
<1>1. ApplicationInv => TeardownInOrder
  BY ApplicationAssumption DEF ApplicationInv, Staged, LifecycleTypes, TeardownInOrder
<1> QED BY <1>1, ApplicationInvariant, PTL

\* get() never replaces an instance that a container has given out (service-container.ts),
\* whatever calls are in flight on it and on the others.
THEOREM InstancesStay == Spec => InstancesAreStable
<1>1. ApplicationInv /\ [Next]_vars =>
        [\A c \in Containers, n \in Services :
            services[c][n] # 0 => services'[c][n] = services[c][n]]_services
  BY NextKeeps DEF Stable
<1> QED BY <1>1, ApplicationInvariant, PTL DEF Spec, InstancesAreStable
=============================================================================

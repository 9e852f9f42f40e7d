---------------------------- MODULE Services_proofs ----------------------------
(***************************************************************************)
(* What the services promise, for every set of callers, keys, topics,      *)
(* tokens and files and every bound.  The components share no state, so    *)
(* each has a specification and an inductive invariant of its own: first   *)
(* the types, then what relates the component's variables, and last what   *)
(* one component's property needs of the steps before.                     *)
(***************************************************************************)
EXTENDS Cache, PubSub, PostgresDatabase, ApiClient, ReactClient, AuthProviders, BaselineAdoption,
        FiniteSetTheorems, SequenceTheorems, TLAPS

-----------------------------------------------------------------------------
(* The cache: packages/webafx-cache.                                       *)

CacheSpec == CacheInit /\ [][CacheNext]_cacheVars

Entry == [value : Int, expires : Int]
Fills == [step : {"idle", "factory", "store"}, key : Key \cup {Absent}, value : Int]
Scans == [open : BOOLEAN, todo : SUBSET Key, found : SUBSET Key, owed : SUBSET Key]

CacheTyped ==
    /\ store \in [Key -> Entry \cup {Absent}]
    /\ now \in Int
    /\ source \in [Key -> Int]
    /\ fill \in [Filler -> Fills]
    /\ \A f \in Filler : fill[f].step # "idle" => fill[f].key \in Key
    /\ scan \in Scans
    /\ read \in Int \cup {Absent}

\* What a scan still owes is ahead of its cursor, in the batch it has found, or gone.
Ahead == scan.todo \cup scan.found
ScanKeepsUp ==
    /\ read # Absent => read >= 0
    /\ scan.open => \A k \in scan.owed \ Ahead : Live(k) = Absent
    /\ ~scan.open => scan.found = {}

CacheInv == CacheTyped /\ ScanKeepsUp

-----------------------------------------------------------------------------
\* What is live of a key.
LEMMA LiveEntry ==
  ASSUME CacheTyped, NEW k \in Key
  PROVE  /\ Live(k) \in {store[k], Absent}
         /\ Live(k) # Absent => Live(k) \in Entry /\ Live(k).expires >= now
BY CacheAssumption DEF CacheTyped, Live, Expired, Entry

\* A step that writes no key, or writes it with the backend's own hand: an entry stays, or goes.
Shrinks == \A k \in Key : store'[k] \in {store[k], Absent}
\* Or it writes one key, which a scan under way need not find then.
Writes(key) ==
    /\ \A k \in Key \ {key} : store'[k] = store[k]
    /\ scan' = [scan EXCEPT !.owed = @ \ {key}]

LEMMA ScanHonest ==
  ASSUME CacheInv, CacheTyped', backend' = backend, now' >= now,
         \/ Shrinks /\ scan' = scan
         \/ now' = now /\ \E key \in Key : Writes(key)
  PROVE  scan'.open => \A k \in scan'.owed \ Ahead' : Live(k)' = Absent
<1> SUFFICES ASSUME scan'.open, NEW k \in scan'.owed \ Ahead' PROVE Live(k)' = Absent
  OBVIOUS
<1>1. /\ scan.open /\ k \in scan.owed \ Ahead /\ k \in Key
      /\ store'[k] \in {store[k], Absent}
  BY DEF CacheInv, CacheTyped, Scans, Ahead, Shrinks, Writes
<1>2. Live(k) = Absent
  BY <1>1 DEF CacheInv, ScanKeepsUp
<1>3. (store[k] = Absent \/ store[k] \in Entry) /\ now \in Int /\ now' \in Int
  BY <1>1 DEF CacheInv, CacheTyped
<1> QED BY <1>1, <1>2, <1>3 DEF Live, Expired, Entry

LEMMA CacheInitInv == CacheInit => CacheInv
<1> SUFFICES ASSUME CacheInit PROVE CacheInv
  OBVIOUS
<1>1. CacheTyped
  BY DEF CacheInit, CacheTyped, Idle, NoScan, Scans, Fills
<1>2. ScanKeepsUp
  BY DEF CacheInit, ScanKeepsUp, NoScan
<1> QED BY <1>1, <1>2 DEF CacheInv

LEMMA WritesKeep ==
  ASSUME CacheInv, NEW k \in Key, NEW ttl \in {0, Lifetime},
         \/ Set(k, ttl) \/ Expire(k, ttl)
         \/ \E f \in Filler : k = fill[f].key /\ FillStore(f, ttl)
  PROVE  CacheInv'
<1>0. CacheTyped /\ ScanKeepsUp
  BY DEF CacheInv
<1>1. /\ backend' = backend /\ now' = now /\ source' = source /\ read' = read
      /\ scan' = [scan EXCEPT !.owed = @ \ {k}]
  BY DEF Set, Expire, FillStore, Spare
<1>2. fill' = fill \/ \E f \in Filler : fill' = [fill EXCEPT ![f] = Idle]
  BY DEF Set, Expire, FillStore
<1>3. \E e \in Entry \cup {Absent} : store' = [store EXCEPT ![k] = e]
  <2>1. CASE Set(k, ttl) \/ \E f \in Filler : k = fill[f].key /\ FillStore(f, ttl)
    <3>1. PICK v \in Int : Put(k, v, ttl)
      BY <1>0, <2>1 DEF Set, FillStore, CacheTyped, Fills
    <3>2. Expiry(ttl) \in Int
      BY <1>0, CacheAssumption DEF Expiry, Forever, CacheTyped
    <3>3. [value |-> v, expires |-> Expiry(ttl)] \in Entry
      BY <3>2 DEF Entry
    <3> QED BY <3>1, <3>3 DEF Put
  <2>2. CASE Expire(k, ttl)
    <3>1. Live(k) # Absent => [Live(k) EXCEPT !.expires = now + ttl] \in Entry
      BY <1>0, LiveEntry, CacheAssumption DEF Entry, CacheTyped
    <3> QED BY <2>2, <3>1 DEF Expire
  <2> QED BY <2>1, <2>2
<1>4. CacheTyped'
  BY <1>0, <1>1, <1>2, <1>3 DEF CacheTyped, Idle, Fills, Scans
<1>5. Writes(k)
  BY <1>0, <1>1, <1>3 DEF Writes, CacheTyped
<1>6. ScanKeepsUp'
  BY <1>0, <1>1, <1>4, <1>5, ScanHonest DEF ScanKeepsUp, CacheTyped, Scans
<1> QED BY <1>4, <1>6 DEF CacheInv

LEMMA LooksKeep ==
  ASSUME CacheInv, NEW k \in Key, Get(k) \/ \E f \in Filler : FillGet(f, k)
  PROVE  CacheInv'
<1>0. CacheTyped /\ ScanKeepsUp
  BY DEF CacheInv
<1>1. /\ backend' = backend /\ now' = now /\ source' = source /\ scan' = scan
      /\ store' = [store EXCEPT ![k] = Live(k)]
      /\ read' = read \/ Return(k)
      /\ \/ fill' = fill
         \/ \E f \in Filler : fill' = [fill EXCEPT ![f] = [step |-> "factory", key |-> k,
                value |-> 0]]
  BY DEF Get, FillGet, Look
<1>2. Live(k) \in {store[k], Absent} /\ (Live(k) # Absent => Live(k).expires \in Int
          /\ Live(k).expires >= now)
  BY <1>0, LiveEntry DEF Entry
<1>3. read' = read \/ read' = Absent \/ (read' \in Int /\ read' >= 0)
  BY <1>0, <1>1, <1>2 DEF Return, CacheTyped
<1>4. store' \in [Key -> Entry \cup {Absent}] /\ Shrinks
  BY <1>0, <1>1, <1>2 DEF CacheTyped, Shrinks
<1>5. CacheTyped'
  BY <1>0, <1>1, <1>3, <1>4 DEF CacheTyped, Fills
<1>6. ScanKeepsUp'
  BY <1>0, <1>1, <1>3, <1>4, <1>5, ScanHonest DEF ScanKeepsUp, CacheTyped
<1> QED BY <1>5, <1>6 DEF CacheInv

LEMMA DeletesKeep ==
  ASSUME CacheInv,
         \/ \E k \in Key : Delete(k) \/ Update(k)
         \/ \E K \in SUBSET Key : DeletePatternMemory(K)
         \/ Cleanup \/ Tick
         \/ \E f \in Filler : FillFactory(f) \/ FactoryFails(f)
  PROVE  CacheInv'
<1>0. CacheTyped /\ ScanKeepsUp
  BY DEF CacheInv
<1>a. /\ backend' = backend /\ scan' = scan /\ read' = read
      /\ now' = now \/ now' = now + 1
      /\ source' = source \/ \E k \in Key : source' = [source EXCEPT ![k] = @ + 1]
  BY DEF Delete, Update, DeletePatternMemory, Cleanup, Tick, FillFactory, FactoryFails
<1>1. /\ backend' = backend /\ scan' = scan /\ read' = read
      /\ now' \in Int /\ now' >= now
      /\ source' \in [Key -> Int]
  BY <1>0, <1>a DEF CacheTyped
<1>2. store' \in [Key -> Entry \cup {Absent}] /\ Shrinks
  <2>1. CASE store' = store
    BY <1>0, <2>1 DEF CacheTyped, Shrinks
  <2>2. CASE \E k \in Key : store' = [store EXCEPT ![k] = Absent]
    BY <1>0, <2>2 DEF CacheTyped, Shrinks
  <2>3. CASE \E K \in SUBSET Key : store' = [k \in Key |-> IF k \in K THEN Absent ELSE store[k]]
    BY <1>0, <2>3 DEF CacheTyped, Shrinks
  <2>4. CASE store' = [k \in Key |-> Live(k)]
    BY <1>0, <2>4, LiveEntry DEF CacheTyped, Shrinks
  <2> QED BY <2>1, <2>2, <2>3, <2>4
          DEF Delete, Update, Without, DeletePatternMemory, Cleanup, Tick, FillFactory, FactoryFails
<1>3. /\ fill' \in [Filler -> Fills]
      /\ \A f \in Filler : fill'[f].step # "idle" => fill'[f].key \in Key
  <2>1. CASE fill' = fill
    BY <1>0, <2>1 DEF CacheTyped
  <2>2. CASE \E f \in Filler : FillFactory(f)
    <3>1. PICK f \in Filler : FillFactory(f)
      BY <2>2
    <3>2. fill[f].key \in Key /\ source[fill[f].key] \in Int
      BY <1>0, <3>1 DEF FillFactory, CacheTyped
    <3> QED BY <1>0, <3>1, <3>2 DEF FillFactory, CacheTyped, Fills
  <2>3. CASE \E f \in Filler : FactoryFails(f)
    BY <1>0, <2>3 DEF FactoryFails, CacheTyped, Fills, Idle
  <2> QED BY <2>1, <2>2, <2>3 DEF Delete, Update, DeletePatternMemory, Cleanup, Tick
<1>4. CacheTyped'
  BY <1>0, <1>1, <1>2, <1>3 DEF CacheTyped
<1>5. ScanKeepsUp'
  BY <1>0, <1>1, <1>2, <1>4, ScanHonest DEF ScanKeepsUp
<1> QED BY <1>4, <1>5 DEF CacheInv

LEMMA ScansKeep ==
  ASSUME CacheInv,
         (\E K \in SUBSET Key : ScanStart(K)) \/ ScanReply \/ ScanDelete \/ ScanDone \/ ScanFails
  PROVE  CacheInv'
<1>0. CacheTyped /\ ScanKeepsUp
  BY DEF CacheInv
<1>1. UNCHANGED <<backend, now, source, fill, read>>
  BY DEF ScanStart, ScanReply, ScanDelete, ScanDone, ScanFails
<1>2. CASE (\E K \in SUBSET Key : ScanStart(K)) \/ ScanDone \/ ScanFails
  <2>1. store' = store /\ scan' \in Scans /\ scan'.owed \subseteq scan'.todo /\ scan'.found = {}
    <3>1. CASE \E K \in SUBSET Key : ScanStart(K)
      <4>1. PICK K \in SUBSET Key : ScanStart(K)
        BY <3>1
      <4>2. {k \in K : Live(k) # Absent} \in SUBSET Key
        OBVIOUS
      <4> QED BY <4>1, <4>2 DEF ScanStart, Scans
    <3>2. CASE ScanDone \/ ScanFails
      <4>1. store' = store /\ scan' = NoScan /\ {} \in SUBSET Key
        BY <3>2 DEF ScanDone, ScanFails
      <4> QED BY <4>1 DEF NoScan, Scans
    <3> QED BY <1>2, <3>1, <3>2
  <2>2. CacheTyped'
    BY <1>0, <1>1, <2>1 DEF CacheTyped
  <2>3. ScanKeepsUp'
    BY <1>0, <1>1, <2>1 DEF ScanKeepsUp, Ahead
  <2> QED BY <2>2, <2>3 DEF CacheInv
<1>3. CASE ScanReply
  <2>1. PICK batch \in SUBSET scan.todo :
          /\ scan.open /\ scan.found = {} /\ store' = store
          /\ scan' = [scan EXCEPT !.todo = @ \ batch, !.found = {k \in batch : Live(k) # Absent}]
    BY <1>3 DEF ScanReply, ScanFinds
  <2>2. /\ scan'.open = scan.open /\ scan'.owed = scan.owed
        /\ scan'.todo = scan.todo \ batch
        /\ scan'.found = {k \in batch : Live(k) # Absent}
        /\ scan' \in Scans
    BY <1>0, <2>1 DEF CacheTyped, Scans
  <2>3. CacheTyped'
    BY <1>0, <1>1, <2>1, <2>2 DEF CacheTyped
  <2>4. ASSUME NEW k \in scan'.owed \ Ahead' PROVE Live(k)' = Absent
    <3>1. k \in scan.owed \ Ahead \/ (k \in batch /\ Live(k) = Absent)
      BY <2>1, <2>2, <2>4 DEF Ahead
    <3>2. Live(k) = Absent
      BY <1>0, <2>1, <3>1 DEF ScanKeepsUp
    <3> QED BY <1>1, <2>1, <3>2 DEF Live, Expired
  <2>5. ScanKeepsUp'
    BY <1>0, <1>1, <2>1, <2>2, <2>4 DEF ScanKeepsUp
  <2> QED BY <2>3, <2>5 DEF CacheInv
<1>4. CASE ScanDelete
  <2>1. /\ store' = [k \in Key |-> IF k \in scan.found THEN Absent ELSE store[k]]
        /\ scan'.open = scan.open /\ scan'.owed = scan.owed
        /\ scan'.todo = scan.todo /\ scan'.found = {} /\ scan' \in Scans
        /\ scan.owed \subseteq Key /\ scan.open
    BY <1>0, <1>4 DEF ScanDelete, CacheTyped, Scans, ScanKeepsUp
  <2>2. CacheTyped'
    BY <1>0, <1>1, <2>1 DEF CacheTyped
  <2>3. ASSUME NEW k \in scan'.owed \ Ahead' PROVE Live(k)' = Absent
    <3>1. CASE k \in scan.found
      BY <2>1, <2>3, <3>1 DEF Live
    <3>2. CASE k \notin scan.found
      <4>1. store'[k] = store[k] /\ Live(k) = Absent
        BY <1>0, <2>1, <2>3, <3>2 DEF ScanKeepsUp, Ahead
      <4> QED BY <1>1, <4>1 DEF Live, Expired
    <3> QED BY <3>1, <3>2
  <2>4. ScanKeepsUp'
    BY <1>0, <1>1, <2>1, <2>3 DEF ScanKeepsUp
  <2> QED BY <2>2, <2>4 DEF CacheInv
<1> QED BY <1>2, <1>3, <1>4

LEMMA CacheStepKeeps ==
  ASSUME CacheInv, [CacheNext]_cacheVars
  PROVE  CacheInv'
<1>1. CASE UNCHANGED cacheVars
  BY <1>1 DEF cacheVars, CacheInv, CacheTyped, ScanKeepsUp, Ahead, Live, Expired
<1>2. ASSUME NEW f \in Filler, NEW ttl \in {0, Lifetime}, FillStore(f, ttl) PROVE CacheInv'
  <2>1. fill[f].key \in Key
    BY <1>2 DEF FillStore, CacheInv, CacheTyped
  <2> QED BY <1>2, <2>1, WritesKeep
<1>3. CASE CacheNext
  BY <1>2, <1>3, WritesKeep, LooksKeep, DeletesKeep, ScansKeep DEF CacheNext
<1> QED BY <1>1, <1>3

\* get(), getOrSet() and deletePattern() of the providers of webafx-cache/src: no expired entry is
\* returned, and a scan that ends has deleted what was there when it began.
THEOREM CacheIsHonest == CacheSpec => []ReadsAndScansAreHonest
<1>1. CacheInit => CacheInv
  BY CacheInitInv
<1>2. CacheInv /\ [CacheNext]_cacheVars => CacheInv'
  BY CacheStepKeeps
<1>3. CacheInv => ReadsAndScansAreHonest
  BY DEF CacheInv, CacheTyped, Scans, ScanKeepsUp, Ahead, ReadsAndScansAreHonest
<1> QED BY <1>1, <1>2, <1>3, PTL DEF CacheSpec

\* A step that leaves the values of a key as they are, or deletes it, does not make it stale.
LEMMA NotStaler ==
  ASSUME NEW k, source'[k] = source[k],
         store'[k] \in {store[k], Absent} \/ (store'[k].value = store[k].value /\ store[k] # Absent)
  PROVE  Stale(k)' => Stale(k)
BY DEF Stale

LEMMA StaleByFill ==
  ASSUME CacheTyped, CacheNext, NEW k \in Key, Stale(k)', ~Stale(k)
  PROVE  OpenStaleFill(k)
<1>1. CASE \E q \in Key : Get(q) \/ \E f \in Filler : FillGet(f, q)
  <2>1. PICK q \in Key : source' = source /\ store' = [store EXCEPT ![q] = Live(q)]
    BY <1>1 DEF Get, FillGet, Look
  <2>2. store'[k] \in {store[k], Absent}
    BY <2>1, LiveEntry DEF CacheTyped
  <2> QED BY <2>1, <2>2, NotStaler
<1>2. CASE \E q \in Key : Delete(q) \/ Update(q)
  <2>1. PICK q \in Key : /\ store' = [store EXCEPT ![q] = Absent]
                         /\ \A p \in Key \ {q} : source'[p] = source[p]
    BY <1>2 DEF Delete, Update, Without, CacheTyped
  <2> QED BY <2>1 DEF Stale, CacheTyped
<1>3. CASE \E q \in Key, ttl \in {0, Lifetime} : Set(q, ttl)
  <2>1. PICK q \in Key, ttl \in {0, Lifetime} : source' = source /\ Put(q, source[q], ttl)
    BY <1>3 DEF Set
  <2>2. k # q => store'[k] = store[k]
    BY <2>1 DEF Put, CacheTyped
  <2>3. k = q => store'[k].value = source[k]
    BY <2>1 DEF Put, CacheTyped
  <2> QED BY <2>1, <2>2, <2>3 DEF Stale, CacheTyped
<1>4. CASE \E q \in Key, ttl \in {0, Lifetime} : Expire(q, ttl)
  <2>1. PICK q \in Key, ttl \in {0, Lifetime} :
          /\ source' = source
          /\ store' = [store EXCEPT ![q] =
                         IF Live(q) = Absent \/ (backend = "redis" /\ ttl = 0) THEN Absent
                         ELSE [Live(q) EXCEPT !.expires = now + ttl]]
    BY <1>4 DEF Expire
  <2>2. k # q => store'[k] = store[k]
    BY <2>1 DEF CacheTyped
  <2>3. k = q => \/ store'[k] = Absent
                 \/ Live(k) # Absent /\ store'[k] = [Live(k) EXCEPT !.expires = now + ttl]
    BY <2>1 DEF CacheTyped
  <2>4. Live(k) # Absent => Live(k) = store[k] /\ Live(k) \in Entry
    BY LiveEntry
  <2>5. store'[k] \in {store[k], Absent} \/ (store'[k].value = store[k].value /\ store[k] # Absent)
    BY <2>2, <2>3, <2>4 DEF Entry
  <2> QED BY <2>1, <2>5, NotStaler
<1>5. CASE \/ \E K \in SUBSET Key : DeletePatternMemory(K) \/ ScanStart(K)
           \/ ScanReply \/ ScanDelete \/ ScanDone \/ ScanFails \/ Cleanup \/ Tick
           \/ \E f \in Filler : FillFactory(f) \/ FactoryFails(f)
  <2>1. source' = source
    BY <1>5 DEF DeletePatternMemory, ScanStart, ScanReply, ScanDelete, ScanFails, ScanDone, Cleanup, Tick, FillFactory,
                FactoryFails
  <2>2. store'[k] \in {store[k], Absent}
    BY <1>5, LiveEntry DEF DeletePatternMemory, ScanStart, ScanReply, ScanDelete, ScanFails, ScanDone, Cleanup, Tick,
                FillFactory, FactoryFails
  <2> QED BY <2>1, <2>2, NotStaler
<1>6. CASE \E f \in Filler, ttl \in {0, Lifetime} : FillStore(f, ttl)
  <2>1. PICK f \in Filler, ttl \in {0, Lifetime} :
          /\ source' = source /\ fill[f].step = "store" /\ Put(fill[f].key, fill[f].value, ttl)
    BY <1>6 DEF FillStore
  <2>2. k # fill[f].key => store'[k] = store[k]
    BY <2>1 DEF Put, CacheTyped
  <2>3. k = fill[f].key => store'[k].value = fill[f].value
    BY <2>1 DEF Put, CacheTyped
  <2> QED BY <2>1, <2>2, <2>3 DEF Stale, OpenStaleFill
<1> QED BY <1>1, <1>2, <1>3, <1>4, <1>5, <1>6 DEF CacheNext

\* getOrSet() of webafx-cache/src: the store of a value that was read before the data changed is the
\* only step that makes a key stale.
THEOREM StaleValuesAreFilled == CacheSpec => StaleNeedsOpenFill
<1>1. CacheInit => CacheInv
  BY CacheInitInv
<1>2. CacheInv /\ [CacheNext]_cacheVars => CacheInv'
  BY CacheStepKeeps
<1>3. CacheInv /\ [CacheNext]_cacheVars =>
        [\A k \in Key : Stale(k)' /\ ~Stale(k) => OpenStaleFill(k)]_cacheVars
  BY StaleByFill DEF CacheInv
<1> QED BY <1>1, <1>2, <1>3, PTL DEF CacheSpec, StaleNeedsOpenFill

-----------------------------------------------------------------------------
(* The publish/subscribe providers: packages/webafx-cache.                 *)

PubSubSpec == PubSubInit /\ [][PubSubNext]_pubsubVars

Commands == [kind : {"SUBSCRIBE", "UNSUBSCRIBE"}, topic : Topic]
Replies == [kind : {"SUBSCRIBE", "UNSUBSCRIBE", "message"}, topic : Topic]

PubSubTyped ==
    /\ wire \in Seq(Commands) /\ answers \in Seq(Replies)
    /\ owed \in Seq(SUBSET Handler)
    /\ \A t \in DOMAIN handlers : handlers[t] \subseteq Handler
    /\ provider = "memory" => wire = <<>> /\ answers = <<>>

\* A topic with handlers that is not subscribed waits for its SUBSCRIBE to be carried out, or is
\* about to lose them, or its SUBSCRIBE was refused.
Pending(q, kind, t) == \E c \in Range(q) : c.kind = kind /\ c.topic = t
TopicsAreServed ==
    \A t \in DOMAIN handlers \ refused :
        t \in subscribed \/ Pending(wire, "SUBSCRIBE", t) \/ Pending(answers, "UNSUBSCRIBE", t)

\* Which answer each owed set is for: the messages are in the order they were published, and no
\* answer before a message takes a handler away that the message is owed to.
Matched(at, from, to) ==
    /\ at \in [DOMAIN to -> DOMAIN from]
    /\ \A k \in DOMAIN to : from[at[k]].kind = "message"
    /\ \A i \in DOMAIN from : from[i].kind = "message" => \E k \in DOMAIN to : at[k] = i
    /\ \A j, k \in DOMAIN to : j < k => at[j] < at[k]
Of(map, t) == IF t \in DOMAIN map THEN map[t] ELSE {}
Kept(from, i, whom, map) ==
    /\ whom \subseteq Of(map, from[i].topic)
    /\ whom # {} => \A j \in 1..(i - 1) : from[j].kind = "UNSUBSCRIBE"
           => from[j].topic # from[i].topic
MessagesAreOwed ==
    \E at : Matched(at, answers, owed) /\ \A k \in DOMAIN owed : Kept(answers, at[k], owed[k],
        handlers)

PubSubInv == PubSubTyped /\ TopicsAreServed /\ MessagesAreOwed

-----------------------------------------------------------------------------
\* What a queue holds after something was added to it, and after its first element is gone.
LEMMA Added ==
  ASSUME NEW S, NEW q \in Seq(S), NEW c \in S
  PROVE  /\ Append(q, c) \in Seq(S)
         /\ Len(Append(q, c)) = Len(q) + 1 /\ Len(q) \in Nat
         /\ DOMAIN Append(q, c) = 1..(Len(q) + 1) /\ DOMAIN q = 1..Len(q)
         /\ \A i \in 1..Len(q) : Append(q, c)[i] = q[i]
         /\ Append(q, c)[Len(q) + 1] = c
         /\ Range(Append(q, c)) = Range(q) \cup {c}
<1>1. /\ Append(q, c) \in Seq(S)
      /\ Len(Append(q, c)) = Len(q) + 1 /\ Len(q) \in Nat
      /\ DOMAIN Append(q, c) = 1..(Len(q) + 1) /\ DOMAIN q = 1..Len(q)
      /\ \A i \in 1..Len(q) : Append(q, c)[i] = q[i]
      /\ Append(q, c)[Len(q) + 1] = c
  OBVIOUS
<1>2. Range(Append(q, c)) = Range(q) \cup {c}
  <2> DEFINE longer == Append(q, c)
  <2>1. /\ Len(q) \in Nat /\ DOMAIN longer = 1..(Len(q) + 1) /\ DOMAIN q = 1..Len(q)
        /\ \A i \in 1..Len(q) : longer[i] = q[i]
        /\ longer[Len(q) + 1] = c
    BY <1>1
  <2> HIDE DEF longer
  <2>2. Range(longer) = Range(q) \cup {c}
    BY <2>1 DEF Range
  <2> QED BY <2>2 DEF longer
<1> QED BY <1>1, <1>2

LEMMA Taken ==
  ASSUME NEW S, NEW q \in Seq(S), q # <<>>
  PROVE  /\ Tail(q) \in Seq(S) /\ Head(q) \in S /\ Head(q) = q[1]
         /\ Len(Tail(q)) = Len(q) - 1 /\ Len(q) \in Nat /\ Len(q) >= 1
         /\ DOMAIN Tail(q) = 1..(Len(q) - 1) /\ DOMAIN q = 1..Len(q)
         /\ \A i \in 1..(Len(q) - 1) : Tail(q)[i] = q[i + 1]
         /\ Range(q) = Range(Tail(q)) \cup {Head(q)}
<1>1. /\ Tail(q) \in Seq(S) /\ Head(q) \in S /\ Head(q) = q[1]
      /\ Len(Tail(q)) = Len(q) - 1 /\ Len(q) \in Nat /\ Len(q) >= 1
      /\ DOMAIN Tail(q) = 1..(Len(q) - 1) /\ DOMAIN q = 1..Len(q)
      /\ \A i \in 1..(Len(q) - 1) : Tail(q)[i] = q[i + 1]
  OBVIOUS
<1>2. Range(q) = Range(Tail(q)) \cup {Head(q)}
  <2> DEFINE shorter == Tail(q)
             first == Head(q)
  <2>1. /\ Len(q) \in Nat /\ Len(q) >= 1 /\ DOMAIN shorter = 1..(Len(q) - 1) /\ DOMAIN q = 1..Len(q)
        /\ \A i \in 1..(Len(q) - 1) : shorter[i] = q[i + 1]
        /\ first = q[1]
    BY <1>1
  <2> HIDE DEF shorter, first
  <2>2. \A i \in 2..Len(q) : q[i] = shorter[i - 1] /\ i - 1 \in 1..(Len(q) - 1)
    BY <2>1
  <2>3. ASSUME NEW x \in Range(q) PROVE x \in Range(shorter) \cup {first}
    <3>1. PICK i \in 1..Len(q) : q[i] = x
      BY <2>1 DEF Range
    <3>2. i = 1 \/ i \in 2..Len(q)
      BY <2>1
    <3> QED BY <2>1, <2>2, <3>1, <3>2 DEF Range
  <2>4. ASSUME NEW x \in Range(shorter) \cup {first} PROVE x \in Range(q)
    <3>1. CASE x = first
      BY <2>1, <3>1 DEF Range
    <3>2. CASE \E i \in 1..(Len(q) - 1) : x = shorter[i]
      <4>1. PICK i \in 1..(Len(q) - 1) : x = shorter[i]
        BY <3>2
      <4>2. i + 1 \in 1..Len(q) /\ x = q[i + 1]
        BY <2>1, <4>1
      <4> QED BY <2>1, <4>2 DEF Range
    <3> QED BY <2>1, <3>1, <3>2 DEF Range
  <2>5. Range(q) = Range(shorter) \cup {first}
    BY <2>3, <2>4
  <2> QED BY <2>5 DEF shorter, first
<1> QED BY <1>1, <1>2

LEMMA PubSubInitInv == PubSubInit => PubSubInv
<1> SUFFICES ASSUME PubSubInit PROVE PubSubInv
  OBVIOUS
<1>1. PubSubTyped
  BY DEF PubSubInit, PubSubTyped
<1>2. TopicsAreServed
  BY DEF PubSubInit, TopicsAreServed
<1>3. MessagesAreOwed
  <2>1. Matched([k \in {} |-> 1], <<>>, <<>>)
    BY DEF Matched
  <2> QED BY <2>1 DEF PubSubInit, MessagesAreOwed
<1> QED BY <1>1, <1>2, <1>3 DEF PubSubInv

\* Nothing that only sends a command, or adds handlers, changes what messages are owed.
LEMMA OwedStays ==
  ASSUME MessagesAreOwed, UNCHANGED <<answers, owed>>,
         \A t : Of(handlers, t) \subseteq Of(handlers', t)
  PROVE  MessagesAreOwed'
<1>1. PICK at : Matched(at, answers, owed) /\ \A k \in DOMAIN owed : Kept(answers, at[k],
          owed[k], handlers)
  BY DEF MessagesAreOwed
<1>2. ASSUME NEW k \in DOMAIN owed PROVE Kept(answers, at[k], owed[k], handlers)'
  <2>1. Kept(answers, at[k], owed[k], handlers)
    BY <1>1
  <2>2. Of(handlers, answers[at[k]].topic) \subseteq Of(handlers', answers[at[k]].topic)
    OBVIOUS
  <2> QED BY <2>1, <2>2 DEF Kept
<1> QED BY <1>1, <1>2 DEF MessagesAreOwed

LEMMA WithHandlers ==
  ASSUME PubSubTyped, NEW t, NEW h \in Handler, handlers' = With(t, h)
  PROVE  /\ \A u \in DOMAIN handlers' : handlers'[u] \subseteq Handler
         /\ \A u : Of(handlers, u) \subseteq Of(handlers', u)
         /\ DOMAIN handlers' = DOMAIN handlers \cup {t}
BY DEF With, HandlersOf, Of, PubSubTyped

LEMMA SubscribeKeeps ==
  ASSUME PubSubInv, NEW t \in Topic, NEW h \in Handler, Subscribe(t, h)
  PROVE  PubSubInv'
<1>0. PubSubTyped /\ TopicsAreServed /\ MessagesAreOwed
  BY DEF PubSubInv
<1>1. /\ handlers' = With(t, h) /\ provider = "redis"
      /\ UNCHANGED <<subscribed, answers, refused, owed, provider>>
  BY DEF Subscribe
<1> DEFINE c == [kind |-> "SUBSCRIBE", topic |-> t]
<1>2. \/ wire' = Append(wire, c)
      \/ wire' = wire /\ HandlersOf(t) # {}
  <2>1. HandlersOf(t) = {} => Cardinality(HandlersOf(t) \cup {h}) = 1
    <3>1. Cardinality({h}) = 1
      BY FS_Singleton
    <3>2. {} \cup {h} = {h}
      OBVIOUS
    <3> QED BY <3>1, <3>2
  <2> QED BY <2>1 DEF Subscribe, Send
<1>3. c \in Commands /\ c.kind = "SUBSCRIBE" /\ c.topic = t
  BY DEF Commands
<1> HIDE DEF c
<1>4. /\ wire' \in Seq(Commands) /\ Range(wire) \subseteq Range(wire')
      /\ c \in Range(wire') \/ HandlersOf(t) # {}
  <2>1. wire \in Seq(Commands)
    BY <1>0 DEF PubSubTyped
  <2>2. CASE wire' = Append(wire, c)
    <3>1. Append(wire, c) \in Seq(Commands) /\ Range(Append(wire, c)) = Range(wire) \cup {c}
      BY <1>3, <2>1, Added
    <3> QED BY <2>2, <3>1
  <2> QED BY <1>2, <2>1, <2>2
<1>5. PubSubTyped'
  <2>1. \A u \in DOMAIN handlers' : handlers'[u] \subseteq Handler
    BY <1>0, <1>1, WithHandlers
  <2> QED BY <1>0, <1>1, <1>4, <2>1 DEF PubSubTyped
<1>6. TopicsAreServed'
  <2>1. DOMAIN handlers' = DOMAIN handlers \cup {t}
    BY <1>0, <1>1, WithHandlers
  <2>2. HandlersOf(t) # {} => t \in DOMAIN handlers
    BY DEF HandlersOf
  <2>3. t \notin DOMAIN handlers => Pending(wire', "SUBSCRIBE", t)
    BY <1>3, <1>4, <2>2 DEF Pending
  <2>4. \A u : Pending(wire, "SUBSCRIBE", u) => Pending(wire', "SUBSCRIBE", u)
    BY <1>4 DEF Pending
  <2> QED BY <1>0, <1>1, <2>1, <2>3, <2>4 DEF TopicsAreServed
<1>7. MessagesAreOwed'
  BY <1>0, <1>1, WithHandlers, OwedStays
<1> QED BY <1>5, <1>6, <1>7 DEF PubSubInv

LEMMA UnsubscribeKeeps ==
  ASSUME PubSubInv, NEW t \in Topic, Unsubscribe(t)
  PROVE  PubSubInv'
<1>0. PubSubTyped /\ TopicsAreServed /\ MessagesAreOwed
  BY DEF PubSubInv
<1> DEFINE c == [kind |-> "UNSUBSCRIBE", topic |-> t]
<1>1. /\ wire' = Append(wire, c) /\ provider = "redis"
      /\ UNCHANGED <<handlers, subscribed, answers, refused, owed, provider>>
  BY DEF Unsubscribe, Send
<1>2. c \in Commands
  BY DEF Commands
<1> HIDE DEF c
<1>3. wire' \in Seq(Commands) /\ Range(wire) \subseteq Range(wire')
  BY <1>0, <1>1, <1>2, Added DEF PubSubTyped
<1>4. PubSubTyped'
  BY <1>0, <1>1, <1>3 DEF PubSubTyped
<1>5. TopicsAreServed'
  <2>1. \A u : Pending(wire, "SUBSCRIBE", u) => Pending(wire', "SUBSCRIBE", u)
    BY <1>3 DEF Pending
  <2> QED BY <1>0, <1>1, <2>1 DEF TopicsAreServed
<1>6. MessagesAreOwed'
  <2>1. \A u : Of(handlers, u) \subseteq Of(handlers', u)
    BY <1>1
  <2> QED BY <1>0, <1>1, <2>1, OwedStays
<1> QED BY <1>4, <1>5, <1>6 DEF PubSubInv

LEMMA MemoryKeeps ==
  ASSUME PubSubInv, NEW t \in Topic,
         MemoryUnsubscribe(t) \/ \E h \in Handler : MemorySubscribe(t, h)
  PROVE  PubSubInv'
<1>0. PubSubTyped /\ TopicsAreServed /\ MessagesAreOwed
  BY DEF PubSubInv
<1>1. /\ UNCHANGED <<wire, answers, refused, owed, provider>> /\ answers = <<>>
  BY <1>0 DEF MemoryUnsubscribe, MemorySubscribe, PubSubTyped
<1>2. PubSubTyped'
  <2>1. \A u \in DOMAIN handlers' : handlers'[u] \subseteq Handler
    <3>1. CASE MemoryUnsubscribe(t)
      BY <1>0, <3>1 DEF MemoryUnsubscribe, WithoutTopic, PubSubTyped
    <3>2. CASE \E h \in Handler : MemorySubscribe(t, h)
      BY <1>0, <3>2, WithHandlers DEF MemorySubscribe
    <3> QED BY <3>1, <3>2
  <2> QED BY <1>0, <1>1, <2>1 DEF PubSubTyped
<1>3. TopicsAreServed'
  <2>1. CASE MemoryUnsubscribe(t)
    BY <1>0, <1>1, <2>1 DEF TopicsAreServed, MemoryUnsubscribe, WithoutTopic
  <2>2. CASE \E h \in Handler : MemorySubscribe(t, h)
    <3>1. DOMAIN handlers' = DOMAIN handlers \cup {t} /\ subscribed' = subscribed \cup {t}
      BY <1>0, <2>2, WithHandlers DEF MemorySubscribe
    <3> QED BY <1>0, <1>1, <3>1 DEF TopicsAreServed
  <2> QED BY <2>1, <2>2
<1>4. MessagesAreOwed'
  <2>1. PICK at : Matched(at, answers, owed)
    BY <1>0 DEF MessagesAreOwed
  <2>2. DOMAIN owed = {}
    BY <1>1, <2>1 DEF Matched
  <2> QED BY <1>1, <2>1, <2>2 DEF MessagesAreOwed
<1> QED BY <1>2, <1>3, <1>4 DEF PubSubInv

\* The message that is delivered next is the first one something is owed for.
LEMMA FirstIsOwed ==
  ASSUME PubSubTyped, NEW at, Matched(at, answers, owed),
         \A k \in DOMAIN owed : Kept(answers, at[k], owed[k], handlers),
         answers # <<>>, Head(answers).kind = "message"
  PROVE  1 \in DOMAIN owed /\ at[1] = 1 /\ owed # <<>> /\ Head(owed) \subseteq Invoked
<1>1. /\ Head(answers) = answers[1] /\ Len(answers) \in Nat /\ Len(answers) >= 1
      /\ DOMAIN answers = 1..Len(answers)
  BY Taken DEF PubSubTyped
<1>2. DOMAIN owed = 1..Len(owed) /\ Len(owed) \in Nat
  BY DEF PubSubTyped
<1>3. PICK k \in DOMAIN owed : at[k] = 1
  BY <1>1 DEF Matched
<1>4. 1 \in DOMAIN owed /\ at[1] = 1
  <2>1. 1 \in DOMAIN owed /\ k \in Nat /\ at[1] \in 1..Len(answers)
    BY <1>1, <1>2, <1>3 DEF Matched
  <2>2. 1 < k => at[1] < 1
    BY <1>3, <2>1 DEF Matched
  <2> QED BY <1>2, <1>3, <2>1, <2>2
<1>5. owed # <<>> /\ Head(owed) = owed[1]
  BY <1>2, <1>4 DEF PubSubTyped
<1>6. owed[1] \subseteq Of(handlers, answers[1].topic)
  BY <1>4 DEF Kept
<1> QED BY <1>1, <1>4, <1>5, <1>6 DEF Invoked, Of, HandlersOf

\* An answer that is no message is read, a message is delivered: the others move up.
LEMMA OwedMoveUp ==
  ASSUME PubSubInv, answers # <<>>, answers' = Tail(answers),
         IF Head(answers).kind = "message" THEN owed' = Tail(owed) ELSE owed' = owed,
         \/ handlers' = handlers
         \/ Head(answers).kind = "UNSUBSCRIBE" /\ handlers' = WithoutTopic(Head(answers).topic)
  PROVE  MessagesAreOwed' /\ (Head(answers).kind = "message" => owed # <<>>)
<1>0. PubSubTyped /\ MessagesAreOwed
  BY DEF PubSubInv
<1>1. PICK at : Matched(at, answers, owed) /\ \A k \in DOMAIN owed : Kept(answers, at[k],
          owed[k], handlers)
  BY <1>0 DEF MessagesAreOwed
<1>2. /\ answers' \in Seq(Replies) /\ Head(answers) = answers[1] /\ Len(answers) \in Nat
      /\ DOMAIN answers' = 1..(Len(answers) - 1) /\ DOMAIN answers = 1..Len(answers)
      /\ \A i \in 1..(Len(answers) - 1) : answers'[i] = answers[i + 1]
      /\ Len(answers) >= 1
  BY <1>0, Taken DEF PubSubTyped
<1>3. DOMAIN owed = 1..Len(owed) /\ Len(owed) \in Nat
  BY <1>0 DEF PubSubTyped
<1>4. ASSUME NEW u, NEW whom, whom \subseteq Of(handlers, u),
             Head(answers).kind = "UNSUBSCRIBE" => Head(answers).topic # u
      PROVE  whom \subseteq Of(handlers', u)
  BY <1>4 DEF Of, WithoutTopic
<1>5. ASSUME NEW k \in DOMAIN owed, at[k] > 1
      PROVE  LET i == at[k] - 1 IN
             /\ i \in DOMAIN answers' /\ answers'[i].kind = "message"
             /\ owed[k] \subseteq Of(handlers', answers'[i].topic)
             /\ owed[k] # {} => \A j \in 1..(i - 1) :
                                  answers'[j].kind = "UNSUBSCRIBE"
                                      => answers'[j].topic # answers'[i].topic
  <2> DEFINE i == at[k] - 1
  <2>1. at[k] \in 2..Len(answers) /\ answers[at[k]].kind = "message" /\ Kept(answers, at[k],
            owed[k], handlers)
    BY <1>1, <1>2, <1>5 DEF Matched
  <2>2. i \in 1..(Len(answers) - 1) /\ answers'[i] = answers[at[k]]
    BY <1>2, <2>1
  <2>3. \A j \in 1..(i - 1) : answers'[j] = answers[j + 1] /\ j + 1 \in 1..(at[k] - 1)
    BY <1>2, <2>1
  <2>4. owed[k] # {} /\ Head(answers).kind = "UNSUBSCRIBE"
            => Head(answers).topic # answers[at[k]].topic
    <3>1. 1 \in 1..(at[k] - 1)
      BY <2>1
    <3> QED BY <1>2, <2>1, <3>1 DEF Kept
  <2>5. owed[k] \subseteq Of(handlers', answers[at[k]].topic)
    <3>1. CASE owed[k] = {}
      BY <3>1
    <3>2. CASE owed[k] # {}
      BY <1>4, <2>1, <2>4, <3>2 DEF Kept
    <3> QED BY <3>1, <3>2
  <2>6. owed[k] # {} => \A j \in 1..(i - 1) :
                           answers'[j].kind = "UNSUBSCRIBE" => answers'[j].topic # answers'[i].topic
    BY <2>1, <2>2, <2>3 DEF Kept
  <2>7. owed[k] \subseteq Of(handlers', answers'[i].topic)
    BY <2>2, <2>5
  <2> QED BY <1>2, <2>1, <2>2, <2>6, <2>7
<1>6. CASE Head(answers).kind = "message"
  <2>1. 1 \in DOMAIN owed /\ at[1] = 1 /\ owed # <<>>
    BY <1>0, <1>1, <1>6, FirstIsOwed
  <2>4. /\ DOMAIN owed' = 1..(Len(owed) - 1) /\ Len(owed) >= 1
        /\ \A j \in 1..(Len(owed) - 1) : owed'[j] = owed[j + 1]
    <3>1. owed \in Seq(SUBSET Handler) /\ owed' = Tail(owed)
      BY <1>0, <1>6 DEF PubSubTyped
    <3> QED BY <2>1, <3>1, Taken
  <2> DEFINE then == [j \in DOMAIN owed' |-> at[j + 1] - 1]
  <2>5. \A j \in DOMAIN owed' : then[j] = at[j + 1] - 1 /\ j + 1 \in DOMAIN owed /\ at[j + 1] > 1
    <3>1. \A j \in DOMAIN owed' : j + 1 \in DOMAIN owed /\ 1 < j + 1
      BY <1>3, <2>4
    <3> QED BY <1>1, <2>1, <3>1 DEF Matched
  <2>a. then = [j \in DOMAIN owed' |-> then[j]]
    OBVIOUS
  <2> HIDE DEF then
  <2>6. Matched(then, answers', owed')
    <3>1. \A j \in DOMAIN owed' : then[j] \in DOMAIN answers' /\ answers'[then[j]].kind = "message"
      BY <1>5, <2>5
    <3>2. then \in [DOMAIN owed' -> DOMAIN answers']
      BY <2>a, <3>1
    <3>3. ASSUME NEW i \in DOMAIN answers', answers'[i].kind = "message"
          PROVE  \E j \in DOMAIN owed' : then[j] = i
      <4>1. i + 1 \in DOMAIN answers /\ answers[i + 1].kind = "message" /\ i >= 1 /\ i \in Nat
        BY <1>2, <3>3
      <4>2. PICK m \in DOMAIN owed : at[m] = i + 1
        BY <1>1, <4>1 DEF Matched
      <4>3. m # 1 /\ m \in 1..Len(owed)
        BY <1>3, <2>1, <4>1, <4>2
      <4>4. m - 1 \in DOMAIN owed' /\ (m - 1) + 1 = m
        BY <1>3, <2>4, <4>3
      <4>5. then[m - 1] = i
        <5>1. then[m - 1] = at[m] - 1
          BY <2>5, <4>4
        <5>2. at[m] - 1 = i
          BY <4>1, <4>2
        <5> QED BY <5>1, <5>2
      <4> QED BY <4>4, <4>5
    <3>4. ASSUME NEW j \in DOMAIN owed', NEW m \in DOMAIN owed', j < m PROVE then[j] < then[m]
      <4>1. j + 1 < m + 1 /\ j + 1 \in DOMAIN owed /\ m + 1 \in DOMAIN owed
        BY <2>4, <2>5, <3>4
      <4>2. at[j + 1] < at[m + 1] /\ at[j + 1] \in Nat /\ at[m + 1] \in Nat
        BY <1>1, <1>2, <4>1 DEF Matched
      <4> QED BY <2>5, <4>2
    <3> QED BY <3>1, <3>2, <3>3, <3>4 DEF Matched
  <2>7. ASSUME NEW j \in DOMAIN owed' PROVE Kept(answers', then[j], owed'[j], handlers')
    <3>1. owed'[j] = owed[j + 1] /\ then[j] = at[j + 1] - 1 /\ j + 1 \in DOMAIN owed
              /\ at[j + 1] > 1
      BY <2>4, <2>5
    <3> QED BY <1>5, <3>1 DEF Kept
  <2> QED BY <2>1, <2>6, <2>7 DEF MessagesAreOwed
<1>7. CASE Head(answers).kind # "message"
  <2> DEFINE then == [k \in DOMAIN owed |-> at[k] - 1]
  <2>1. owed' = owed
    BY <1>7
  <2>2. \A k \in DOMAIN owed : then[k] = at[k] - 1 /\ at[k] > 1
    <3>1. \A k \in DOMAIN owed : at[k] \in 1..Len(answers) /\ answers[at[k]].kind = "message"
      BY <1>1, <1>2 DEF Matched
    <3> QED BY <1>2, <1>7, <3>1
  <2>a. then = [k \in DOMAIN owed |-> then[k]]
    OBVIOUS
  <2> HIDE DEF then
  <2>3. Matched(then, answers', owed')
    <3>1. \A k \in DOMAIN owed : then[k] \in DOMAIN answers' /\ answers'[then[k]].kind = "message"
      BY <1>5, <2>2
    <3>2. then \in [DOMAIN owed -> DOMAIN answers']
      BY <2>a, <3>1
    <3>3. ASSUME NEW i \in DOMAIN answers', answers'[i].kind = "message"
          PROVE  \E k \in DOMAIN owed : then[k] = i
      <4>1. i + 1 \in DOMAIN answers /\ answers[i + 1].kind = "message" /\ i >= 1 /\ i \in Nat
        BY <1>2, <3>3
      <4>2. PICK m \in DOMAIN owed : at[m] = i + 1
        BY <1>1, <4>1 DEF Matched
      <4>3. then[m] = at[m] - 1
        BY <2>2
      <4>4. at[m] - 1 = i
        BY <4>1, <4>2
      <4> QED BY <4>3, <4>4
    <3>4. ASSUME NEW j \in DOMAIN owed, NEW m \in DOMAIN owed, j < m PROVE then[j] < then[m]
      <4>1. at[j] < at[m] /\ at[j] \in Nat /\ at[m] \in Nat
        BY <1>1, <1>2, <3>4 DEF Matched
      <4> QED BY <2>2, <4>1
    <3> QED BY <2>1, <3>1, <3>2, <3>3, <3>4 DEF Matched
  <2>4. ASSUME NEW k \in DOMAIN owed PROVE Kept(answers', then[k], owed[k], handlers')
    BY <1>5, <2>2 DEF Kept
  <2> QED BY <1>7, <2>1, <2>3, <2>4 DEF MessagesAreOwed
<1> QED BY <1>6, <1>7

LEMMA ReadsKeep ==
  ASSUME PubSubInv, ReadAnswer \/ Deliver
  PROVE  PubSubInv'
<1>0. PubSubTyped /\ TopicsAreServed
  BY DEF PubSubInv
<1>1. /\ answers # <<>> /\ answers' = Tail(answers)
      /\ UNCHANGED <<subscribed, wire, refused, provider>>
      /\ IF Head(answers).kind = "message" THEN owed' = Tail(owed) ELSE owed' = owed
      /\ \/ handlers' = handlers /\ Head(answers).kind # "UNSUBSCRIBE"
         \/ Head(answers).kind = "UNSUBSCRIBE" /\ handlers' = WithoutTopic(Head(answers).topic)
  BY DEF ReadAnswer, Deliver
<1>2. MessagesAreOwed' /\ (Head(answers).kind = "message" => owed # <<>>)
  BY <1>1, OwedMoveUp
<1>3. answers' \in Seq(Replies) /\ Range(answers) = Range(answers') \cup {Head(answers)}
  BY <1>0, <1>1, Taken DEF PubSubTyped
<1>4. owed' \in Seq(SUBSET Handler)
  <2>1. owed \in Seq(SUBSET Handler)
    BY <1>0 DEF PubSubTyped
  <2>2. owed # <<>> => Tail(owed) \in Seq(SUBSET Handler)
    BY <2>1, Taken
  <2> QED BY <1>1, <1>2, <2>1, <2>2
<1>5. PubSubTyped'
  <2>1. \A u \in DOMAIN handlers' : handlers'[u] \subseteq Handler
    BY <1>0, <1>1 DEF PubSubTyped, WithoutTopic
  <2> QED BY <1>0, <1>1, <1>3, <1>4, <2>1 DEF PubSubTyped
<1>6. TopicsAreServed'
  <2> SUFFICES ASSUME NEW t \in DOMAIN handlers' \ refused
               PROVE  t \in subscribed \/ Pending(wire, "SUBSCRIBE", t)
                                       \/ Pending(answers', "UNSUBSCRIBE", t)
    BY <1>1 DEF TopicsAreServed
  <2>1. t \in DOMAIN handlers /\ ~(Head(answers).kind = "UNSUBSCRIBE" /\ Head(answers).topic = t)
    BY <1>1 DEF WithoutTopic
  <2>2. Pending(answers, "UNSUBSCRIBE", t) => Pending(answers', "UNSUBSCRIBE", t)
    BY <1>3, <2>1 DEF Pending
  <2> QED BY <1>0, <2>1, <2>2 DEF TopicsAreServed
<1> QED BY <1>2, <1>5, <1>6 DEF PubSubInv

\* An answer or a message joins the queue: what was owed before is owed still.
LEMMA OwedStaysInFront ==
  ASSUME PubSubTyped, NEW at, NEW a \in Replies, Matched(at, answers, owed),
         \A k \in DOMAIN owed : Kept(answers, at[k], owed[k], handlers)
  PROVE  \A k \in DOMAIN owed :
           /\ at[k] \in DOMAIN answers /\ at[k] \in DOMAIN Append(answers, a)
           /\ Append(answers, a)[at[k]] = answers[at[k]]
           /\ Kept(Append(answers, a), at[k], owed[k], handlers)
<1> DEFINE longer == Append(answers, a)
<1>1. /\ Len(answers) \in Nat /\ DOMAIN longer = 1..(Len(answers) + 1)
             /\ DOMAIN answers = 1..Len(answers)
      /\ \A i \in 1..Len(answers) : longer[i] = answers[i]
  BY Added DEF PubSubTyped
<1> HIDE DEF longer
<1>2. ASSUME NEW k \in DOMAIN owed
      PROVE  at[k] \in DOMAIN answers /\ at[k] \in DOMAIN longer /\ longer[at[k]] = answers[at[k]]
  BY <1>1 DEF Matched
<1>3. ASSUME NEW k \in DOMAIN owed PROVE Kept(longer, at[k], owed[k], handlers)
  <2>1. \A j \in 1..(at[k] - 1) : longer[j] = answers[j]
    BY <1>1, <1>2
  <2>2. Kept(answers, at[k], owed[k], handlers)
    OBVIOUS
  <2> QED BY <1>2, <2>1, <2>2 DEF Kept
<1> QED BY <1>2, <1>3 DEF longer

LEMMA ServeKeeps ==
  ASSUME PubSubInv, Serve \/ ServeFails
  PROVE  PubSubInv'
<1>0. PubSubTyped /\ TopicsAreServed
  BY DEF PubSubInv
<1> DEFINE c == Head(wire)
<1>1. /\ wire # <<>> /\ wire' = Tail(wire) /\ UNCHANGED <<handlers, owed, provider>>
      /\ \/ /\ answers' = Append(answers, c)
            /\ subscribed' = IF c.kind = "SUBSCRIBE" THEN subscribed \cup {c.topic}
                             ELSE subscribed \ {c.topic}
            /\ refused' = refused \ {c.topic}
         \/ /\ answers' = answers /\ subscribed' = subscribed
            /\ refused' = IF c.kind = "SUBSCRIBE" /\ c.topic \notin subscribed
                          THEN refused \cup {c.topic} ELSE refused
  BY DEF Serve, ServeFails
<1>2. wire' \in Seq(Commands) /\ c \in Commands /\ Range(wire) = Range(wire') \cup {c}
  BY <1>0, <1>1, Taken DEF PubSubTyped
<1> HIDE DEF c
<1>3. c \in Replies /\ c.kind # "message" /\ c.kind \in {"SUBSCRIBE", "UNSUBSCRIBE"}
  BY <1>2 DEF Commands, Replies
<1>4. answers \in Seq(Replies)
  BY <1>0 DEF PubSubTyped
<1>5. /\ answers' \in Seq(Replies) /\ Range(answers) \subseteq Range(answers')
      /\ answers' = answers \/ c \in Range(answers')
  <2>1. CASE answers' = answers
    BY <1>4, <2>1
  <2>2. CASE answers' = Append(answers, c)
    <3>1. Append(answers, c) \in Seq(Replies) /\ Range(Append(answers, c)) = Range(answers) \cup {c}
      BY <1>3, <1>4, Added
    <3> QED BY <2>2, <3>1
  <2> QED BY <1>1, <2>1, <2>2
<1>6. PubSubTyped'
  BY <1>0, <1>1, <1>2, <1>5 DEF PubSubTyped
<1>7. TopicsAreServed'
  <2> SUFFICES ASSUME NEW t \in DOMAIN handlers \ refused'
               PROVE  t \in subscribed' \/ Pending(wire', "SUBSCRIBE", t)
                                        \/ Pending(answers', "UNSUBSCRIBE", t)
    BY <1>1 DEF TopicsAreServed
  <2>1. \A kind, u : /\ Pending(answers, kind, u) => Pending(answers', kind, u)
                     /\ Pending(wire, kind, u) => Pending(wire', kind, u) \/ (c.kind = kind
                            /\ c.topic = u)
    BY <1>2, <1>5 DEF Pending
  <2>2. CASE t = c.topic
    <3>1. answers' # answers /\ c.kind = "UNSUBSCRIBE" => Pending(answers', "UNSUBSCRIBE", t)
      BY <1>5, <2>2 DEF Pending
    <3>2. CASE answers' # answers
      BY <1>1, <1>3, <2>2, <3>1, <3>2
    <3>3. CASE answers' = answers /\ c.kind = "UNSUBSCRIBE" /\ t \notin refused
      BY <1>0, <1>1, <2>1, <3>3 DEF TopicsAreServed
    <3>4. CASE c.kind = "SUBSCRIBE"
      BY <1>1, <2>2, <3>4
    <3> QED BY <1>1, <1>3, <3>1, <3>2, <3>3, <3>4
  <2>3. CASE t # c.topic
    <3>1. t \notin refused /\ (t \in subscribed <=> t \in subscribed')
      BY <1>1, <2>3
    <3> QED BY <1>0, <2>1, <2>3, <3>1 DEF TopicsAreServed
  <2> QED BY <2>2, <2>3
<1>8. MessagesAreOwed'
  <2>1. PICK at : Matched(at, answers, owed) /\ \A k \in DOMAIN owed : Kept(answers, at[k],
            owed[k], handlers)
    BY DEF PubSubInv, MessagesAreOwed
  <2>2. CASE answers' = answers
    BY <1>1, <2>1, <2>2 DEF MessagesAreOwed
  <2>3. CASE answers' = Append(answers, c)
    <3> DEFINE longer == Append(answers, c)
    <3>1. \A k \in DOMAIN owed :
            /\ at[k] \in DOMAIN longer /\ longer[at[k]] = answers[at[k]]
            /\ Kept(longer, at[k], owed[k], handlers)
      BY <1>0, <1>3, <2>1, OwedStaysInFront
    <3>2. /\ DOMAIN longer = 1..(Len(answers) + 1) /\ DOMAIN answers = 1..Len(answers)
          /\ Len(answers) \in Nat /\ longer[Len(answers) + 1] = c
          /\ \A i \in 1..Len(answers) : longer[i] = answers[i]
      BY <1>3, <1>4, Added
    <3>3. answers' = longer
      BY <2>3
    <3> HIDE DEF longer
    <3>4. \A i \in DOMAIN longer : longer[i].kind = "message" => i \in DOMAIN answers
              /\ longer[i] = answers[i]
      <4>1. \A i \in DOMAIN longer : i = Len(answers) + 1 \/ i \in 1..Len(answers)
        BY <3>2
      <4> QED BY <1>3, <3>2, <4>1
    <3>5. Matched(at, longer, owed)
      <4>1. at \in [DOMAIN owed -> DOMAIN longer]
        BY <2>1, <3>1 DEF Matched
      <4>2. \A i \in DOMAIN longer : longer[i].kind = "message" => \E k \in DOMAIN owed : at[k] = i
        BY <2>1, <3>4 DEF Matched
      <4> QED BY <2>1, <3>1, <4>1, <4>2 DEF Matched
    <3> QED BY <1>1, <3>1, <3>3, <3>5 DEF MessagesAreOwed
  <2> QED BY <1>1, <2>2, <2>3
<1> QED BY <1>6, <1>7, <1>8 DEF PubSubInv

LEMMA PublishKeeps ==
  ASSUME PubSubInv, NEW t \in Topic, Publish(t)
  PROVE  PubSubInv'
<1>0. PubSubTyped /\ TopicsAreServed
  BY DEF PubSubInv
<1> DEFINE a == [kind |-> "message", topic |-> t]
           whom == IF Leaving(t) THEN {} ELSE HandlersOf(t)
<1>1. /\ answers' = Append(answers, a) /\ owed' = Append(owed, whom) /\ provider = "redis"
      /\ UNCHANGED <<handlers, subscribed, wire, refused, provider>>
  BY DEF Publish
<1>2. a \in Replies /\ a.topic = t /\ a.kind = "message"
  BY DEF Replies
<1>3. /\ whom \in SUBSET Handler /\ whom \subseteq Of(handlers, t)
      /\ whom # {} => \A c \in Range(answers) : c.kind = "UNSUBSCRIBE" => c.topic # t
  BY <1>0 DEF HandlersOf, Of, Leaving, PubSubTyped
<1> HIDE DEF a, whom
<1>4. answers \in Seq(Replies) /\ owed \in Seq(SUBSET Handler)
  BY <1>0 DEF PubSubTyped
<1>5. /\ answers' \in Seq(Replies) /\ Range(answers') = Range(answers) \cup {a}
      /\ DOMAIN answers' = 1..(Len(answers) + 1) /\ DOMAIN answers = 1..Len(answers)
      /\ Len(answers) \in Nat /\ answers'[Len(answers) + 1] = a
      /\ \A i \in 1..Len(answers) : answers'[i] = answers[i]
  <2>1. /\ Append(answers, a) \in Seq(Replies) /\ Range(Append(answers,
               a)) = Range(answers) \cup {a}
        /\ DOMAIN Append(answers, a) = 1..(Len(answers) + 1) /\ DOMAIN answers = 1..Len(answers)
        /\ Len(answers) \in Nat /\ Append(answers, a)[Len(answers) + 1] = a
        /\ \A i \in 1..Len(answers) : Append(answers, a)[i] = answers[i]
    BY <1>2, <1>4, Added
  <2> QED BY <1>1, <2>1
<1>6. /\ owed' \in Seq(SUBSET Handler)
      /\ DOMAIN owed' = 1..(Len(owed) + 1) /\ DOMAIN owed = 1..Len(owed)
      /\ Len(owed) \in Nat /\ owed'[Len(owed) + 1] = whom
      /\ \A k \in 1..Len(owed) : owed'[k] = owed[k]
  <2>1. /\ Append(owed, whom) \in Seq(SUBSET Handler)
        /\ DOMAIN Append(owed, whom) = 1..(Len(owed) + 1) /\ DOMAIN owed = 1..Len(owed)
        /\ Len(owed) \in Nat /\ Append(owed, whom)[Len(owed) + 1] = whom
        /\ \A k \in 1..Len(owed) : Append(owed, whom)[k] = owed[k]
    BY <1>3, <1>4, Added
  <2> QED BY <1>1, <2>1
<1>7. PubSubTyped' /\ TopicsAreServed'
  <2>1. \A u : Pending(answers, "UNSUBSCRIBE", u) => Pending(answers', "UNSUBSCRIBE", u)
    BY <1>5 DEF Pending
  <2> QED BY <1>0, <1>1, <1>5, <1>6, <2>1 DEF PubSubTyped, TopicsAreServed
<1>8. MessagesAreOwed'
  <2>1. PICK at : Matched(at, answers, owed) /\ \A k \in DOMAIN owed : Kept(answers, at[k],
            owed[k], handlers)
    BY DEF PubSubInv, MessagesAreOwed
  <2> DEFINE then == [k \in DOMAIN owed' |-> IF k \in DOMAIN owed THEN at[k] ELSE Len(answers) + 1]
  <2>2. \A k \in DOMAIN owed :
          /\ at[k] \in DOMAIN answers /\ at[k] \in DOMAIN answers'
                 /\ answers'[at[k]] = answers[at[k]]
          /\ Kept(answers', at[k], owed[k], handlers)
    BY <1>0, <1>1, <1>2, <2>1, OwedStaysInFront
  <2>3. /\ then = [k \in DOMAIN owed' |-> then[k]]
        /\ \A k \in DOMAIN owed : then[k] = at[k] /\ k \in DOMAIN owed'
        /\ then[Len(owed) + 1] = Len(answers) + 1 /\ Len(owed) + 1 \in DOMAIN owed'
        /\ \A k \in DOMAIN owed' : k \in DOMAIN owed \/ k = Len(owed) + 1
    BY <1>6
  <2> HIDE DEF then
  <2>4. Matched(then, answers', owed')
    <3>1. \A k \in DOMAIN owed' : then[k] \in DOMAIN answers' /\ answers'[then[k]].kind = "message"
      <4>1. ASSUME NEW k \in DOMAIN owed
            PROVE  then[k] \in DOMAIN answers' /\ answers'[then[k]].kind = "message"
        BY <2>1, <2>2, <2>3 DEF Matched
      <4>2. then[Len(owed) + 1] \in DOMAIN answers' /\ answers'[then[Len(owed) + 1]] = a
        BY <1>5, <2>3
      <4> QED BY <1>2, <2>3, <4>1, <4>2
    <3>2. then \in [DOMAIN owed' -> DOMAIN answers']
      BY <2>3, <3>1
    <3>3. ASSUME NEW i \in DOMAIN answers', answers'[i].kind = "message"
          PROVE  \E k \in DOMAIN owed' : then[k] = i
      <4>1. i \in DOMAIN answers \/ i = Len(answers) + 1
        BY <1>5
      <4>2. i \in DOMAIN answers => \E k \in DOMAIN owed : at[k] = i
        BY <1>5, <2>1, <3>3 DEF Matched
      <4> QED BY <2>3, <4>1, <4>2
    <3>4. ASSUME NEW j \in DOMAIN owed', NEW m \in DOMAIN owed', j < m PROVE then[j] < then[m]
      <4>1. j \in DOMAIN owed
        BY <1>6, <3>4
      <4>2. CASE m \in DOMAIN owed
        BY <2>1, <2>3, <3>4, <4>1, <4>2 DEF Matched
      <4>3. CASE m = Len(owed) + 1
        BY <1>5, <2>2, <2>3, <4>1, <4>3
      <4> QED BY <2>3, <4>2, <4>3
    <3> QED BY <3>1, <3>2, <3>3, <3>4 DEF Matched
  <2>5. ASSUME NEW k \in DOMAIN owed' PROVE Kept(answers', then[k], owed'[k], handlers)
    <3>1. CASE k \in DOMAIN owed
      BY <1>6, <2>2, <2>3, <3>1
    <3>2. CASE k = Len(owed) + 1
      <4>1. /\ then[k] = Len(answers) + 1 /\ owed'[k] = whom /\ answers'[then[k]].topic = t
        BY <1>2, <1>5, <1>6, <2>3, <3>2
      <4>2. \A j \in 1..(then[k] - 1) : answers'[j] = answers[j] /\ answers[j] \in Range(answers)
        BY <1>5, <4>1 DEF Range
      <4> QED BY <1>3, <4>1, <4>2 DEF Kept
    <3> QED BY <2>3, <3>1, <3>2
  <2> QED BY <1>1, <2>4, <2>5 DEF MessagesAreOwed
<1> QED BY <1>7, <1>8 DEF PubSubInv

\* RedisPubSubProvider and MemoryPubSubProvider of webafx-cache/src: whatever subscribe(),
\* unsubscribe() and publish() do while commands and answers are on their way, a topic with handlers
\* is subscribed or is about to be, and a message reaches all the handlers that it is owed to.
THEOREM SubscriptionsSound == PubSubSpec => []SubscriptionsAreSound
<1>1. PubSubInit => PubSubInv
  BY PubSubInitInv
<1>2. PubSubInv /\ [PubSubNext]_pubsubVars => PubSubInv'
  <2> SUFFICES ASSUME PubSubInv, [PubSubNext]_pubsubVars PROVE PubSubInv'
    OBVIOUS
  <2>1. CASE UNCHANGED pubsubVars
    BY <2>1 DEF pubsubVars, PubSubInv, PubSubTyped, TopicsAreServed, MessagesAreOwed
  <2>2. CASE PubSubNext
    BY <2>2, SubscribeKeeps, UnsubscribeKeeps, MemoryKeeps, ReadsKeep, ServeKeeps, PublishKeeps
       DEF PubSubNext
  <2> QED BY <2>1, <2>2
<1>3. PubSubInv => SubscriptionsAreSound
  <2> SUFFICES ASSUME PubSubInv PROVE SubscriptionsAreSound
    OBVIOUS
  <2>1. HandlersAreServed
    BY DEF PubSubInv, TopicsAreServed, HandlersAreServed, Pending
  <2>2. DeliveryReachesTheOwed
    <3> SUFFICES ASSUME answers # <<>>, Head(answers).kind = "message"
                 PROVE  Head(owed) \subseteq Invoked
      BY DEF DeliveryReachesTheOwed
    <3>1. PICK at : Matched(at, answers, owed)
                    /\ \A k \in DOMAIN owed : Kept(answers, at[k], owed[k], handlers)
      BY DEF PubSubInv, MessagesAreOwed
    <3> QED BY <3>1, FirstIsOwed DEF PubSubInv
  <2> QED BY <2>1, <2>2 DEF SubscriptionsAreSound
<1> QED BY <1>1, <1>2, <1>3, PTL DEF PubSubSpec

-----------------------------------------------------------------------------
(* The PostgreSQL database and its transactions: packages/postgresql.      *)

DbSpec == DbInit /\ [][DbNext]_dbVars

Holding == {"opening", "query", "begin", "body", "commit", "rollback"}

DbTyped ==
    /\ pc \in [Caller -> {"idle", "connecting", "done"} \cup Holding]
    /\ result \in [Caller -> {"none", "ok", "error"}]
    /\ context \in [Caller -> [slot : Slot \cup {Nobody}, active : BOOLEAN]]
    /\ owner \in [Slot -> Caller \cup {Nobody}]
    /\ alive \in [Slot -> BOOLEAN]
    /\ server \in [Slot -> {"none", "open", "failed"}]
    /\ writes \in [Slot -> SUBSET Caller]
    /\ pipeline \in [Slot -> Seq(Caller)]

\* A caller holds one slot at most, between its connect() and its release().
Owned ==
    /\ \A c \in Slot : owner[c] # Nobody => pc[owner[c]] \in Holding
    /\ \A c, d \in Slot : owner[c] = owner[d] /\ owner[c] # Nobody => c = d

\* The context of a transaction is active while its callback runs, and names its slot.
Contexts ==
    \A t \in Caller : context[t].active =>
        /\ t \in Tx /\ pc[t] = "body"
        /\ context[t].slot \in Slot /\ owner[context[t].slot] = t

\* The server has a transaction open on a slot only for the caller that holds it, and only that
\* caller's statements are in it or on their way to it.
Opened ==
    \A c \in Slot :
        /\ server[c] # "none" => owner[c] # Nobody /\ pc[owner[c]] \in {"body", "commit",
               "rollback"}
        /\ server[c] = "failed" => owner[c] \in poisoned
        /\ writes[c] # {} \/ pipeline[c] # <<>> => server[c] # "none"
        /\ writes[c] \subseteq {owner[c]}
        /\ \A i \in DOMAIN pipeline[c] : pipeline[c][i] = owner[c]
        /\ owner[c] # Nobody /\ alive[c] /\ pc[owner[c]] \in {"body", "commit"} =>
               server[c] # "none"

\* What was kept, and what the caller has been told.
Told ==
    \A t \in Caller :
        /\ pc[t] = "query" => t \notin Tx
        /\ pc[t] \in Holding \ {"opening", "query"} => t \in Tx
        /\ result[t] # "none" => pc[t] = "done"
        /\ t \in committed => result[t] = "ok" \/ t \in doubtful
        /\ t \in Tx /\ result[t] = "ok" => t \in committed \/ t \in poisoned

DbInv == DbTyped /\ Owned /\ Contexts /\ Opened /\ Told

LEMMA SlotHeld ==
  ASSUME DbInv, NEW t \in Caller, Held(t) # {}
  PROVE  /\ SlotOf(t) \in Slot /\ owner[SlotOf(t)] = t
         /\ \A c \in Slot : owner[c] = t <=> c = SlotOf(t)
<1>1. PICK c \in Slot : owner[c] = t
  BY DEF Held
<1>2. SlotOf(t) \in Slot /\ owner[SlotOf(t)] = t
  BY <1>1 DEF SlotOf
<1> QED BY <1>2, DatabaseAssumption DEF DbInv, Owned

LEMMA DbInitInv == DbInit => DbInv
<1> SUFFICES ASSUME DbInit PROVE DbInv
  OBVIOUS
<1>1. DbTyped
  BY DEF DbInit, DbTyped, NoClient
<1>2. Owned /\ Contexts /\ Opened /\ Told
  BY DEF DbInit, Owned, Contexts, Opened, Told, NoClient, Holding
<1> QED BY <1>1, <1>2 DEF DbInv

\* Release: the caller settles and its slot is free.
Released(t, r) ==
    /\ pc' = [pc EXCEPT ![t] = "done"]
    /\ result' = [result EXCEPT ![t] = r]
    /\ owner' \in [Slot -> Caller \cup {Nobody}] /\ alive' \in [Slot -> BOOLEAN]
    /\ \A c \in Slot : owner'[c] = IF owner[c] = t THEN Nobody ELSE owner[c]
    /\ \A c \in Slot : owner[c] # t => alive'[c] = alive[c]

LEMMA SettleReleases ==
  ASSUME DbInv, NEW t \in Caller, NEW r, Settle(t, r)
  PROVE  Released(t, r)
BY DEF DbInv, DbTyped, Settle, Released

\* Acquiring a client, and a query outside a transaction.
LEMMA AcquireKeeps ==
  ASSUME DbInv, NEW t \in Caller, Call(t) \/ Connect(t) \/ ConnectFails(t) \/ Connected(t) \/ RunQuery(t)
  PROVE  DbInv'
<1>0. DbTyped /\ Owned /\ Contexts /\ Opened /\ Told
  BY DEF DbInv
<1>1. CASE Call(t) \/ ConnectFails(t)
  <2>1. /\ UNCHANGED <<context, poolVars, serverVars, closeVars>>
        /\ pc[t] \in {"idle", "connecting"}
        /\ \/ pc' = [pc EXCEPT ![t] = "done"] /\ result' = [result EXCEPT ![t] = "error"]
           \/ pc' = [pc EXCEPT ![t] = "connecting"] /\ result' = result
    BY <1>1 DEF Call, ConnectFails, Goto
  <2>2. \A c \in Slot : owner[c] # t
    BY <1>0, <2>1, DatabaseAssumption DEF Owned, Holding
  <2>3. DbTyped'
    BY <1>0, <2>1 DEF DbTyped, Holding, poolVars, serverVars
  <2>4. Owned' /\ Contexts' /\ Opened'
    BY <1>0, <2>1, <2>2 DEF DbTyped, Owned, Contexts, Opened, poolVars, serverVars
  <2>5. Told'
    BY <1>0, <2>1 DEF DbTyped, Told, Holding, serverVars
  <2> QED BY <2>3, <2>4, <2>5 DEF DbInv
<1>2. CASE Connect(t)
  <2>1. PICK c \in Slot : owner[c] = Nobody /\ owner' = [owner EXCEPT ![c] = t]
    BY <1>2 DEF Connect
  <2>2. /\ pc[t] = "connecting" /\ pc' = [pc EXCEPT ![t] = "opening"]
        /\ UNCHANGED <<result, context, alive, serverVars>>
    BY <1>2 DEF Connect, Goto
  <2>3. \A d \in Slot : owner[d] # t
    BY <1>0, <2>2, DatabaseAssumption DEF Owned, Holding
  <2>4. server[c] = "none" /\ writes[c] = {} /\ pipeline[c] = <<>>
    BY <1>0, <2>1 DEF Opened
  <2>5. DbTyped'
    BY <1>0, <2>1, <2>2 DEF DbTyped, Holding, serverVars
  <2>a. /\ \A d \in Slot : owner'[d] = IF d = c THEN t ELSE owner[d]
        /\ \A u \in Caller : u # t => pc'[u] = pc[u]
        /\ pc'[t] = "opening" /\ t # Nobody
    BY <1>0, <2>1, <2>2, DatabaseAssumption DEF DbTyped
  <2>b. \A d \in Slot : owner[d] \in Caller \cup {Nobody}
    BY <1>0 DEF DbTyped
  <2>c. Owned'
    BY <1>0, <2>3, <2>a, <2>b DEF Owned, Holding
  <2>d. Contexts'
    <3> SUFFICES ASSUME NEW u \in Caller, context[u].active
                 PROVE  /\ u \in Tx /\ pc'[u] = "body"
                        /\ context[u].slot \in Slot /\ owner'[context[u].slot] = u
      BY <2>2 DEF Contexts
    <3>1. /\ u \in Tx /\ pc[u] = "body"
          /\ context[u].slot \in Slot /\ owner[context[u].slot] = u
      BY <1>0 DEF Contexts
    <3>2. u # t /\ u # Nobody
      BY <2>2, <3>1, DatabaseAssumption
    <3> QED BY <2>1, <2>a, <3>1, <3>2
  <2>e. Opened'
    BY <1>0, <2>2, <2>3, <2>4, <2>a, <2>b DEF Opened, serverVars
  <2>6. Owned' /\ Contexts' /\ Opened'
    BY <2>c, <2>d, <2>e
  <2>7. Told'
    BY <1>0, <2>2 DEF DbTyped, Told, Holding, serverVars
  <2> QED BY <2>5, <2>6, <2>7 DEF DbInv
<1>3. CASE RunQuery(t)
  <2>1. PICK r \in {"ok", "error"} : Settle(t, r) /\ committed' \in {committed, committed \cup {t}}
                                     /\ (r = "error" => committed' = committed)
    BY <1>3 DEF RunQuery
  <2>2. /\ pc[t] = "query" /\ Released(t, r)
        /\ UNCHANGED <<context, server, pipeline, writes, doubtful, poisoned>>
    BY <1>3, <2>1, SettleReleases DEF RunQuery, At
  <2>3. \A c \in Slot : owner[c] = t => server[c] = "none" /\ writes[c] = {} /\ pipeline[c] = <<>>
    BY <1>0, <2>2, DatabaseAssumption DEF Opened
  <2>4. DbTyped'
    BY <1>0, <2>1, <2>2 DEF DbTyped, Released
  <2>5. Owned' /\ Contexts' /\ Opened'
    BY <1>0, <2>2, <2>3, DatabaseAssumption DEF DbTyped, Owned, Contexts, Opened, Released
  <2>6. Told'
    BY <1>0, <2>1, <2>2 DEF DbTyped, Told, Holding, Released
  <2> QED BY <2>4, <2>5, <2>6 DEF DbInv
<1>4. CASE Connected(t)
  <2>1. /\ pc[t] = "opening" /\ pc' = [pc EXCEPT ![t] = IF t \in Tx THEN "begin" ELSE "query"]
        /\ UNCHANGED <<result, context, owner, alive, serverVars>>
    BY <1>4 DEF Connected, At, Goto, poolVars
  <2>2. DbTyped'
    BY <1>0, <2>1 DEF DbTyped, Holding, serverVars
  <2>3. /\ \A u \in Caller : u # t => pc'[u] = pc[u]
        /\ pc'[t] \in {"begin", "query"}
        /\ \A c \in Slot : owner[c] \in Caller \cup {Nobody}
    BY <1>0, <2>1 DEF DbTyped
  <2>4. Owned' /\ Contexts'
    BY <1>0, <2>1, <2>3, DatabaseAssumption DEF Owned, Contexts, Holding
  <2>5. Opened'
    BY <1>0, <2>1, <2>3, DatabaseAssumption DEF Opened, serverVars
  <2>6. Told'
    BY <1>0, <2>1 DEF DbTyped, Told, Holding, serverVars
  <2> QED BY <2>2, <2>4, <2>5, <2>6 DEF DbInv
<1> QED BY <1>1, <1>2, <1>3, <1>4

\* The steps of a transaction that keep its client.
LEMMA TransactionKeeps ==
  ASSUME DbInv, NEW t \in Caller,
         \/ Begin(t) \/ Statement(t)
         \/ CallbackReturns(t) \/ CallbackThrows(t) \/ CommitFails(t)
  PROVE  DbInv'
<1>0. DbTyped /\ Owned /\ Contexts /\ Opened /\ Told
  BY DEF DbInv
<1> DEFINE s == SlotOf(t)
<1>a. Held(t) # {} => s \in Slot /\ \A c \in Slot : owner[c] = t <=> c = s
  BY SlotHeld
<1>b. /\ \A c \in Slot : owner[c] \in Caller \cup {Nobody}
      /\ t # Nobody
  BY <1>0, DatabaseAssumption DEF DbTyped
<1> HIDE DEF s
<1>1. CASE Begin(t)
  <2>1. /\ pc[t] = "begin" /\ pc' = [pc EXCEPT ![t] = "body"]
        /\ server' = [server EXCEPT ![s] = "open"]
        /\ context' = [context EXCEPT ![t] = [slot |-> s, active |-> TRUE]]
        /\ UNCHANGED <<result, owner, alive, pipeline, writes, committed, doubtful, poisoned>>
        /\ Held(t) # {}
    BY <1>1 DEF Begin, At, Goto, poolVars, s
  <2>2. s \in Slot /\ owner[s] = t /\ \A c \in Slot : owner[c] = t <=> c = s
    BY <2>1, <1>a
  <2>3. t \in Tx
    BY <1>0, <2>1 DEF Told, Holding
  <2>4. DbTyped'
    BY <1>0, <2>1, <2>2 DEF DbTyped, Holding
  <2>5. /\ \A u \in Caller : pc'[u] = IF u = t THEN "body" ELSE pc[u]
        /\ \A u \in Caller \ {t} : context'[u] = context[u]
        /\ context'[t].slot = s /\ context'[t].active = TRUE
        /\ \A c \in Slot : server'[c] = IF c = s THEN "open" ELSE server[c]
    BY <1>0, <2>1, <2>2 DEF DbTyped
  <2>6. Owned'
    BY <1>0, <1>b, <2>1, <2>5 DEF Owned, Holding
  <2>7. Contexts'
    BY <1>0, <2>1, <2>2, <2>3, <2>5 DEF Contexts
  <2>8. Opened'
    BY <1>0, <1>b, <2>1, <2>2, <2>5 DEF Opened
  <2>9. Told'
    BY <1>0, <2>1, <2>3, <2>5 DEF Told, Holding
  <2> QED BY <2>4, <2>6, <2>7, <2>8, <2>9 DEF DbInv
<1>2. CASE Statement(t)
  <2>1. PICK c \in Slot : /\ context[t].active /\ owner[c] = t /\ pc[t] = "body"
                          /\ alive[c] /\ pipeline' = [pipeline EXCEPT ![c] = Append(@, t)]
    BY <1>0, <1>2 DEF Statement, ClientOf, Contexts
  <2>2. UNCHANGED <<pc, result, context, owner, alive, server, writes, committed, doubtful, poisoned>>
    BY <1>2 DEF Statement, callVars, poolVars
  <2>3. /\ pipeline' \in [Slot -> Seq(Caller)]
        /\ \A d \in Slot \ {c} : pipeline'[d] = pipeline[d]
        /\ \A i \in DOMAIN pipeline'[c] : pipeline'[c][i] = t
    <3>1. pipeline[c] \in Seq(Caller) /\ pipeline'[c] = Append(pipeline[c], t)
      BY <1>0, <2>1 DEF DbTyped
    <3>2. \A i \in DOMAIN pipeline[c] : pipeline[c][i] = t
      BY <1>0, <2>1 DEF Opened
    <3>3. \A i \in DOMAIN pipeline'[c] : pipeline'[c][i] = t
      BY <3>1, <3>2
    <3> QED BY <1>0, <2>1, <3>1, <3>3 DEF DbTyped
  <2>4. DbTyped'
    BY <1>0, <2>2, <2>3 DEF DbTyped
  <2>5. Owned' /\ Contexts' /\ Told'
    BY <1>0, <2>2 DEF Owned, Contexts, Told, Holding
  <2>6. server[c] # "none"
    BY <1>0, <1>b, <2>1 DEF Opened
  <2>7. Opened'
    BY <1>0, <2>1, <2>2, <2>3, <2>6 DEF Opened
  <2> QED BY <2>4, <2>5, <2>7 DEF DbInv
<1>3. CASE CallbackReturns(t) \/ CallbackThrows(t)
  <2>1. /\ pc[t] = "body" /\ Held(t) # {}
        /\ pc' \in {[pc EXCEPT ![t] = "commit"], [pc EXCEPT ![t] = "rollback"]}
        /\ context' = [context EXCEPT ![t] = NoClient]
        /\ UNCHANGED <<result, owner, alive, server, pipeline, writes, committed, doubtful, poisoned>>
    BY <1>3 DEF CallbackReturns, CallbackThrows, At, Goto, EndContext, poolVars, serverVars, s
  <2>2. s \in Slot /\ owner[s] = t /\ \A c \in Slot : owner[c] = t <=> c = s
    BY <2>1, <1>a
  <2>3. DbTyped'
    BY <1>0, <2>1 DEF DbTyped, Holding, NoClient
  <2>4. /\ \A u \in Caller \ {t} : pc'[u] = pc[u] /\ context'[u] = context[u]
        /\ pc'[t] \in {"commit", "rollback"} /\ context'[t].active = FALSE
    BY <1>0, <2>1, <2>2 DEF DbTyped, NoClient
  <2>5. Owned'
    BY <1>0, <1>b, <2>1, <2>4 DEF Owned, Holding
  <2>6. Contexts'
    BY <1>0, <2>1, <2>4 DEF Contexts
  <2>7. Opened'
    BY <1>0, <1>b, <2>1, <2>2, <2>4 DEF Opened
  <2>8. Told'
    BY <1>0, <2>1, <2>4 DEF Told, Holding
  <2> QED BY <2>3, <2>5, <2>6, <2>7, <2>8 DEF DbInv
<1>4. CASE CommitFails(t)
  <2>1. /\ pc[t] = "commit" /\ Held(t) # {} /\ pc' = [pc EXCEPT ![t] = "rollback"]
        /\ \/ server' = [server EXCEPT ![s] = "none"] /\ writes' = [writes EXCEPT ![s] = {}]
           \/ UNCHANGED <<server, writes>>
        /\ UNCHANGED <<result, context, owner, alive, pipeline, committed, doubtful, poisoned>>
        /\ pipeline[s] = <<>>
    BY <1>4 DEF CommitFails, Answered, At, Goto, Discard, poolVars, s
  <2>2. s \in Slot /\ owner[s] = t /\ \A c \in Slot : owner[c] = t <=> c = s
    BY <2>1, <1>a
  <2>3. DbTyped'
    BY <1>0, <2>1 DEF DbTyped, Holding
  <2>4. /\ \A u \in Caller : pc'[u] = IF u = t THEN "rollback" ELSE pc[u]
        /\ \A c \in Slot : c # s => server'[c] = server[c] /\ writes'[c] = writes[c]
        /\ \/ server'[s] = server[s] /\ writes'[s] = writes[s]
           \/ server'[s] = "none" /\ writes'[s] = {}
    BY <1>0, <2>1, <2>2 DEF DbTyped
  <2>5. Owned' /\ Contexts'
    BY <1>0, <1>b, <2>1, <2>4 DEF Owned, Contexts, Holding
  <2>6. Opened'
    BY <1>0, <1>b, <2>1, <2>2, <2>4 DEF Opened
  <2>7. Told'
    BY <1>0, <2>1, <2>4 DEF Told, Holding
  <2> QED BY <2>3, <2>5, <2>6, <2>7 DEF DbInv
<1> QED BY <1>1, <1>2, <1>3, <1>4

\* The answers of the server.
LEMMA ServerAnswersKeep ==
  ASSUME DbInv, NEW c \in Slot, StatementRuns(c) \/ StatementFails(c)
  PROVE  DbInv'
<1>0. DbTyped /\ Owned /\ Contexts /\ Opened /\ Told
  BY DEF DbInv
<1>1. pipeline[c] \in Seq(Caller) /\ pipeline[c] # <<>> /\ server[c] # "none"
      /\ pipeline' = [pipeline EXCEPT ![c] = Tail(@)]
  BY <1>0 DEF StatementRuns, StatementFails, DbTyped
<1>2. Head(pipeline[c]) = owner[c] /\ owner[c] \in Caller /\ Tail(pipeline[c]) \in Seq(Caller)
  BY <1>0, <1>1 DEF Opened
<1>3. \A i \in DOMAIN Tail(pipeline[c]) : Tail(pipeline[c])[i] = owner[c]
  BY <1>0, <1>1 DEF Opened
<1>4. UNCHANGED <<pc, result, context, owner, alive, committed, doubtful>>
  BY DEF StatementRuns, StatementFails, callVars, poolVars
<1>5. \/ /\ writes' = [writes EXCEPT ![c] = @ \cup {owner[c]}]
         /\ UNCHANGED <<server, poisoned>>
      \/ /\ server' = [server EXCEPT ![c] = "failed"] /\ poisoned' = poisoned \cup {owner[c]}
         /\ UNCHANGED writes
  BY <1>2 DEF StatementRuns, StatementFails
<1>6. DbTyped'
  <2>1. pipeline' \in [Slot -> Seq(Caller)]
    BY <1>0, <1>1, <1>2 DEF DbTyped
  <2>2. writes' \in [Slot -> SUBSET Caller]
    <3>1. writes \in [Slot -> SUBSET Caller] /\ writes[c] \cup {owner[c]} \in SUBSET Caller
      BY <1>0, <1>2 DEF DbTyped
    <3> QED BY <1>5, <3>1
  <2>3. server' \in [Slot -> {"none", "open", "failed"}]
    BY <1>0, <1>5 DEF DbTyped
  <2> QED BY <1>0, <1>4, <2>1, <2>2, <2>3 DEF DbTyped
<1>7. Owned' /\ Contexts'
  BY <1>0, <1>4 DEF Owned, Contexts, Holding
<1>8. /\ \A d \in Slot \ {c} : pipeline'[d] = pipeline[d] /\ server'[d] = server[d] /\ writes'[d] = writes[d]
      /\ pipeline'[c] = Tail(pipeline[c]) /\ server'[c] # "none" /\ poisoned \subseteq poisoned'
      /\ server'[c] = "failed" => owner[c] \in poisoned'
      /\ writes'[c] \subseteq {owner[c]}
  BY <1>0, <1>1, <1>5 DEF DbTyped, Opened
<1>9. Opened'
  <2> SUFFICES ASSUME NEW d \in Slot
               PROVE  /\ server'[d] # "none" => owner[d] # Nobody /\ pc[owner[d]] \in {"body",
                             "commit", "rollback"}
                      /\ server'[d] = "failed" => owner[d] \in poisoned'
                      /\ writes'[d] # {} \/ pipeline'[d] # <<>> => server'[d] # "none"
                      /\ writes'[d] \subseteq {owner[d]}
                      /\ \A i \in DOMAIN pipeline'[d] : pipeline'[d][i] = owner[d]
                      /\ owner[d] # Nobody /\ alive[d] /\ pc[owner[d]] \in {"body", "commit"} =>
                             server'[d] # "none"
    BY <1>4 DEF Opened
  <2>1. CASE d = c
    BY <1>0, <1>1, <1>3, <1>8, <2>1 DEF Opened
  <2>2. CASE d # c
    BY <1>0, <1>8, <2>2 DEF Opened
  <2> QED BY <2>1, <2>2
<1>10. Told'
  BY <1>0, <1>4, <1>8 DEF Told, Holding
<1> QED BY <1>6, <1>7, <1>9, <1>10 DEF DbInv

\* The steps that release a client.
LEMMA ReleaseKeeps ==
  ASSUME DbInv, NEW t \in Caller,
         OpeningFails(t) \/ BeginFails(t) \/ CommitReply(t) \/ Rollback(t)
  PROVE  DbInv'
<1>0. DbTyped /\ Owned /\ Contexts /\ Opened /\ Told
  BY DEF DbInv
<1> DEFINE s == SlotOf(t)
<1>1. /\ Held(t) # {} /\ pc[t] \in {"opening", "begin", "commit", "rollback"}
      /\ UNCHANGED <<context, pipeline, doubtful, poisoned>>
      /\ \/ /\ server' = [server EXCEPT ![s] = "none"] /\ writes' = [writes EXCEPT ![s] = {}]
            /\ pipeline[s] = <<>>
         \/ pc[t] \in {"opening", "begin"} /\ UNCHANGED <<server, writes>>
      /\ \/ Settle(t, "error") /\ committed' = committed
         \/ /\ Settle(t, "ok") /\ pc[t] = "commit" /\ alive[s]
            /\ committed' = IF server[s] = "open" THEN committed \cup {t} ELSE committed
  BY DEF OpeningFails, BeginFails, CommitReply, Rollback, Answered, At, Discard, serverVars
<1>2. s \in Slot /\ owner[s] = t /\ \A c \in Slot : owner[c] = t <=> c = s
  BY <1>1, SlotHeld
<1>3. PICK r \in {"ok", "error"} :
        /\ Released(t, r)
        /\ r = "error" => committed' = committed
        /\ r = "ok" => /\ pc[t] = "commit" /\ alive[s]
                       /\ committed' = IF server[s] = "open" THEN committed \cup {t} ELSE committed
  BY <1>1, SettleReleases
<1> HIDE DEF s
<1>4. /\ \A c \in Slot : owner[c] \in Caller \cup {Nobody}
      /\ t # Nobody
  BY <1>0, DatabaseAssumption DEF DbTyped
<1>5. /\ \A u \in Caller : pc'[u] = IF u = t THEN "done" ELSE pc[u]
      /\ \A u \in Caller : result'[u] = IF u = t THEN r ELSE result[u]
      /\ \A c \in Slot : owner'[c] = IF c = s THEN Nobody ELSE owner[c]
      /\ \A c \in Slot : c # s => alive'[c] = alive[c]
      /\ \A c \in Slot : c # s => server'[c] = server[c] /\ writes'[c] = writes[c]
      /\ server'[s] = "none" /\ writes'[s] = {} /\ pipeline'[s] = <<>>
  <2>1. pc[t] \in {"opening", "begin"} => server[s] = "none" /\ writes[s] = {} /\ pipeline[s] = <<>>
    BY <1>0, <1>2, <1>4 DEF Opened
  <2> QED BY <1>0, <1>1, <1>2, <1>3, <2>1 DEF DbTyped, Released
<1>6. DbTyped'
  BY <1>0, <1>1, <1>3 DEF DbTyped, Released
<1>7. Owned'
  BY <1>0, <1>2, <1>4, <1>5 DEF Owned
<1>8. Contexts'
  BY <1>0, <1>1, <1>2, <1>5 DEF Contexts
<1>9. Opened'
  BY <1>0, <1>1, <1>2, <1>4, <1>5 DEF Opened
<1>10. Told'
  <2>1. r = "ok" => t \in committed' \/ t \in poisoned
    <3>1. server[s] \in {"none", "open", "failed"}
      BY <1>0, <1>2 DEF DbTyped
    <3> QED BY <1>0, <1>2, <1>3, <1>4, <3>1 DEF Opened
  <2>2. t \in committed /\ r = "error" => t \in doubtful
    BY <1>0, <1>1 DEF Told, Holding
  <2> QED BY <1>0, <1>1, <1>3, <1>5, <2>1, <2>2 DEF Told, Holding
<1> QED BY <1>6, <1>7, <1>8, <1>9, <1>10 DEF DbInv

\* Connections that are closed, and disconnect().
LEMMA CloseKeeps ==
  ASSUME DbInv,
         (\E c \in Slot : ConnectionLost(c)) \/ Disconnect \/ PoolEnds \/ TimerFires
  PROVE  DbInv'
<1>0. DbTyped /\ Owned /\ Contexts /\ Opened /\ Told
  BY DEF DbInv
<1>1. CASE Disconnect \/ PoolEnds
  <2>1. UNCHANGED <<pc, result, context, owner, alive, server, pipeline, writes,
                    committed, doubtful, poisoned>>
    BY <1>1 DEF Disconnect, PoolEnds, callVars, poolVars, serverVars
  <2> QED BY <1>0, <2>1 DEF DbInv, DbTyped, Owned, Contexts, Opened, Told, Holding
<1>2. CASE (\E c \in Slot : ConnectionLost(c)) \/ TimerFires
  <2>1. PICK S \in SUBSET Slot : Close(S)
    BY <1>2 DEF ConnectionLost, TimerFires, InUse
  <2>2. UNCHANGED <<pc, result, context, owner, poisoned>>
    BY <1>2 DEF ConnectionLost, TimerFires, callVars
  <2>3. PICK K : K \subseteq doubtful' /\ committed' = committed \cup K
    BY <2>1 DEF Close
  <2>4. /\ doubtful \subseteq doubtful'
        /\ alive' = [c \in Slot |-> alive[c] /\ c \notin S]
        /\ server' = [c \in Slot |-> IF c \in S THEN "none" ELSE server[c]]
        /\ writes' = [c \in Slot |-> IF c \in S THEN {} ELSE writes[c]]
        /\ pipeline' = [c \in Slot |-> IF c \in S THEN <<>> ELSE pipeline[c]]
    BY <2>1 DEF Close
  <2>5. DbTyped'
    <3>1. alive' \in [Slot -> BOOLEAN]
      BY <2>4
    <3>2. pipeline' \in [Slot -> Seq(Caller)]
      BY <1>0, <2>4 DEF DbTyped
    <3> QED BY <1>0, <2>2, <2>4, <3>1, <3>2 DEF DbTyped
  <2>6. /\ \A c \in Slot : alive'[c] => alive[c] /\ c \notin S
        /\ \A c \in Slot : server'[c] = IF c \in S THEN "none" ELSE server[c]
        /\ \A c \in Slot : writes'[c] = IF c \in S THEN {} ELSE writes[c]
        /\ \A c \in Slot : pipeline'[c] = IF c \in S THEN <<>> ELSE pipeline[c]
    BY <2>4
  <2>7. Owned' /\ Contexts'
    BY <1>0, <2>2 DEF Owned, Contexts
  <2>8. Opened'
    BY <1>0, <2>2, <2>6 DEF Opened
  <2>9. Told'
    BY <1>0, <2>2, <2>3, <2>4 DEF Told, Holding
  <2> QED BY <2>5, <2>7, <2>8, <2>9 DEF DbInv
<1> QED BY <1>1, <1>2

\* withTransaction() and disconnect() of postgresql/src/database.ts: whatever fails, and in whichever
\* order connections are lost and the pool is ended, what a caller is told of its transaction is what
\* the server kept, and a client serves one transaction at a time.
THEOREM TransactionsSound == DbSpec => []TransactionsAreSound
<1>1. DbInit => DbInv
  BY DbInitInv
<1>2. DbInv /\ [DbNext]_dbVars => DbInv'
  <2> SUFFICES ASSUME DbInv, [DbNext]_dbVars PROVE DbInv'
    OBVIOUS
  <2>1. CASE UNCHANGED dbVars
    BY <2>1 DEF dbVars, callVars, poolVars, serverVars, DbInv, DbTyped, Owned, Contexts,
                Opened, Told
  <2>2. CASE DbNext
    BY <2>2, AcquireKeeps, TransactionKeeps, ServerAnswersKeep, ReleaseKeeps, CloseKeeps DEF DbNext, CallerStep
  <2> QED BY <2>1, <2>2
<1>3. DbInv => TransactionsAreSound
  <2> SUFFICES ASSUME DbInv PROVE TransactionsAreSound
    OBVIOUS
  <2>1. TransactionIsTruthful
    BY DEF DbInv, Told, TransactionIsTruthful, Caller
  <2>2. ClientIsExclusive
    BY DEF DbInv, Opened, ClientIsExclusive
  <2> QED BY <2>1, <2>2 DEF TransactionsAreSound
<1> QED BY <1>1, <1>2, <1>3, PTL DEF DbSpec

-----------------------------------------------------------------------------
(* The API client: packages/api-client.                                    *)

ApiSpec == ApiInit /\ [][ApiNext]_apiVars

ApiCalls == [step : {"new", "authenticate", "fetching", "sent", "rejected", "refreshing", "done"},
             sent : Seq(Nat), error : {"none", "missing parameter", "transport", "api"}]

ApiTyped ==
    /\ call \in [Request -> ApiCalls]
    /\ issued \in Nat
    /\ cached.token \in 0..issued

\* The requests that wait are the ones the open refresh will answer.
Awaited ==
    /\ refreshing.by = {r \in Request : call[r].step \in {"fetching", "refreshing"}}
    /\ refreshing.open <=> refreshing.by # {}

\* How often a request has been sent, and with which tokens: one that is sent again after a
\* refresh finds a token that is newer than the one it was refused with, or none.
SentWith(c, token, held, made) ==
    /\ c.step \in {"new"} => Len(c.sent) = 0
    /\ c.step \in {"authenticate", "fetching"} => Len(c.sent) <= 1
    /\ c.step \in {"rejected", "refreshing"} => Len(c.sent) = 1
    /\ Len(c.sent) <= 2
    /\ \A i \in 1..Len(c.sent) : c.sent[i] <= made
    /\ c.step = "authenticate" /\ Len(c.sent) = 1 /\ held => token > c.sent[1]
    /\ Len(c.sent) = 2 => c.sent[2] > c.sent[1] \/ c.sent[2] = 0
SentInOrder == \A r \in Request : SentWith(call[r], cached.token, cached.held, issued)

ApiInv == ApiTyped /\ Awaited /\ SentInOrder

-----------------------------------------------------------------------------
LEMMA ApiInitInv == ApiInit => ApiInv
<1> SUFFICES ASSUME ApiInit PROVE ApiInv
  OBVIOUS
<1>0. /\ call = [r \in Request |-> New] /\ issued = 0 /\ cached = NoToken
      /\ refreshing = NoRefresh
  BY DEF ApiInit
<1>1. ApiTyped
  BY <1>0 DEF ApiTyped, ApiCalls, New, NoToken
<1>2. Awaited
  BY <1>0 DEF Awaited, New, NoRefresh
<1>3. SentInOrder
  BY <1>0 DEF SentInOrder, SentWith, New
<1> QED BY <1>1, <1>2, <1>3 DEF ApiInv

\* A request goes on, having been sent or not.
Becomes(r, step, sent) ==
    /\ call' \in [Request -> ApiCalls]
    /\ \A q \in Request \ {r} : call'[q] = call[q]
    /\ call'[r].step = step /\ call'[r].sent = sent

LEMMA StepBecomes ==
  ASSUME ApiTyped, NEW r \in Request,
         NEW s \in {"authenticate", "fetching", "rejected", "refreshing"}, Step(r, s)
  PROVE  Becomes(r, s, call[r].sent)
BY DEF ApiTyped, ApiCalls, Step, Becomes

LEMMA FinishBecomes ==
  ASSUME ApiTyped, NEW r \in Request, NEW e \in {"none", "missing parameter", "transport", "api"},
         Finish(r, e)
  PROVE  Becomes(r, "done", call[r].sent)
BY DEF ApiTyped, ApiCalls, Finish, Becomes

\* A request's tokens with one more.
LEMMA Appended ==
  ASSUME NEW sent \in Seq(Nat), NEW token \in Nat
  PROVE  /\ Append(sent, token) \in Seq(Nat) /\ Len(Append(sent, token)) = Len(sent) + 1
         /\ Append(sent, token)[Len(sent) + 1] = token
         /\ \A i \in 1..Len(sent) : Append(sent, token)[i] = sent[i]
         /\ Len(sent) \in Nat
OBVIOUS

\* A request that is sent once more, with a token that is newer than the ones before, or none.
LEMMA SentOnceMore ==
  ASSUME NEW c, NEW d, NEW token \in Nat, NEW made \in Nat, NEW held, SentWith(c, token, held,
      made),
         c.sent \in Seq(Nat), c.step \in {"authenticate", "fetching"},
         NEW next \in Nat, NEW more \in Nat, next <= more, made <= more,
         \/ next = 0 \/ next > made
         \/ c.step = "authenticate" /\ held /\ next = token,
         d.step = "sent", d.sent = Append(c.sent, next), NEW token2, NEW held2
  PROVE  SentWith(d, token2, held2, more)
<1> DEFINE longer == Append(c.sent, next)
<1>1. /\ Len(longer) = Len(c.sent) + 1 /\ longer[Len(c.sent) + 1] = next
      /\ \A i \in 1..Len(c.sent) : longer[i] = c.sent[i]
      /\ Len(c.sent) \in Nat
  BY Appended
<1>2. d.sent = longer
  OBVIOUS
<1> HIDE DEF longer
<1>3. /\ Len(c.sent) <= 1
      /\ \A i \in 1..Len(c.sent) : c.sent[i] \in Nat /\ c.sent[i] <= made
      /\ c.step = "authenticate" /\ Len(c.sent) = 1 /\ held => token > c.sent[1]
  <2>1. \A i \in 1..Len(c.sent) : c.sent[i] \in Nat
    OBVIOUS
  <2> QED BY <2>1 DEF SentWith
<1>4. CASE Len(c.sent) = 0
  <2>1. Len(d.sent) = 1 /\ d.sent[1] = next
    BY <1>1, <1>2, <1>4
  <2> QED BY <2>1 DEF SentWith
<1>5. CASE Len(c.sent) = 1
  <2>1. Len(d.sent) = 2 /\ d.sent[2] = next /\ d.sent[1] = c.sent[1]
    BY <1>1, <1>2, <1>5
  <2>2. c.sent[1] \in Nat /\ c.sent[1] <= made
    BY <1>3, <1>5
  <2>3. next = 0 \/ next > c.sent[1]
    BY <1>3, <1>5, <2>2
  <2> QED BY <2>1, <2>2, <2>3 DEF SentWith
<1>6. Len(c.sent) \in Nat /\ Len(c.sent) <= 1
  BY <1>1, <1>3
<1>7. Len(c.sent) = 0 \/ Len(c.sent) = 1
  <2>1. \A n \in Nat : n <= 1 => n = 0 \/ n = 1
    BY SMT
  <2> QED BY <1>6, <2>1, Zenon
<1> QED BY <1>7, <1>4, <1>5

LEMMA SendBecomes ==
  ASSUME ApiTyped, NEW r \in Request, NEW token \in Nat, SendWith(r, token)
  PROVE  Becomes(r, "sent", Append(call[r].sent, token))
<1>1. Append(call[r].sent, token) \in Seq(Nat)
  BY Appended DEF ApiTyped, ApiCalls
<1> DEFINE longer == Append(call[r].sent, token)
<1>2. call' = [call EXCEPT ![r].step = "sent", ![r].sent = longer]
  BY DEF SendWith
<1> HIDE DEF longer
<1>3. longer \in Seq(Nat)
  BY <1>1 DEF longer
<1>4. Becomes(r, "sent", longer)
  BY <1>2, <1>3 DEF ApiTyped, ApiCalls, Becomes
<1> QED BY <1>4 DEF longer

\* A step of one request that is not refused, and awaits nothing after it.
LEMMA RequestKeeps ==
  ASSUME ApiInv, NEW r \in Request, NEW step, Becomes(r, step, call[r].sent),
         \/ step = "authenticate" /\ call[r].step = "new"
         \/ step = "rejected" /\ Len(call[r].sent) = 1
         \/ step = "done",
         step \notin {"fetching", "refreshing"}, call[r].step \notin {"fetching", "refreshing"},
         UNCHANGED <<cached, refreshing, issued>>
  PROVE  ApiInv'
<1>0. ApiTyped /\ Awaited /\ SentInOrder
  BY DEF ApiInv
<1>1. ApiTyped'
  BY <1>0 DEF ApiTyped, Becomes
<1>2. Awaited'
  BY <1>0 DEF Awaited, Becomes
<1>3. SentWith(call'[r], cached.token, cached.held, issued)
  <2>1. SentWith(call[r], cached.token, cached.held, issued)
    BY <1>0 DEF SentInOrder
  <2> QED BY <2>1 DEF SentWith, Becomes
<1>4. SentInOrder'
  BY <1>0, <1>3 DEF SentInOrder, Becomes
<1> QED BY <1>1, <1>2, <1>4 DEF ApiInv

LEMMA AnswersKeep ==
  ASSUME ApiInv, NEW r \in Request,
         \/ Start(r) \/ AuthenticateFails(r) \/ Answer(r) \/ SendFails(r) \/ NoRefreshOption(r)
  PROVE  ApiInv'
<1>0. ApiTyped
  BY DEF ApiInv
<1>1. UNCHANGED <<cached, refreshing, issued>>
  BY DEF Start, AuthenticateFails, Answer, SendFails, NoRefreshOption
<1>2. call[r].step \in {"new", "authenticate", "sent", "rejected"}
  BY DEF Start, AuthenticateFails, Answer, SendFails, NoRefreshOption
<1>3. \/ call[r].step = "new" /\ Step(r, "authenticate")
      \/ Len(call[r].sent) = 1 /\ Step(r, "rejected")
      \/ \E e \in {"none", "missing parameter", "transport", "api"} : Finish(r, e)
  BY DEF Start, AuthenticateFails, Answer, SendFails, NoRefreshOption
<1>4. \/ call[r].step = "new" /\ Becomes(r, "authenticate", call[r].sent)
      \/ Len(call[r].sent) = 1 /\ Becomes(r, "rejected", call[r].sent)
      \/ Becomes(r, "done", call[r].sent)
  BY <1>0, <1>3, StepBecomes, FinishBecomes
<1> QED BY <1>1, <1>2, <1>4, RequestKeeps

LEMMA AuthenticateKeeps ==
  ASSUME ApiInv, NEW r \in Request, Authenticate(r)
  PROVE  ApiInv'
<1>0. ApiTyped /\ Awaited /\ SentInOrder
  BY DEF ApiInv
<1>1. PICK token \in Nat : /\ SendWith(r, token) /\ token <= issued
                           /\ token = 0 \/ (cached.held /\ token = cached.token)
  BY <1>0 DEF Authenticate, Usable, ApiTyped
<1>2. call[r].step = "authenticate" /\ UNCHANGED <<cached, refreshing, issued>>
  BY DEF Authenticate
<1>3. Becomes(r, "sent", Append(call[r].sent, token))
  BY <1>0, <1>1, SendBecomes
<1>4. ApiTyped' /\ Awaited'
  BY <1>0, <1>2, <1>3 DEF ApiTyped, Awaited, Becomes
<1>5. SentWith(call'[r], cached.token, cached.held, issued)
  <2>1. SentWith(call[r], cached.token, cached.held, issued) /\ call[r].sent \in Seq(Nat)
    BY <1>0 DEF SentInOrder, ApiTyped, ApiCalls
  <2>2. call'[r].step = "sent" /\ call'[r].sent = Append(call[r].sent, token)
    BY <1>3 DEF Becomes
  <2>3. cached.token \in Nat /\ issued \in Nat
    BY <1>0 DEF ApiTyped
  <2>4. token = 0 \/ (call[r].step = "authenticate" /\ cached.held /\ token = cached.token)
    BY <1>1, <1>2
  <2>5. call[r].step \in {"authenticate", "fetching"} /\ token <= issued /\ issued <= issued
    BY <1>1, <1>2, <2>3
  <2> QED BY <2>1, <2>2, <2>3, <2>4, <2>5, SentOnceMore
<1>6. SentInOrder'
  BY <1>0, <1>2, <1>3, <1>5 DEF SentInOrder, Becomes
<1> QED BY <1>4, <1>6 DEF ApiInv

LEMMA JoinKeeps ==
  ASSUME ApiInv, NEW r \in Request, FetchFirst(r) \/ RefreshOnUnauthorized(r)
  PROVE  ApiInv'
<1>0. ApiTyped /\ Awaited /\ SentInOrder
  BY DEF ApiInv
<1>1. /\ refreshing' = [open |-> TRUE, by |-> refreshing.by \cup {r}]
      /\ UNCHANGED <<cached, issued>>
  BY DEF FetchFirst, RefreshOnUnauthorized, Join
<1>2. \/ call[r].step = "authenticate" /\ Becomes(r, "fetching", call[r].sent)
      \/ call[r].step = "rejected" /\ Becomes(r, "refreshing", call[r].sent)
  BY <1>0, StepBecomes DEF FetchFirst, RefreshOnUnauthorized
<1>3. ApiTyped' /\ Awaited'
  BY <1>0, <1>1, <1>2 DEF ApiTyped, Awaited, Becomes
<1>4. SentWith(call'[r], cached.token, cached.held, issued)
  <2>1. SentWith(call[r], cached.token, cached.held, issued)
    BY <1>0 DEF SentInOrder
  <2> QED BY <1>2, <2>1 DEF SentWith, Becomes
<1>5. SentInOrder'
  BY <1>0, <1>1, <1>2, <1>4 DEF SentInOrder, Becomes
<1> QED BY <1>3, <1>5 DEF ApiInv

LEMMA RefreshDoneKeeps == ApiInv /\ RefreshDone => ApiInv'
<1> SUFFICES ASSUME ApiInv, RefreshDone PROVE ApiInv'
  OBVIOUS
<1>0. ApiTyped /\ Awaited /\ SentInOrder
  BY DEF ApiInv
<1>1. /\ issued' = issued + 1 /\ refreshing' = NoRefresh
      /\ cached'.token = issued + 1 /\ issued \in Nat
  BY <1>0 DEF RefreshDone, ApiTyped
<1>2. call' = [r \in Request |->
                 IF r \notin refreshing.by THEN call[r]
                 ELSE IF call[r].step = "fetching"
                      THEN [call[r] EXCEPT !.step = "sent", !.sent = Append(@, issued + 1)]
                      ELSE [call[r] EXCEPT !.step = "authenticate"]]
  BY DEF RefreshDone
<1>3. ASSUME NEW r \in Request
      PROVE  /\ call'[r] \in ApiCalls
             /\ call'[r].step \notin {"fetching", "refreshing"}
             /\ SentWith(call'[r], issued + 1, cached'.held, issued + 1)
  <2>1. /\ SentWith(call[r], cached.token, cached.held, issued)
        /\ call[r] \in ApiCalls /\ cached.token \in 0..issued
    BY <1>0 DEF SentInOrder, ApiTyped
  <2>2. call[r].sent \in Seq(Nat)
    BY <2>1 DEF ApiCalls
  <2>3. \A i \in 1..Len(call[r].sent) : call[r].sent[i] \in Nat /\ call[r].sent[i] <= issued
    <3>1. \A i \in 1..Len(call[r].sent) : call[r].sent[i] \in Nat
      BY <2>2
    <3> QED BY <2>1, <3>1 DEF SentWith
  <2>4. CASE r \notin refreshing.by
    <3>1. call'[r] = call[r] /\ call[r].step \notin {"fetching", "refreshing"}
      BY <1>0, <1>2, <2>4 DEF Awaited
    <3> QED BY <1>1, <2>1, <2>2, <2>3, <3>1 DEF SentWith
  <2>5. CASE call[r].step = "fetching"
    <3> DEFINE longer == Append(call[r].sent, issued + 1)
    <3>1. /\ Len(longer) = Len(call[r].sent) + 1 /\ longer[Len(call[r].sent) + 1] = issued + 1
          /\ \A i \in 1..Len(call[r].sent) : longer[i] = call[r].sent[i]
          /\ longer \in Seq(Nat)
      BY <1>1, <2>2, Appended
    <3>2. r \in refreshing.by
      BY <1>0, <2>5 DEF Awaited
    <3>3. call'[r] = [call[r] EXCEPT !.step = "sent", !.sent = longer]
      BY <1>2, <2>5, <3>2
    <3> HIDE DEF longer
    <3>4. call'[r] \in ApiCalls /\ call'[r].step = "sent" /\ call'[r].sent = longer
      BY <2>1, <3>1, <3>3 DEF ApiCalls
    <3>5. call'[r].sent = Append(call[r].sent, issued + 1)
      BY <3>4 DEF longer
    <3>6. SentWith(call'[r], issued + 1, cached'.held, issued + 1)
      <4>1. /\ cached.token \in Nat /\ issued + 1 \in Nat /\ issued + 1 <= issued + 1
            /\ issued <= issued + 1 /\ issued + 1 > issued
        BY <1>1, <2>1
      <4> QED BY <1>1, <2>1, <2>2, <2>5, <3>4, <3>5, <4>1, SentOnceMore
    <3> QED BY <3>4, <3>6
  <2>6. CASE r \in refreshing.by /\ call[r].step = "refreshing"
    <3>1. call'[r] = [call[r] EXCEPT !.step = "authenticate"]
      BY <1>2, <2>6
    <3>2. call'[r] \in ApiCalls /\ call'[r].step = "authenticate" /\ call'[r].sent = call[r].sent
      BY <2>1, <3>1 DEF ApiCalls
    <3> QED BY <1>1, <2>1, <2>2, <2>3, <2>6, <3>2 DEF SentWith
  <2> QED BY <1>0, <2>4, <2>5, <2>6 DEF Awaited
<1>4. ApiTyped'
  <2>1. call' \in [Request -> ApiCalls]
    <3>1. call' = [r \in Request |-> call'[r]]
      BY <1>2
    <3> QED BY <1>3, <3>1
  <2> QED BY <1>1, <2>1 DEF ApiTyped
<1>5. Awaited'
  BY <1>1, <1>3 DEF Awaited, NoRefresh
<1>6. SentInOrder'
  BY <1>1, <1>3 DEF SentInOrder
<1> QED BY <1>4, <1>5, <1>6 DEF ApiInv

LEMMA RefreshFailsKeeps == ApiInv /\ RefreshFails => ApiInv'
<1> SUFFICES ASSUME ApiInv, RefreshFails PROVE ApiInv'
  OBVIOUS
<1>0. ApiTyped /\ Awaited /\ SentInOrder
  BY DEF ApiInv
<1>1. /\ refreshing' = NoRefresh /\ UNCHANGED <<cached, issued>>
      /\ call' = [r \in Request |->
                    IF r \in refreshing.by THEN [call[r] EXCEPT !.step = "done",
                        !.error = "transport"]
                    ELSE call[r]]
  BY DEF RefreshFails
<1>2. ASSUME NEW r \in Request
      PROVE  /\ call'[r] \in ApiCalls
             /\ call'[r].step \notin {"fetching", "refreshing"}
             /\ SentWith(call'[r], cached.token, cached.held, issued)
  <2>1. SentWith(call[r], cached.token, cached.held, issued) /\ call[r] \in ApiCalls
    BY <1>0 DEF SentInOrder, ApiTyped
  <2>2. CASE r \notin refreshing.by
    BY <1>0, <1>1, <2>1, <2>2 DEF Awaited
  <2>3. CASE r \in refreshing.by
    <3>1. call'[r] \in ApiCalls /\ call'[r].step = "done" /\ call'[r].sent = call[r].sent
      BY <1>1, <2>1, <2>3 DEF ApiCalls
    <3> QED BY <2>1, <3>1 DEF SentWith
  <2> QED BY <2>2, <2>3
<1>3. ApiTyped' /\ Awaited' /\ SentInOrder'
  BY <1>0, <1>1, <1>2 DEF ApiTyped, Awaited, SentInOrder, NoRefresh
<1> QED BY <1>3 DEF ApiInv

LEMMA EnvironmentKeeps ==
  ASSUME ApiInv, Invalidate \/ ClockTicks \/ \E token \in 0..MaxToken : Revoke(token)
  PROVE  ApiInv'
<1>0. ApiTyped /\ Awaited /\ SentInOrder
  BY DEF ApiInv
<1>1. /\ UNCHANGED <<call, refreshing, issued>>
      /\ cached' = cached \/ cached' = NoToken
  BY DEF Invalidate, ClockTicks, Revoke
<1>2. ApiTyped' /\ Awaited'
  BY <1>0, <1>1 DEF ApiTyped, Awaited, NoToken
<1>3. ASSUME NEW r \in Request PROVE SentWith(call[r], cached'.token, cached'.held, issued)
  <2>1. SentWith(call[r], cached.token, cached.held, issued)
    BY <1>0 DEF SentInOrder
  <2> QED BY <1>1, <2>1 DEF SentWith, NoToken
<1>4. SentInOrder'
  BY <1>1, <1>3 DEF SentInOrder
<1> QED BY <1>2, <1>4 DEF ApiInv

\* The retry of a refused request in api-client/src: it is sent once more at most, with a token that
\* is newer than the one it was refused with, also when it joined the refresh of another request.
THEOREM RetriesAreNewer == ApiSpec => []RetryIsNewer
<1>1. ApiInit => ApiInv
  BY ApiInitInv
<1>2. ApiInv /\ [ApiNext]_apiVars => ApiInv'
  <2> SUFFICES ASSUME ApiInv, [ApiNext]_apiVars PROVE ApiInv'
    OBVIOUS
  <2>1. CASE UNCHANGED apiVars
    BY <2>1 DEF apiVars, ApiInv, ApiTyped, Awaited, SentInOrder
  <2>2. CASE ApiNext
    BY <2>2, AnswersKeep, AuthenticateKeeps, JoinKeeps, RefreshDoneKeeps, RefreshFailsKeeps,
       EnvironmentKeeps DEF ApiNext, RequestStep
  <2> QED BY <2>1, <2>2
<1>3. ApiInv => RetryIsNewer
  BY DEF ApiInv, Awaited, SentInOrder, SentWith, RetryIsNewer
<1> QED BY <1>1, <1>2, <1>3, PTL DEF ApiSpec

-----------------------------------------------------------------------------
(* The React providers: packages/react.                                    *)

ReactSpec == ReactInit /\ [][ReactNext]_reactVars

Calls == [step : {"fetch", "json", "waiting", "settled"}, sent : {1, 2},
          by : {"provider", "application"}]
AuthProviderTyped == refreshes \in Seq(Calls) /\ timerRef \in Nat /\ orphans \in Seq(Nat)

\* The steps of I18nProvider leave the authentication as it is.
LEMMA I18nKeepsAuth == I18nProviderNext => UNCHANGED authVars
BY DEF I18nProviderNext, SetLocale, ReloadTranslations, LoadTranslations, LoadEnds, authVars

\* The steps that leave both the user and the session as they are, and the ones that do not.
LEMMA UserStays ==
  ASSUME SignedOutStays, ReactNext
  PROVE  SignedOutStays'
<1>1. CASE SessionAnswer \/ SessionRead \/ LogoutDone \/ Unmount
  BY <1>1 DEF SessionAnswer, SessionRead, LogoutDone, Unmount, ClearAuthState, KeepAuthState,
              SignedOutStays
<1>2. CASE \E i \in 1..MaxRefresh : RefreshRefused(i) \/ RefreshBreaks(i)
  BY <1>2 DEF RefreshRefused, RefreshBreaks, ClearAuthState, KeepAuthState, SignedOutStays
<1>3. CASE UNCHANGED <<signedIn, loggedOut, mounted>>
  BY <1>3 DEF SignedOutStays
<1>4. CASE Effect \/ RefreshTimerFires \/ BecomesVisible \/ Refresh \/ Logout
  BY <1>3, <1>4 DEF Effect, RefreshTimerFires, BecomesVisible, Refresh, Logout
<1>5. CASE \E i \in 1..MaxRefresh : RefreshAnswer(i) \/ RefreshRead(i) \/ RetryTimerFires(i)
  BY <1>3, <1>5 DEF RefreshAnswer, RefreshRead, RetryTimerFires
<1>6. CASE I18nProviderNext
  BY <1>3, <1>6, I18nKeepsAuth DEF authVars
<1> QED BY <1>1, <1>2, <1>4, <1>5, <1>6 DEF ReactNext, AuthProviderNext

\* AuthProvider of react/src/auth: after logout() no refresh, retry or timer signs the user in again.
THEOREM SignedOutIsFinal == ReactSpec => []SignedOutStays
<1>1. ReactInit => SignedOutStays
  BY DEF ReactInit, SignedOutStays
<1>2. SignedOutStays /\ [ReactNext]_reactVars => SignedOutStays'
  <2>1. SignedOutStays /\ UNCHANGED reactVars => SignedOutStays'
    BY DEF SignedOutStays, reactVars, authVars
  <2> QED BY <2>1, UserStays
<1> QED BY <1>1, <1>2, PTL DEF ReactSpec

\* A timer that fires is gone, and no other one is set by that.
LEMMA FiringSetsNoTimer ==
  ASSUME AuthProviderTyped, NEW k \in Nat, TimerFired(k)
  PROVE  timerRef' \in Nat /\ orphans' \in Seq(Nat) /\ Timers' \subseteq Timers
<1>1. CASE timerRef' = NoTimer /\ orphans' = orphans
  BY <1>1 DEF AuthProviderTyped, Timers, NoTimer, Range
<1>2. ASSUME NEW j \in DOMAIN orphans, timerRef' = timerRef, orphans' = RemoveAt(orphans, j)
      PROVE  timerRef' \in Nat /\ orphans' \in Seq(Nat) /\ Timers' \subseteq Timers
  <2>0. orphans \in Seq(Nat) /\ j \in 1..Len(orphans) /\ Len(orphans) \in Nat
        /\ \A i \in 1..Len(orphans) : orphans[i] \in Nat
    BY <1>2 DEF AuthProviderTyped
  <2> DEFINE before == SubSeq(orphans, 1, j - 1)
             after == SubSeq(orphans, j + 1, Len(orphans))
  <2>a. orphans \in Seq(Nat) /\ j \in 1..Len(orphans) /\ orphans' = before \o after
    BY <1>2 DEF AuthProviderTyped, RemoveAt
  <2>b. /\ before \in Seq(Nat) /\ Len(before) = j - 1
        /\ \A i \in 1..Len(before) : before[i] = orphans[i]
    <3>1. 1 \in Int /\ j - 1 \in Int /\ \A i \in 1..j - 1 : orphans[i] \in Nat
      BY <2>0
    <3>2. /\ before \in Seq(Nat) /\ Len(before) = IF 1 <= j - 1 THEN j - 1 - 1 + 1 ELSE 0
          /\ \A i \in 1..j - 1 - 1 + 1 : before[i] = orphans[1 + i - 1]
      BY ONLY <3>1, SubSeqProperties
    <3>3. Len(before) = j - 1
      BY <2>0, <3>2
    <3> QED BY <2>0, <3>2, <3>3
  <2>c. /\ after \in Seq(Nat) /\ Len(after) = Len(orphans) - j
        /\ \A i \in 1..Len(after) : after[i] = orphans[j + i]
    <3> DEFINE n == Len(orphans)
    <3>1. j + 1 \in Int /\ n \in Int /\ \A i \in j + 1..n : orphans[i] \in Nat
      BY <2>0
    <3>2. /\ after \in Seq(Nat) /\ Len(after) = IF j + 1 <= n THEN n - (j + 1) + 1 ELSE 0
          /\ \A i \in 1..n - (j + 1) + 1 : after[i] = orphans[j + 1 + i - 1]
      BY ONLY <3>1, SubSeqProperties
    <3> HIDE DEF after, n
    <3>3. Len(after) = n - j
      BY <2>0, <3>2 DEF n
    <3>4. ASSUME NEW i \in 1..Len(after) PROVE after[i] = orphans[j + i]
      <4>1. i \in 1..n - (j + 1) + 1 /\ j + 1 + i - 1 = j + i
        BY <2>0, <3>3 DEF n
      <4> QED BY <3>2, <4>1
    <3> QED BY <3>2, <3>3, <3>4 DEF n
  <2> HIDE DEF before, after
  <2>d. /\ orphans' \in Seq(Nat) /\ Len(orphans') = Len(orphans) - 1
        /\ \A i \in 1..Len(orphans) - 1 :
             orphans'[i] = IF i <= j - 1 THEN before[i] ELSE after[i - (j - 1)]
    <3>1. /\ before \o after \in Seq(Nat)
          /\ Len(before \o after) = Len(before) + Len(after)
          /\ \A i \in 1..Len(before) + Len(after) :
               (before \o after)[i] = IF i <= Len(before) THEN before[i] ELSE after[i - Len(before)]
      BY <2>b, <2>c, ConcatProperties
    <3>2. Len(before) + Len(after) = Len(orphans) - 1
      BY <2>a, <2>b, <2>c
    <3> QED BY <2>a, <2>b, <3>1, <3>2
  <2>1. /\ orphans' \in Seq(Nat)
        /\ \A i \in DOMAIN orphans' : \E m \in DOMAIN orphans : orphans'[i] = orphans[m]
    <3>1. ASSUME NEW i \in 1..Len(orphans) - 1
          PROVE  \E m \in 1..Len(orphans) : orphans'[i] = orphans[m]
      <4>1. i \in Nat /\ j \in Nat /\ Len(orphans) \in Nat
        BY <2>a
      <4>2. CASE i <= j - 1
        <5>1. i \in 1..Len(before) /\ i \in 1..Len(orphans)
          BY <2>a, <2>b, <4>1, <4>2
        <5>2. orphans'[i] = orphans[i]
          BY <2>b, <2>d, <4>2, <5>1
        <5> QED BY <5>1, <5>2
      <4>3. CASE ~(i <= j - 1)
        <5>1. i - (j - 1) \in 1..Len(after) /\ j + (i - (j - 1)) = i + 1 /\ i + 1 \in 1..Len(orphans)
          BY <2>a, <2>c, <4>1, <4>3
        <5>2. orphans'[i] = after[i - (j - 1)]
          BY <2>d, <4>3
        <5>3. orphans'[i] = orphans[i + 1]
          BY <2>c, <5>1, <5>2
        <5> QED BY <5>1, <5>3
      <4> QED BY <4>2, <4>3
    <3>2. DOMAIN orphans' = 1..Len(orphans) - 1 /\ DOMAIN orphans = 1..Len(orphans)
      BY <2>a, <2>d
    <3> QED BY <2>d, <3>1, <3>2
  <2> QED BY <1>2, <2>1 DEF AuthProviderTyped, Timers, Range
<1> QED BY <1>1, <1>2 DEF TimerFired

\* What the steps of the callers of performRefresh leave, and what they may do.
LEMMA CallsStayTyped ==
  ASSUME AuthProviderTyped, NEW caller \in {"provider", "application"}, PerformRefresh(caller)
  PROVE  /\ refreshes' \in Seq(Calls)
         /\ Len(refreshes') = Len(refreshes) + 1
         /\ \A i \in DOMAIN refreshes : refreshes'[i] = refreshes[i]
         /\ refreshes'[Len(refreshes) + 1].by = caller
         /\ refreshes'[Len(refreshes) + 1].step = "fetch"
BY DEF AuthProviderTyped, PerformRefresh, Calls

LEMMA RefreshGoesTyped ==
  ASSUME AuthProviderTyped, NEW i \in DOMAIN refreshes,
         NEW step \in {"json", "waiting", "settled"}, RefreshGoes(i, step)
  PROVE  /\ refreshes' \in Seq(Calls) /\ Len(refreshes') = Len(refreshes)
         /\ refreshes'[i].step = step
         /\ \A j \in DOMAIN refreshes : refreshes'[j].sent = refreshes[j].sent
         /\ \A j \in DOMAIN refreshes \ {i} : refreshes'[j] = refreshes[j]
<1>1. refreshes \in Seq(Calls) /\ refreshes[i] \in Calls
  BY DEF AuthProviderTyped
<1>2. [refreshes[i] EXCEPT !.step = step] \in Calls
  BY <1>1 DEF Calls
<1> DEFINE next == [refreshes[i] EXCEPT !.step = step]
<1>3. refreshes' = [refreshes EXCEPT ![i] = next]
  BY <1>1 DEF RefreshGoes
<1>4. next \in Calls /\ next.step = step /\ next.sent = refreshes[i].sent
  BY <1>1, <1>2 DEF Calls
<1> HIDE DEF next
<1>5. /\ refreshes' \in Seq(Calls) /\ Len(refreshes') = Len(refreshes)
      /\ \A j \in DOMAIN refreshes : refreshes'[j] = IF j = i THEN next ELSE refreshes[j]
  BY <1>1, <1>3, <1>4
<1> QED BY <1>4, <1>5

LEMMA AuthProviderStaysTyped ==
  ASSUME AuthProviderTyped, ReactNext
  PROVE  AuthProviderTyped'
<1>1. NoTimer \in Nat /\ Scheduled \in Nat /\ \A i \in 1..MaxRefresh : i \in Nat
  BY ReactAssumption DEF NoTimer, Scheduled
<1>a. CASE UNCHANGED <<refreshes, timerRef, orphans>>
  BY <1>a DEF AuthProviderTyped
<1>b. CASE refreshes' = refreshes /\ (ClearAuthState \/ KeepAuthState)
  BY <1>1, <1>b DEF ClearAuthState, KeepAuthState, AuthProviderTyped
<1>2. CASE SessionAnswer \/ SessionRead \/ LogoutDone
  BY <1>a, <1>b, <1>2 DEF SessionAnswer, SessionRead, LogoutDone
<1>3. CASE Effect
  BY <1>1, <1>3, CallsStayTyped DEF Effect, AuthProviderTyped
<1>4. CASE RefreshTimerFires
  BY <1>1, <1>4, FiringSetsNoTimer, CallsStayTyped DEF RefreshTimerFires, AuthProviderTyped
<1>5. CASE BecomesVisible \/ Refresh
  BY <1>5, CallsStayTyped DEF BecomesVisible, Refresh, AuthProviderTyped
<1>6. CASE \E i \in 1..MaxRefresh : RefreshAnswer(i) \/ RefreshRead(i)
  BY <1>6, RefreshGoesTyped DEF RefreshAnswer, RefreshRead, RefreshIs, AuthProviderTyped
<1>7. CASE \E i \in 1..MaxRefresh : RefreshRefused(i) \/ RefreshBreaks(i)
  <2>1. PICK i \in 1..MaxRefresh : RefreshRefused(i) \/ RefreshBreaks(i)
    BY <1>7
  <2>2. refreshes' \in Seq(Calls)
    BY <2>1, RefreshGoesTyped DEF RefreshRefused, RefreshBreaks, RefreshIs
  <2>3. ClearAuthState \/ KeepAuthState \/ SetTimer(i)
    BY <2>1 DEF RefreshRefused, RefreshBreaks
  <2>4. timerRef' \in Nat
    BY <1>1, <2>3 DEF ClearAuthState, KeepAuthState, SetTimer, AuthProviderTyped
  <2>5. orphans' \in {orphans, Append(orphans, timerRef)}
    BY <2>3 DEF ClearAuthState, KeepAuthState, SetTimer
  <2>6. orphans' \in Seq(Nat)
    BY <2>5 DEF AuthProviderTyped
  <2> QED BY <2>2, <2>4, <2>6 DEF AuthProviderTyped
<1>8. CASE \E i \in 1..MaxRefresh : RetryTimerFires(i)
  <2>1. PICK i \in 1..MaxRefresh : RetryTimerFires(i)
    BY <1>8
  <2>2. timerRef' \in Nat /\ orphans' \in Seq(Nat)
    BY <1>1, <2>1, FiringSetsNoTimer DEF RetryTimerFires
  <2>3. refreshes' \in Seq(Calls)
    <3>1. CASE RefreshGoes(i, "settled")
      BY <2>1, <3>1, RefreshGoesTyped DEF RetryTimerFires, RefreshIs
    <3>2. CASE SendAgain(i)
      <4>1. i \in DOMAIN refreshes /\ refreshes \in Seq(Calls) /\ refreshes[i] \in Calls
        BY <2>1 DEF RetryTimerFires, RefreshIs, AuthProviderTyped
      <4>2. [refreshes[i] EXCEPT !.step = "fetch", !.sent = 2] \in Calls
        BY <4>1 DEF Calls
      <4>3. refreshes' = [refreshes EXCEPT ![i] = [refreshes[i] EXCEPT !.step = "fetch", !.sent = 2]]
        BY <3>2, <4>1 DEF SendAgain
      <4> QED BY <4>1, <4>2, <4>3
    <3> QED BY <2>1, <3>1, <3>2 DEF RetryTimerFires
  <2> QED BY <2>2, <2>3 DEF AuthProviderTyped
<1>9. CASE Logout \/ Unmount
  BY <1>1, <1>9 DEF Logout, Unmount, AuthProviderTyped
<1>10. CASE I18nProviderNext
  BY <1>a, <1>10, I18nKeepsAuth DEF authVars
<1> QED BY <1>2, <1>3, <1>4, <1>5, <1>6, <1>7, <1>8, <1>9, <1>10 DEF ReactNext, AuthProviderNext

\* What a step of the unmounted provider may do to its requests, its timers and its state.
Quiet == NothingSent /\ NothingHeard /\ Timers' \subseteq Timers

LEMMA UnmountedIsQuiet ==
  ASSUME AuthProviderTyped, ReactNext, ~mounted
  PROVE  Quiet
<1>1. NoTimer \in Nat /\ Scheduled \in Nat /\ \A i \in 1..MaxRefresh : i \in Nat
  BY ReactAssumption DEF NoTimer, Scheduled
<1>a. CASE UNCHANGED <<refreshes, timerRef, orphans, signedIn, deadline, sessionCheck, isLoading>>
  BY <1>a DEF AuthProviderTyped, Quiet, NothingSent, NothingHeard, Timers
<1>2. CASE SessionAnswer
  BY <1>2 DEF SessionAnswer, SessionEnds, KeepAuthState, AuthProviderTyped, Quiet, NothingSent,
              NothingHeard, Timers
<1>3. CASE SessionRead
  BY <1>3 DEF SessionRead, SessionEnds, KeepAuthState, ClearAuthState, AuthProviderTyped, Quiet,
              NothingSent, NothingHeard, Timers
<1>4. CASE RefreshTimerFires
  BY <1>1, <1>4, FiringSetsNoTimer DEF RefreshTimerFires, AuthProviderTyped, Quiet, NothingSent,
              NothingHeard
<1>5. CASE Refresh
  <2>1. DOMAIN refreshes' = 1..Len(refreshes) + 1 /\ DOMAIN refreshes = 1..Len(refreshes)
    BY <1>5, CallsStayTyped DEF Refresh, AuthProviderTyped
  <2>2. NothingSent
    BY <1>5, <2>1, CallsStayTyped DEF Refresh, NothingSent, AuthProviderTyped
  <2>3. NothingHeard /\ Timers' = Timers
    BY <1>5, <2>1, CallsStayTyped DEF Refresh, NothingHeard, Timers, AuthProviderTyped
  <2> QED BY <2>2, <2>3 DEF Quiet
<1>6. CASE \E i \in 1..MaxRefresh : RefreshAnswer(i) \/ RefreshRead(i) \/ RefreshBreaks(i)
  <2>1. PICK i \in DOMAIN refreshes : RefreshAnswer(i) \/ RefreshRead(i) \/ RefreshBreaks(i)
    BY <1>6 DEF RefreshAnswer, RefreshRead, RefreshBreaks, RefreshIs
  <2>2. RefreshGoes(i, "settled")
    BY <2>1 DEF RefreshAnswer, RefreshRead, RefreshBreaks
  <2>3. DOMAIN refreshes' = DOMAIN refreshes
    BY <2>2, RefreshGoesTyped DEF AuthProviderTyped
  <2>4. NothingSent
    BY <2>2, <2>3, RefreshGoesTyped DEF NothingSent
  <2>5. \A j \in DOMAIN refreshes' : refreshes'[j].step = "json" => refreshes[j].step = "json"
    BY <2>2, <2>3, RefreshGoesTyped
  <2>6. /\ UNCHANGED <<sessionCheck, isLoading, timerRef, orphans>>
        /\ UNCHANGED <<signedIn, deadline>> \/ refreshes[i].step = "json"
    BY <2>1 DEF RefreshAnswer, RefreshRead, RefreshBreaks, KeepAuthState, RefreshIs
  <2>7. NothingHeard /\ Timers' = Timers
    BY <2>2, <2>3, <2>5, <2>6, RefreshGoesTyped DEF NothingHeard, Timers
  <2> QED BY <2>4, <2>7 DEF Quiet
<1>7. CASE \E i \in 1..MaxRefresh : RetryTimerFires(i)
  <2>1. PICK i \in 1..MaxRefresh : i \in DOMAIN refreshes /\ RetryTimerFires(i)
    BY <1>7 DEF RetryTimerFires, RefreshIs
  <2>2. RefreshGoes(i, "settled") /\ TimerFired(i)
    BY <2>1 DEF RetryTimerFires
  <2>3. DOMAIN refreshes' = DOMAIN refreshes
    BY <2>1, <2>2, RefreshGoesTyped DEF AuthProviderTyped
  <2>4. NothingSent /\ Timers' \subseteq Timers
    BY <1>1, <2>1, <2>2, <2>3, RefreshGoesTyped, FiringSetsNoTimer DEF NothingSent
  <2>5. \A j \in DOMAIN refreshes' : refreshes'[j].step = "json" => refreshes[j].step = "json"
    BY <2>1, <2>2, <2>3, RefreshGoesTyped
  <2> QED BY <2>1, <2>4, <2>5 DEF Quiet, NothingHeard, RetryTimerFires
<1>8. CASE Effect \/ BecomesVisible \/ Unmount \/ \E i \in 1..MaxRefresh : RefreshRefused(i)
  BY <1>8 DEF Effect, BecomesVisible, Unmount, RefreshRefused
<1>9. CASE Logout \/ LogoutDone
  BY <1>a, <1>9 DEF Logout, LogoutDone, KeepAuthState
<1>10. CASE I18nProviderNext
  BY <1>a, <1>10, I18nKeepsAuth DEF authVars
<1> QED BY <1>2, <1>3, <1>4, <1>5, <1>6, <1>7, <1>8, <1>9, <1>10 DEF ReactNext, AuthProviderNext

\* The clean-up of the effects of AuthProvider in react/src/auth: once the page is unmounted no
\* timer sends a refresh or a retry, none is set, and no answer is used that arrives then.
THEOREM UnmountIsFinal == ReactSpec => UnmountIsQuiet
<1>1. ReactInit => AuthProviderTyped
  BY DEF ReactInit, AuthProviderTyped, NoTimer
<1>2. AuthProviderTyped /\ [ReactNext]_reactVars => AuthProviderTyped'
  <2>1. AuthProviderTyped /\ UNCHANGED reactVars => AuthProviderTyped'
    BY DEF AuthProviderTyped, reactVars, authVars
  <2> QED BY <2>1, AuthProviderStaysTyped
<1>3. AuthProviderTyped /\ [ReactNext]_reactVars =>
        [~mounted => NothingSent /\ NothingHeard /\ Timers' \subseteq Timers]_reactVars
  BY UnmountedIsQuiet DEF Quiet
<1> QED BY <1>1, <1>2, <1>3, PTL DEF ReactSpec, UnmountIsQuiet

-----------------------------------------------------------------------------
(* The introspection of opaque tokens: packages/webafx-auth.               *)

AuthSpec == AuthInit /\ [][AuthNext]_askVars

Answers == {"sent", "active", "inactive"}

\* A call that awaits its answer is within its timeout; an answer "active" was given while the
\* token was.  What was accepted is what the property asks for.
AskRecords == [pc : Answers \cup {"idle", "accepted"}, token : Token \cup {""},
         tenant : Tenant \cup {""}, since : Int]
AskTyped == ask \in [Asker -> AskRecords]
EndpointTyped == time \in 0..MaxNow /\ ended \in [Token -> Int]

\* The tenants that share an endpoint and a client with one, and how long what they store lives.
FreshFor(scope, token, until, bound) ==
    \E u \in Tenant : Scope(u) = scope /\ Home(token) = scope /\ until <= bound + 2 * CacheTTL(u)
AskIsCurrent(me, at, over) ==
    /\ me.pc \in Answers \cup {"accepted"} => me.token \in Token /\ me.tenant \in Tenant
    /\ me.pc \in Answers => me.since <= at /\ at <= me.since + Timeout
    /\ me.pc = "active" => me.since <= over[me.token] /\ Home(me.token) = Scope(me.tenant)
    /\ me.pc = "accepted" =>
         /\ FreshFor(Scope(me.tenant), me.token, at, over[me.token] + Timeout)
         /\ Audience(me.tenant) # {} => Audience(me.tenant) \cap Aud(me.token) # {}
         /\ \A t \in Exp(me.token) : at < 2 * t
AsksAreCurrent == \A c \in Asker : AskIsCurrent(ask[c], time, ended)

\* An entry was stored by a tenant of its scope, for a token that was active when it was asked for.
Entries == [key : {<<Scope(t), token>> : t \in Tenant, token \in Token}, expiresAt : Int]
EntryIsFresh(e, at, over) ==
    \E u \in Tenant, token \in Token :
        /\ e.key = <<Scope(u), token>> /\ Home(token) = Scope(u)
        /\ e.expiresAt <= at + 2 * CacheTTL(u)
        /\ e.expiresAt <= over[token] + Timeout + 2 * CacheTTL(u)
Distinct(q) == \A i, j \in DOMAIN q : q[i].key = q[j].key => i = j
Fresh(q, at, over) == \A i \in DOMAIN q : EntryIsFresh(q[i], at, over)
EntriesAreFresh ==
    /\ entries \in Seq(Entries) /\ Len(entries) <= MaxCacheSize
    /\ Distinct(entries) /\ Fresh(entries, time, ended)

AuthInv == AskTyped /\ EndpointTyped /\ AsksAreCurrent /\ EntriesAreFresh

-----------------------------------------------------------------------------
LEMMA AuthInitInv == AuthInit => AuthInv
<1> SUFFICES ASSUME AuthInit PROVE AuthInv
  OBVIOUS
<1>1. MaxNow \in Nat /\ Never \in Int /\ 0 \in 0..MaxNow
  BY AuthAssumption DEF Never
<1>2. AskTyped
  <2>1. NewCall \in AskRecords
    BY DEF NewCall, AskRecords
  <2> QED BY <2>1 DEF AuthInit, AskTyped
<1>3. EndpointTyped
  BY <1>1 DEF AuthInit, EndpointTyped
<1>4. AsksAreCurrent
  BY DEF AuthInit, AsksAreCurrent, AskIsCurrent, NewCall, Answers
<1>5. EntriesAreFresh
  BY AuthAssumption DEF AuthInit, EntriesAreFresh, Distinct, Fresh
<1> QED BY <1>2, <1>3, <1>4, <1>5 DEF AuthInv

-----------------------------------------------------------------------------
(* The entries, as a queue.                                                *)

LEMMA RemovedAt ==
  ASSUME NEW S, NEW q \in Seq(S), NEW i \in DOMAIN q
  PROVE  /\ RemoveAt(q, i) \in Seq(S) /\ Len(RemoveAt(q, i)) = Len(q) - 1
         /\ Len(q) \in Nat /\ Len(q) >= 1
         /\ \A j \in 1..(Len(q) - 1) : RemoveAt(q, i)[j] = IF j < i THEN q[j] ELSE q[j + 1]
<1> DEFINE front == SubSeq(q, 1, i - 1)
           rear == SubSeq(q, i + 1, Len(q))
<1>1. i \in 1..Len(q) /\ Len(q) \in Nat
  OBVIOUS
<1>2. /\ front \in Seq(S) /\ Len(front) = i - 1
      /\ \A j \in 1..(i - 1) : front[j] = q[j]
  BY <1>1
<1>3. /\ rear \in Seq(S) /\ Len(rear) = Len(q) - i
      /\ \A j \in 1..(Len(q) - i) : rear[j] = q[i + j]
  BY <1>1
<1>4. RemoveAt(q, i) = front \o rear
  BY DEF RemoveAt
<1> HIDE DEF front, rear
<1>5. /\ front \o rear \in Seq(S) /\ Len(front \o rear) = Len(front) + Len(rear)
      /\ \A j \in 1..(Len(front) + Len(rear)) :
           (front \o rear)[j] = IF j <= Len(front) THEN front[j] ELSE rear[j - Len(front)]
  BY <1>2, <1>3
<1>6. ASSUME NEW j \in 1..(Len(q) - 1), j < i
      PROVE  (front \o rear)[j] = q[j]
  BY <1>1, <1>2, <1>3, <1>5, <1>6
<1>7. ASSUME NEW j \in 1..(Len(q) - 1), ~(j < i)
      PROVE  (front \o rear)[j] = q[j + 1]
  <2> DEFINE k == j - (i - 1)
  <2>1. k \in 1..(Len(q) - i) /\ i + k = j + 1 /\ ~(j <= i - 1)
    BY <1>1, <1>7
  <2>2. Len(front) = i - 1 /\ j \in 1..(Len(front) + Len(rear)) /\ j - Len(front) = k
    BY <1>1, <1>2, <1>3
  <2> HIDE DEF k
  <2>3. (front \o rear)[j] = rear[k]
    BY <1>5, <2>1, <2>2
  <2>4. rear[k] = q[i + k]
    BY <1>3, <2>1
  <2> QED BY <2>1, <2>3, <2>4, Zenon
<1>8. \A j \in 1..(Len(q) - 1) : (front \o rear)[j] = IF j < i THEN q[j] ELSE q[j + 1]
  BY <1>6, <1>7, Zenon
<1>9. /\ front \o rear \in Seq(S) /\ Len(front \o rear) = Len(q) - 1
      /\ Len(q) \in Nat /\ Len(q) >= 1
  BY <1>1, <1>2, <1>3, <1>5
<1> QED BY <1>4, <1>8, <1>9, Zenon

\* What is left when the entry of a key is gone.
LEMMA WithoutEntryKeeps ==
  ASSUME EntriesAreFresh, NEW key
  PROVE  /\ WithoutEntry(key) \in Seq(Entries) /\ Distinct(WithoutEntry(key))
         /\ Fresh(WithoutEntry(key), time, ended)
         /\ \A i \in DOMAIN WithoutEntry(key) : WithoutEntry(key)[i].key # key
         /\ Len(WithoutEntry(key)) <= Len(entries)
         /\ PlaceOf(key) # {} => Len(WithoutEntry(key)) = Len(entries) - 1
<1>0. entries \in Seq(Entries) /\ Distinct(entries) /\ Fresh(entries, time, ended)
          /\ Len(entries) \in Nat
  BY DEF EntriesAreFresh
<1>1. CASE PlaceOf(key) = {}
  BY <1>0, <1>1 DEF WithoutEntry, PlaceOf
<1>2. CASE PlaceOf(key) # {}
  <2>1. PICK i \in DOMAIN entries : WithoutEntry(key) = RemoveAt(entries, i) /\ entries[i].key = key
    BY <1>2 DEF WithoutEntry, PlaceOf
  <2> DEFINE q == WithoutEntry(key)
             From(j) == IF j < i THEN j ELSE j + 1
  <2>2. /\ q \in Seq(Entries) /\ Len(q) = Len(entries) - 1
        /\ \A j \in 1..(Len(entries) - 1) : q[j] = IF j < i THEN entries[j] ELSE entries[j + 1]
    BY <1>0, <2>1, RemovedAt
  <2> HIDE DEF q
  <2>3. DOMAIN q = 1..(Len(entries) - 1) /\ i \in 1..Len(entries)
            /\ DOMAIN entries = 1..Len(entries)
    BY <1>0, <2>2
  <2>4. \A j \in DOMAIN q : q[j] = entries[From(j)] /\ From(j) \in DOMAIN entries /\ From(j) # i
    BY <1>0, <2>2, <2>3
  <2>5. \A j, k \in DOMAIN q : From(j) = From(k) => j = k
    BY <1>0, <2>3
  <2> HIDE DEF From
  <2>6. Distinct(q)
    BY <1>0, <2>4, <2>5 DEF Distinct
  <2>7. Fresh(q, time, ended)
    BY <1>0, <2>4 DEF Fresh
  <2>8. \A j \in DOMAIN q : q[j].key # key
    BY <1>0, <2>1, <2>4 DEF Distinct
  <2>9. Len(q) <= Len(entries) /\ Len(q) = Len(entries) - 1
    BY <1>0, <2>2
  <2> QED BY <2>2, <2>6, <2>7, <2>8, <2>9 DEF q
<1> QED BY <1>1, <1>2

LEMMA AddedLast ==
  ASSUME NEW q \in Seq(Entries), NEW e \in Entries, Distinct(q), Fresh(q, time, ended),
         \A i \in DOMAIN q : q[i].key # e.key, EntryIsFresh(e, time, ended)
  PROVE  /\ Append(q, e) \in Seq(Entries) /\ Distinct(Append(q, e))
         /\ Fresh(Append(q, e), time, ended) /\ Len(Append(q, e)) = Len(q) + 1 /\ Len(q) \in Nat
<1> DEFINE longer == Append(q, e)
<1>1. /\ longer \in Seq(Entries) /\ Len(longer) = Len(q) + 1 /\ Len(q) \in Nat
      /\ DOMAIN longer = 1..(Len(q) + 1) /\ DOMAIN q = 1..Len(q)
      /\ \A i \in 1..Len(q) : longer[i] = q[i]
      /\ longer[Len(q) + 1] = e
  OBVIOUS
<1> HIDE DEF longer
<1>2. \A i \in DOMAIN longer : \/ i \in DOMAIN q /\ longer[i] = q[i]
                               \/ i = Len(q) + 1 /\ longer[i] = e
  BY <1>1
<1>3. Distinct(longer)
  BY <1>2 DEF Distinct
<1>4. Fresh(longer, time, ended)
  BY <1>2 DEF Fresh
<1> QED BY <1>1, <1>3, <1>4 DEF longer

\* The newest entries of a queue that is too long.
LEMMA Newest ==
  ASSUME NEW q \in Seq(Entries), Distinct(q), Fresh(q, time, ended), NEW n \in 0..Len(q)
  PROVE  LET kept == SubSeq(q, Len(q) - n + 1, Len(q)) IN
         /\ kept \in Seq(Entries) /\ Len(kept) = n
         /\ Distinct(kept) /\ Fresh(kept, time, ended)
<1> DEFINE kept == SubSeq(q, Len(q) - n + 1, Len(q))
<1>1. Len(q) \in Nat /\ n \in Nat /\ n <= Len(q)
  OBVIOUS
<1>2. /\ kept \in Seq(Entries) /\ Len(kept) = n
      /\ \A i \in 1..n : kept[i] = q[(Len(q) - n) + i]
  BY <1>1
<1> HIDE DEF kept
<1>3. \A i \in DOMAIN kept : kept[i] = q[(Len(q) - n) + i] /\ (Len(q) - n) + i \in DOMAIN q
          /\ i \in 1..n
  BY <1>1, <1>2
<1>4. Distinct(kept)
  <2> SUFFICES ASSUME NEW i \in DOMAIN kept, NEW j \in DOMAIN kept, kept[i].key = kept[j].key
               PROVE  i = j
    BY DEF Distinct
  <2>1. (Len(q) - n) + i = (Len(q) - n) + j
    BY <1>3 DEF Distinct
  <2> QED BY <1>1, <1>3, <2>1
<1>5. Fresh(kept, time, ended)
  BY <1>3 DEF Fresh
<1> QED BY <1>2, <1>4, <1>5 DEF kept

-----------------------------------------------------------------------------
(* What the cache stores.                                                  *)

LEMMA MinOfTwo ==
  ASSUME NEW a \in Int, NEW b \in Int
  PROVE  Min({a, b}) \in {a, b} /\ Min({a, b}) <= a /\ Min({a, b}) <= b
<1>1. \E x \in {a, b} : \A y \in {a, b} : x <= y
  <2>1. CASE a <= b
    BY <2>1
  <2>2. CASE ~(a <= b)
    BY <2>2
  <2> QED BY <2>1, <2>2
<1> QED BY <1>1 DEF Min

\* What is stored lives no longer than the tenant allows.
LEMMA TtlIsBounded ==
  ASSUME EndpointTyped, NEW token \in Token, NEW tenant \in Tenant
  PROVE  ComputeCacheTtl(token, tenant) \in Int /\ ComputeCacheTtl(token,
      tenant) <= CacheTTL(tenant)
<1> DEFINE ttl == CacheTTL(tenant)
<1>1. ttl \in Nat /\ ttl \in Int /\ Second \in Int
  BY AuthAssumption DEF EndpointTyped, Second
<1> HIDE DEF ttl
<1>2. CASE Exp(token) = {}
  <2>1. ComputeCacheTtl(token, tenant) = Min({ttl, ttl})
    <3>1. {ttl} \cup {t - Second : t \in Exp(token)} = {ttl, ttl}
      BY <1>2
    <3> QED BY <3>1 DEF ComputeCacheTtl, ttl
  <2>2. Min({ttl, ttl}) \in {ttl, ttl}
    BY <1>1, MinOfTwo, ZenonT(20)
  <2> QED BY <1>1, <2>1, <2>2 DEF ttl
<1>3. ASSUME NEW x \in Exp(token)
      PROVE  ComputeCacheTtl(token, tenant) \in Int /\ ComputeCacheTtl(token,
          tenant) <= CacheTTL(tenant)
  <2>1. x \in Nat /\ Exp(token) = {x}
    BY <1>3, AuthAssumption
  <2> DEFINE rest == x - Second
  <2>2. rest \in Int
    BY <1>1, <2>1
  <2>3. {ttl} \cup {t - Second : t \in Exp(token)} = {ttl, rest}
    BY <2>1
  <2> HIDE DEF rest
  <2>4. ComputeCacheTtl(token, tenant) = Min({ttl, rest})
    BY <2>3 DEF ComputeCacheTtl, ttl
  <2>5. Min({ttl, rest}) \in {ttl, rest} /\ Min({ttl, rest}) <= ttl
    BY <1>1, <2>2, MinOfTwo
  <2> QED BY <1>1, <2>2, <2>4, <2>5 DEF ttl
<1> QED BY <1>2, <1>3

\* A hit becomes the last entry, and leaves the others as they are.
LEMMA TouchedKeeps ==
  ASSUME EntriesAreFresh, NEW key
  PROVE  /\ Touched(key) \in Seq(Entries) /\ Len(Touched(key)) <= MaxCacheSize
         /\ Distinct(Touched(key)) /\ Fresh(Touched(key), time, ended)
<1>0. /\ entries \in Seq(Entries) /\ Fresh(entries, time, ended) /\ Len(entries) \in Nat
      /\ Len(entries) <= MaxCacheSize /\ MaxCacheSize \in Nat
  BY AuthAssumption DEF EntriesAreFresh
<1> DEFINE less == WithoutEntry(key)
<1>1. /\ less \in Seq(Entries) /\ Distinct(less) /\ Fresh(less, time, ended)
      /\ \A i \in DOMAIN less : less[i].key # key
      /\ Len(less) <= Len(entries)
      /\ PlaceOf(key) # {} => Len(less) = Len(entries) - 1
  BY WithoutEntryKeeps
<1>2. Len(less) \in Nat
  BY <1>1
<1> HIDE DEF less
<1>3. CASE Hit(key) = {}
  BY <1>0, <1>1, <1>2, <1>3 DEF Touched, less
<1>4. CASE Hit(key) # {}
  <2> DEFINE e == CHOOSE x \in Hit(key) : TRUE
  <2>1. e \in Range(entries) /\ e.key = key
    BY <1>4 DEF Hit, Cached
  <2>2. Touched(key) = Append(less, e)
    BY <1>4 DEF Touched, less
  <2> HIDE DEF e
  <2>3. PICK i \in DOMAIN entries : entries[i] = e
    BY <2>1 DEF Range
  <2>4. e \in Entries /\ EntryIsFresh(e, time, ended) /\ PlaceOf(key) # {}
    BY <1>0, <2>1, <2>3 DEF Fresh, PlaceOf
  <2>5. /\ Append(less, e) \in Seq(Entries) /\ Distinct(Append(less, e))
        /\ Fresh(Append(less, e), time, ended) /\ Len(Append(less, e)) = Len(less) + 1
    BY <1>1, <2>1, <2>4, AddedLast
  <2>6. Len(less) + 1 <= MaxCacheSize
    BY <1>0, <1>1, <1>2, <2>4
  <2> QED BY <2>2, <2>5, <2>6
<1> QED BY <1>3, <1>4

\* What is stored when an active answer is received.
LEMMA StoredKeeps ==
  ASSUME EntriesAreFresh, EndpointTyped, NEW token \in Token, NEW tenant \in Tenant,
         Home(token) = Scope(tenant), time <= ended[token] + Timeout
  PROVE  LET q == Stored(CacheKey(token, tenant), token, tenant) IN
         /\ q \in Seq(Entries) /\ Len(q) <= MaxCacheSize
         /\ Distinct(q) /\ Fresh(q, time, ended)
<1> DEFINE key == CacheKey(token, tenant)
           ttl == ComputeCacheTtl(token, tenant)
           new == [key |-> key, expiresAt |-> time + 2 * ttl]
           less == WithoutEntry(key)
           those == Append(less, new)
           n == Min({Len(those), MaxCacheSize})
           kept == SubSeq(those, Len(those) - n + 1, Len(those))
<1>1. ttl \in Int /\ ttl <= CacheTTL(tenant)
  BY TtlIsBounded
<1>2. time \in Int /\ ended[token] \in Int /\ Timeout \in Nat /\ MaxCacheSize \in Nat
          /\ CacheTTL(tenant) \in Nat
  BY AuthAssumption DEF EndpointTyped
<1> HIDE DEF ttl
<1>3. /\ time + 2 * ttl \in Int /\ time + 2 * ttl <= time + 2 * CacheTTL(tenant)
      /\ time + 2 * ttl <= ended[token] + Timeout + 2 * CacheTTL(tenant)
  BY <1>1, <1>2
<1>4. new \in Entries /\ EntryIsFresh(new, time, ended) /\ new.key = key
  BY <1>3 DEF Entries, EntryIsFresh, CacheKey
<1>5. /\ less \in Seq(Entries) /\ Distinct(less) /\ Fresh(less, time, ended)
      /\ \A i \in DOMAIN less : less[i].key # key
  BY WithoutEntryKeeps
<1> HIDE DEF less, new, key
<1>6. /\ those \in Seq(Entries) /\ Distinct(those) /\ Fresh(those, time, ended)
             /\ Len(those) \in Nat
  BY <1>4, <1>5, AddedLast
<1> HIDE DEF those
<1>7. n \in 0..Len(those) /\ n <= MaxCacheSize
  <2>1. Len(those) \in Int /\ MaxCacheSize \in Int
    BY <1>2, <1>6
  <2>2. n \in {Len(those), MaxCacheSize} /\ n <= Len(those) /\ n <= MaxCacheSize
    BY <2>1, MinOfTwo, ZenonT(20)
  <2> HIDE DEF n
  <2> QED BY <1>2, <1>6, <2>2
<1> HIDE DEF n
<1>8. kept \in Seq(Entries) /\ Len(kept) = n /\ Distinct(kept) /\ Fresh(kept, time, ended)
  BY <1>6, <1>7, Newest
<1> HIDE DEF kept
<1>9. Stored(key, token, tenant) = IF ttl <= 0 THEN entries ELSE kept
  BY DEF Stored, kept, n, those, less, new, ttl
<1>10. entries \in Seq(Entries) /\ Len(entries) <= MaxCacheSize /\ Distinct(entries)
           /\ Fresh(entries, time, ended)
  BY DEF EntriesAreFresh
<1> QED BY <1>7, <1>8, <1>9, <1>10 DEF key

-----------------------------------------------------------------------------
(* The steps.                                                              *)

\* A call that changes leaves the others as they are.
LEMMA OneAskChanges ==
  ASSUME AuthInv, NEW c \in Asker,
         NEW new \in AskRecords,
         ask' = [ask EXCEPT ![c] = new], AskIsCurrent(new, time, ended), UNCHANGED <<time, ended>>
  PROVE  AskTyped' /\ AsksAreCurrent' /\ EndpointTyped'
<1>1. AskTyped' /\ EndpointTyped'
  BY DEF AuthInv, AskTyped, EndpointTyped
<1>2. \A b \in Asker : ask'[b] = IF b = c THEN new ELSE ask[b]
  BY DEF AuthInv, AskTyped
<1>3. \A b \in Asker : AskIsCurrent(ask'[b], time, ended)
  BY <1>2 DEF AuthInv, AsksAreCurrent
<1>4. AsksAreCurrent'
  BY <1>3 DEF AsksAreCurrent
<1> QED BY <1>1, <1>4

LEMMA AskEndsKeeps ==
  ASSUME AuthInv, NEW c \in Asker, AskEnds(c), UNCHANGED <<time, ended>>
  PROVE  AskTyped' /\ AsksAreCurrent' /\ EndpointTyped'
<1>1. NewCall \in AskRecords
  BY DEF NewCall, AskRecords
<1>2. AskIsCurrent(NewCall, time, ended)
  BY DEF NewCall, AskIsCurrent, Answers
<1> QED BY <1>1, <1>2, OneAskChanges DEF AskEnds

\* The entries do not change, or are the ones that a lemma above is about.
LEMMA EntriesKept ==
  ASSUME AuthInv, UNCHANGED <<time, ended>>,
         \/ UNCHANGED entries
         \/ /\ entries' \in Seq(Entries) /\ Len(entries') <= MaxCacheSize
            /\ Distinct(entries') /\ Fresh(entries', time, ended)
  PROVE  EntriesAreFresh'
BY DEF AuthInv, EntriesAreFresh

\* Where a token is usable, it is so by the clock of the asker, too.
LEMMA UsableNow ==
  ASSUME EndpointTyped, NEW token \in Token, NEW tenant \in Tenant, IsUsable(token, tenant)
  PROVE  /\ Audience(tenant) # {} => Audience(tenant) \cap Aud(token) # {}
         /\ \A t \in Exp(token) : time < 2 * t
<1>1. ASSUME NEW t \in Exp(token) PROVE time < 2 * t
  <2>1. t \in Nat /\ time \in Int /\ t > time \div 2
    BY <1>1, AuthAssumption DEF EndpointTyped, IsUsable, Second
  <2> QED BY <2>1
<1> QED BY <1>1 DEF IsUsable

\* What a hit says of the token, whichever tenant stored it.
LEMMA HitIsFresh ==
  ASSUME AuthInv, NEW token \in Token, NEW tenant \in Tenant, Hit(CacheKey(token, tenant)) # {}
  PROVE  FreshFor(Scope(tenant), token, time, ended[token] + Timeout)
<1>1. PICK e \in Range(entries) : e.key = CacheKey(token, tenant) /\ time < e.expiresAt
  BY DEF Hit, Cached
<1>2. EntryIsFresh(e, time, ended) /\ e \in Entries
  BY <1>1 DEF Range, AuthInv, EntriesAreFresh, Fresh
<1>3. PICK u \in Tenant, tok \in Token :
        /\ e.key = <<Scope(u), tok>> /\ Home(tok) = Scope(u)
        /\ e.expiresAt <= ended[tok] + Timeout + 2 * CacheTTL(u)
  BY <1>2 DEF EntryIsFresh
<1>4. Scope(u) = Scope(tenant) /\ tok = token
  BY <1>1, <1>3 DEF CacheKey
<1>5. time \in Int /\ e.expiresAt \in Int /\ ended[tok] \in Int /\ Timeout \in Int
          /\ CacheTTL(u) \in Int
  BY <1>2, AuthAssumption DEF AuthInv, EndpointTyped, Entries
<1>6. time <= ended[tok] + Timeout + 2 * CacheTTL(u)
  BY <1>1, <1>3, <1>5
<1> QED BY <1>3, <1>4, <1>6 DEF FreshFor

LEMMA IntrospectKeeps ==
  ASSUME AuthInv, NEW c \in Asker, NEW token \in Token, NEW tenant \in Tenant,
         Introspect(c, token, tenant)
  PROVE  AuthInv'
<1> DEFINE key == CacheKey(token, tenant)
           To(step) == [pc |-> step, token |-> token, tenant |-> tenant,
                      since |-> IF step = "sent" THEN time ELSE 0]
<1>1. UNCHANGED <<time, ended>> /\ entries' = Touched(key)
  BY DEF Introspect
<1>2. EntriesAreFresh'
  <2>1. /\ Touched(key) \in Seq(Entries) /\ Len(Touched(key)) <= MaxCacheSize
        /\ Distinct(Touched(key)) /\ Fresh(Touched(key), time, ended)
    BY TouchedKeeps DEF AuthInv
  <2> HIDE DEF key
  <2> QED BY <1>1, <2>1, EntriesKept
<1>3. time \in Int /\ Timeout \in Nat
  BY AuthAssumption DEF AuthInv, EndpointTyped
<1>4. CASE Hit(key) = {}
  <2>1. ask' = [ask EXCEPT ![c] = To("sent")]
    BY <1>4 DEF Introspect
  <2>2. To("sent") \in AskRecords
    BY <1>3 DEF Answers, AskRecords
  <2>3. AskIsCurrent(To("sent"), time, ended)
    BY <1>3 DEF Answers, AskIsCurrent
  <2> HIDE DEF To
  <2>4. AskTyped' /\ AsksAreCurrent' /\ EndpointTyped'
    BY <1>1, <2>1, <2>2, <2>3, OneAskChanges
  <2> QED BY <1>2, <2>4 DEF AuthInv
<1>5. CASE Hit(key) # {} /\ IsUsable(token, tenant)
  <2>1. ask' = [ask EXCEPT ![c] = To("accepted")]
    BY <1>5 DEF Introspect
  <2>2. To("accepted") \in AskRecords
    <3>1. (IF "accepted" = "sent" THEN time ELSE 0) \in Int
      BY <1>3
    <3> QED BY <3>1 DEF AskRecords
  <2>3. AskIsCurrent(To("accepted"), time, ended)
    <3>1. FreshFor(Scope(tenant), token, time, ended[token] + Timeout)
      BY <1>5, HitIsFresh
    <3>2. /\ Audience(tenant) # {} => Audience(tenant) \cap Aud(token) # {}
          /\ \A t \in Exp(token) : time < 2 * t
      BY <1>5, UsableNow DEF AuthInv
    <3> QED BY <3>1, <3>2 DEF AskIsCurrent, Answers
  <2> HIDE DEF To
  <2>4. AskTyped' /\ AsksAreCurrent' /\ EndpointTyped'
    BY <1>1, <2>1, <2>2, <2>3, OneAskChanges
  <2> QED BY <1>2, <2>4 DEF AuthInv
<1>6. CASE Hit(key) # {} /\ ~IsUsable(token, tenant)
  <2>1. UNCHANGED ask
    BY <1>6 DEF Introspect
  <2>2. AskTyped' /\ AsksAreCurrent' /\ EndpointTyped'
    BY <1>1, <2>1 DEF AuthInv, AskTyped, AsksAreCurrent, EndpointTyped
  <2> QED BY <1>2, <2>2 DEF AuthInv
<1> QED BY <1>4, <1>5, <1>6

LEMMA EndpointAnswersKeeps ==
  ASSUME AuthInv, NEW c \in Asker, EndpointAnswers(c)
  PROVE  AuthInv'
<1> DEFINE me == ask[c]
           step == IF time < ended[me.token] /\ Home(me.token) = Scope(me.tenant)
                 THEN "active" ELSE "inactive"
           new == [me EXCEPT !.pc = step]
<1>1. /\ UNCHANGED <<time, ended, entries>> /\ me.pc = "sent"
      /\ ask' = [ask EXCEPT ![c] = new]
  BY DEF EndpointAnswers
<1>2. me \in AskRecords /\ AskIsCurrent(me, time, ended)
  BY DEF AuthInv, AskTyped, AsksAreCurrent, AskRecords
<1>3. me.token \in Token /\ me.tenant \in Tenant /\ me.since <= time /\ time <= me.since + Timeout
  BY <1>1, <1>2 DEF AskIsCurrent, Answers
<1>4. time \in Int /\ me.since \in Int /\ ended[me.token] \in Int
  <2>1. me.since \in Int
    BY <1>2 DEF AskRecords
  <2>2. time \in Int /\ ended \in [Token -> Int]
    BY DEF AuthInv, EndpointTyped
  <2> QED BY <1>3, <2>1, <2>2
<1>5. new \in AskRecords
  BY <1>2 DEF Answers, AskRecords
<1>6. /\ new.pc = step /\ new.token = me.token /\ new.tenant = me.tenant /\ new.since = me.since
  BY <1>2
<1>7. step = "active" => me.since <= ended[me.token] /\ Home(me.token) = Scope(me.tenant)
  BY <1>3, <1>4
<1>8. step \in {"active", "inactive"}
  OBVIOUS
<1> HIDE DEF step, new, me
<1>9. AskIsCurrent(new, time, ended)
  BY <1>3, <1>6, <1>7, <1>8 DEF AskIsCurrent, Answers
<1>10. AskTyped' /\ AsksAreCurrent' /\ EndpointTyped'
  BY <1>1, <1>5, <1>9, OneAskChanges
<1> QED BY <1>1, <1>10, EntriesKept DEF AuthInv

LEMMA ReceiveKeeps ==
  ASSUME AuthInv, NEW c \in Asker, Receive(c)
  PROVE  AuthInv'
<1> DEFINE me == ask[c]
           new == [me EXCEPT !.pc = "accepted", !.since = 0]
           key == CacheKey(me.token, me.tenant)
<1>1. UNCHANGED <<time, ended>> /\ me.pc \in {"active", "inactive"}
  BY DEF Receive
<1>2. me \in AskRecords /\ AskIsCurrent(me, time, ended)
  BY DEF AuthInv, AskTyped, AsksAreCurrent, AskRecords
<1>3. me.token \in Token /\ me.tenant \in Tenant /\ me.since <= time /\ time <= me.since + Timeout
  BY <1>1, <1>2 DEF AskIsCurrent, Answers
<1>4. CASE me.pc = "active" /\ IsUsable(me.token, me.tenant)
  <2>1. ask' = [ask EXCEPT ![c] = new] /\ entries' = Stored(key, me.token, me.tenant)
    BY <1>4 DEF Receive
  <2>2. Home(me.token) = Scope(me.tenant) /\ me.since <= ended[me.token]
    BY <1>2, <1>4 DEF AskIsCurrent
  <2>3. /\ time \in Int /\ me.since \in Int /\ ended[me.token] \in Int /\ Timeout \in Nat
        /\ CacheTTL(me.tenant) \in Nat
    <3>1. me.since \in Int
      BY <1>2 DEF AskRecords
    <3>2. time \in Int /\ ended \in [Token -> Int]
      BY DEF AuthInv, EndpointTyped
    <3> QED BY <1>3, <3>1, <3>2, AuthAssumption
  <2>4. /\ time <= ended[me.token] + Timeout
        /\ time <= ended[me.token] + Timeout + 2 * CacheTTL(me.tenant)
    BY <1>3, <2>2, <2>3
  <2>5. /\ Audience(me.tenant) # {} => Audience(me.tenant) \cap Aud(me.token) # {}
        /\ \A t \in Exp(me.token) : time < 2 * t
    BY <1>3, <1>4, UsableNow DEF AuthInv
  <2>6. new \in AskRecords
    <3> HIDE DEF me
    <3>1. 0 \in Int
      OBVIOUS
    <3> QED BY <1>2, <3>1 DEF AskRecords
  <2>7. new.pc = "accepted" /\ new.token = me.token /\ new.tenant = me.tenant
    BY <1>2
  <2> HIDE DEF me
  <2>8. /\ entries' \in Seq(Entries) /\ Len(entries') <= MaxCacheSize
        /\ Distinct(entries') /\ Fresh(entries', time, ended)
    BY <1>3, <2>1, <2>2, <2>4, StoredKeeps DEF AuthInv
  <2> HIDE DEF new, key
  <2>9. AskIsCurrent(new, time, ended)
    <3>1. FreshFor(Scope(me.tenant), me.token, time, ended[me.token] + Timeout)
      BY <1>3, <2>2, <2>4 DEF FreshFor
    <3> QED BY <1>3, <2>5, <2>7, <3>1 DEF AskIsCurrent, Answers
  <2>10. AskTyped' /\ AsksAreCurrent' /\ EndpointTyped'
    BY <1>1, <2>1, <2>6, <2>9, OneAskChanges
  <2> QED BY <1>1, <2>8, <2>10, EntriesKept DEF AuthInv
<1>5. CASE ~(me.pc = "active" /\ IsUsable(me.token, me.tenant))
  <2>1. UNCHANGED entries /\ AskEnds(c)
    BY <1>5 DEF Receive
  <2>2. AskTyped' /\ AsksAreCurrent' /\ EndpointTyped'
    BY <1>1, <2>1, AskEndsKeeps
  <2> QED BY <1>1, <2>1, <2>2, EntriesKept DEF AuthInv
<1> QED BY <1>4, <1>5

\* A token that is ended is ended at, which is no earlier than it was asked about.
LEMMA RevokedKeeps ==
  ASSUME AuthInv, NEW token \in Token, Revoked(token)
  PROVE  AuthInv'
<1>1. UNCHANGED <<time, entries, ask>> /\ ended' = [ended EXCEPT ![token] = time]
  BY DEF Revoked
<1>2. /\ time \in Int /\ ended \in [Token -> Int] /\ Timeout \in Nat
      /\ \A u \in Tenant : CacheTTL(u) \in Nat
  BY AuthAssumption DEF AuthInv, EndpointTyped
<1>3. \A tok \in Token : ended'[tok] = IF tok = token THEN time ELSE ended[tok]
  BY <1>1, <1>2
<1>4. \A m, n \in Nat : time <= time + m + 2 * n
  BY <1>2
<1>5. AskTyped' /\ EndpointTyped'
  BY <1>1, <1>2 DEF AuthInv, AskTyped, EndpointTyped
<1>6. AsksAreCurrent'
  <2> SUFFICES ASSUME NEW c \in Asker PROVE AskIsCurrent(ask[c], time, ended')
    BY <1>1 DEF AsksAreCurrent
  <2> DEFINE me == ask[c]
  <2>1. AskIsCurrent(me, time, ended)
    BY DEF AuthInv, AsksAreCurrent
  <2> HIDE DEF me
  <2>2. me.pc = "active" => me.since <= ended'[me.token]
    BY <1>3, <2>1 DEF AskIsCurrent, Answers
  <2>3. ASSUME me.pc = "accepted"
        PROVE  FreshFor(Scope(me.tenant), me.token, time, ended'[me.token] + Timeout)
    <3>1. PICK u \in Tenant : /\ Scope(u) = Scope(me.tenant) /\ Home(me.token) = Scope(me.tenant)
                              /\ time <= ended[me.token] + Timeout + 2 * CacheTTL(u)
      BY <2>1, <2>3 DEF AskIsCurrent, FreshFor
    <3>2. me.token \in Token
      BY <2>1, <2>3 DEF AskIsCurrent
    <3>3. time <= ended'[me.token] + Timeout + 2 * CacheTTL(u)
      <4>1. CASE me.token = token
        BY <1>2, <1>3, <1>4, <4>1
      <4>2. CASE me.token # token
        BY <1>3, <3>1, <3>2, <4>2
      <4> QED BY <4>1, <4>2
    <3> QED BY <3>1, <3>3 DEF FreshFor
  <2>4. AskIsCurrent(me, time, ended')
    BY <2>1, <2>2, <2>3 DEF AskIsCurrent
  <2> QED BY <2>4 DEF me
<1>7. EntriesAreFresh'
  <2>1. ASSUME NEW i \in DOMAIN entries PROVE EntryIsFresh(entries[i], time, ended')
    <3> DEFINE e == entries[i]
    <3>1. EntryIsFresh(e, time, ended) /\ e \in Entries
      BY <2>1 DEF AuthInv, EntriesAreFresh, Fresh
    <3> HIDE DEF e
    <3>2. PICK u \in Tenant, tok \in Token :
            /\ e.key = <<Scope(u), tok>> /\ Home(tok) = Scope(u)
            /\ e.expiresAt <= time + 2 * CacheTTL(u)
            /\ e.expiresAt <= ended[tok] + Timeout + 2 * CacheTTL(u)
      BY <3>1 DEF EntryIsFresh
    <3>3. e.expiresAt \in Int
      BY <3>1 DEF Entries
    <3>4. e.expiresAt <= ended'[tok] + Timeout + 2 * CacheTTL(u)
      <4>1. CASE tok = token
        <5>1. e.expiresAt <= time + Timeout + 2 * CacheTTL(u)
          BY <1>2, <3>2, <3>3
        <5> QED BY <1>3, <4>1, <5>1
      <4>2. CASE tok # token
        BY <1>3, <3>2, <4>2
      <4> QED BY <4>1, <4>2
    <3>5. EntryIsFresh(e, time, ended')
      BY <3>2, <3>4 DEF EntryIsFresh
    <3> QED BY <3>5 DEF e
  <2> QED BY <1>1, <2>1 DEF AuthInv, EntriesAreFresh, Fresh, Distinct
<1> QED BY <1>5, <1>6, <1>7 DEF AuthInv

LEMMA TimePassesKeeps ==
  ASSUME AuthInv, TimePasses
  PROVE  AuthInv'
<1>1. UNCHANGED <<ended, entries, ask>> /\ time' = time + 1 /\ time < MaxNow
  BY DEF TimePasses
<1>2. /\ time \in Nat /\ time' \in Int /\ MaxNow \in Nat /\ time \in 0..MaxNow
      /\ \A u \in Tenant : CacheTTL(u) \in Nat
  BY <1>1, AuthAssumption DEF AuthInv, EndpointTyped
<1>3. AskTyped' /\ EndpointTyped'
  <2>1. time' \in 0..MaxNow
    BY <1>1, <1>2
  <2> QED BY <1>1, <2>1 DEF AuthInv, AskTyped, EndpointTyped
<1>4. AsksAreCurrent'
  <2> SUFFICES ASSUME NEW c \in Asker PROVE AskIsCurrent(ask[c], time', ended)
    BY <1>1 DEF AsksAreCurrent
  <2> DEFINE me == ask[c]
  <2>1. AskIsCurrent(me, time, ended)
    BY DEF AuthInv, AsksAreCurrent
  <2>2. me.pc # "accepted" /\ (me.pc # "idle" => time < me.since + Timeout)
    BY DEF TimePasses
  <2>3. me.since \in Int /\ Timeout \in Nat
    BY AuthAssumption DEF AuthInv, AskTyped, AskRecords
  <2> HIDE DEF me
  <2>4. me.pc \in Answers => me.since <= time /\ time < me.since + Timeout
    BY <2>1, <2>2 DEF AskIsCurrent, Answers
  <2>5. me.pc \in Answers => me.since <= time' /\ time' <= me.since + Timeout
    BY <1>1, <1>2, <2>3, <2>4
  <2>6. AskIsCurrent(me, time', ended)
    BY <2>1, <2>2, <2>5 DEF AskIsCurrent
  <2> QED BY <2>6 DEF me
<1>5. EntriesAreFresh'
  <2>1. ASSUME NEW i \in DOMAIN entries PROVE EntryIsFresh(entries[i], time', ended)
    <3> DEFINE e == entries[i]
    <3>1. EntryIsFresh(e, time, ended) /\ e \in Entries
      BY <2>1 DEF AuthInv, EntriesAreFresh, Fresh
    <3> HIDE DEF e
    <3>2. PICK u \in Tenant, tok \in Token :
            /\ e.key = <<Scope(u), tok>> /\ Home(tok) = Scope(u)
            /\ e.expiresAt <= time + 2 * CacheTTL(u)
            /\ e.expiresAt <= ended[tok] + Timeout + 2 * CacheTTL(u)
      BY <3>1 DEF EntryIsFresh
    <3>3. e.expiresAt \in Int
      BY <3>1 DEF Entries
    <3>4. e.expiresAt <= time' + 2 * CacheTTL(u)
      BY <1>1, <1>2, <3>2, <3>3
    <3>5. EntryIsFresh(e, time', ended)
      BY <3>2, <3>4 DEF EntryIsFresh
    <3> QED BY <3>5 DEF e
  <2> QED BY <1>1, <2>1 DEF AuthInv, EntriesAreFresh, Fresh, Distinct
<1> QED BY <1>3, <1>4, <1>5 DEF AuthInv

LEMMA AuthStep == AuthInv /\ [AuthNext]_askVars => AuthInv'
<1> SUFFICES ASSUME AuthInv, [AuthNext]_askVars PROVE AuthInv'
  OBVIOUS
<1>1. ASSUME NEW c \in Asker, NEW token \in Token, NEW tenant \in Tenant,
             Introspect(c, token, tenant)
      PROVE  AuthInv'
  BY <1>1, IntrospectKeeps
<1>2. ASSUME NEW c \in Asker, EndpointAnswers(c)
      PROVE  AuthInv'
  BY <1>2, EndpointAnswersKeeps
<1>3. ASSUME NEW c \in Asker, IntrospectionFails(c) \/ MapClaims(c)
      PROVE  AuthInv'
  <2>1. AskEnds(c) /\ UNCHANGED <<time, ended, entries>>
    BY <1>3 DEF IntrospectionFails, MapClaims
  <2>2. AskTyped' /\ AsksAreCurrent' /\ EndpointTyped'
    BY <2>1, AskEndsKeeps
  <2> QED BY <2>1, <2>2, EntriesKept DEF AuthInv
<1>4. ASSUME NEW c \in Asker, Receive(c)
      PROVE  AuthInv'
  BY <1>4, ReceiveKeeps
<1>5. ASSUME NEW token \in Token, Revoked(token)
      PROVE  AuthInv'
  BY <1>5, RevokedKeeps
<1>6. CASE Shutdown
  <2>1. entries' = <<>> /\ UNCHANGED <<time, ended, ask>>
    BY <1>6 DEF Shutdown
  <2>2. EntriesAreFresh'
    BY <2>1, AuthAssumption DEF EntriesAreFresh, Distinct, Fresh
  <2> QED BY <2>1, <2>2 DEF AuthInv, AskTyped, EndpointTyped, AsksAreCurrent
<1>7. CASE TimePasses
  BY <1>7, TimePassesKeeps
<1>8. CASE UNCHANGED askVars
  BY <1>8 DEF askVars, AuthInv, AskTyped, EndpointTyped, AsksAreCurrent, EntriesAreFresh
<1> QED BY <1>1, <1>2, <1>3, <1>4, <1>5, <1>6, <1>7, <1>8 DEF AuthNext

LEMMA AuthInvImplies == AuthInv => AcceptedIsCurrent
<1> SUFFICES ASSUME AuthInv PROVE AcceptedIsCurrent
  OBVIOUS
<1>1. ASSUME NEW c \in Asker, ask[c].pc = "accepted"
      PROVE  /\ Home(ask[c].token) = Scope(ask[c].tenant)
             /\ Audience(ask[c].tenant) # {} => Audience(ask[c].tenant) \cap Aud(ask[c].token) # {}
             /\ \A t \in Exp(ask[c].token) : time < 2 * t
             /\ \E shared \in {u \in Tenant : Scope(u) = Scope(ask[c].tenant)} :
                    time <= ended[ask[c].token] + 2 * CacheTTL(shared) + Timeout
  <2> DEFINE me == ask[c]
  <2>1. AskIsCurrent(me, time, ended)
    BY DEF AuthInv, AsksAreCurrent
  <2>2. me.pc = "accepted"
    BY <1>1
  <2> HIDE DEF me
  <2>3. me.token \in Token /\ ended[me.token] \in Int /\ Timeout \in Int
    BY <2>1, <2>2, AuthAssumption DEF AskIsCurrent, AuthInv, EndpointTyped
  <2>4. PICK u \in Tenant : /\ Scope(u) = Scope(me.tenant) /\ Home(me.token) = Scope(me.tenant)
                            /\ time <= ended[me.token] + Timeout + 2 * CacheTTL(u)
    BY <2>1, <2>2 DEF AskIsCurrent, FreshFor
  <2>5. CacheTTL(u) \in Int
    BY AuthAssumption
  <2>6. time <= ended[me.token] + 2 * CacheTTL(u) + Timeout
    BY <2>3, <2>4, <2>5
  <2>7. /\ Audience(me.tenant) # {} => Audience(me.tenant) \cap Aud(me.token) # {}
        /\ \A t \in Exp(me.token) : time < 2 * t
    BY <2>1, <2>2 DEF AskIsCurrent
  <2> QED BY <2>4, <2>6, <2>7 DEF me
<1>2. Len(entries) <= MaxCacheSize /\ \A i,
          j \in DOMAIN entries : entries[i].key = entries[j].key => i = j
  BY DEF AuthInv, EntriesAreFresh, Distinct
<1> QED BY <1>1, <1>2 DEF AcceptedIsCurrent

\* IntrospectionAuthProvider of webafx-auth/src, with its cache: a token is accepted only for the
\* endpoint and client that issued it, for its audience, before its expiry, and no later after its
\* end than a request may take and what was stored by a tenant of that scope may live.
THEOREM AcceptedAreCurrent == AuthSpec => []AcceptedIsCurrent
BY AuthInitInv, AuthStep, AuthInvImplies, PTL DEF AuthSpec

-----------------------------------------------------------------------------
(* The adoption of a baseline: packages/codegen.                           *)

AdoptionSpec == AdoptionInit /\ [][AdoptionNext]_adoptionVars

Fields == {"at", "alive", "confirmation", "local", "locked", "snapshot", "result"}
Locked == {"reread", "preview", "begin", "compare", "ledger", "commit", "rollback"}

AdopterTyped ==
    /\ adopter = [a \in Adopter |-> adopter[a]]
    /\ \A a \in Adopter :
         /\ DOMAIN adopter[a] = Fields
         /\ adopter[a].at \in Locked \cup {"idle", "lock", "release", "done"}
         /\ adopter[a].alive \in BOOLEAN

\* The files hold one baseline or a torn one, and the ledger one row at most.
FilesTyped ==
    /\ \A b, c \in disk : b = c
    /\ ledger = <<>> \/ \E row : ledger = <<row>>

\* The lock is with the adopter that works on the database, as long as its session lives.
HoldsLock ==
    \A a \in Adopter : adopter[a].at \in Locked /\ adopter[a].alive => holder = a

\* What an adopter has seen by the time it is at a step.
Seen(me, applied) ==
        /\ me.at \in Locked \cup {"idle", "lock"} => me.result = "none"
        /\ me.at \in Locked \cup {"lock"} => \E b : me.local = {b}
        /\ me.at \in Locked \ {"reread"} => me.locked = me.local
        /\ me.at \in {"begin", "compare", "ledger", "commit"}
               => \A b \in me.local : me.confirmation = b.id
        /\ me.at \in {"compare", "ledger", "commit"} =>
             \E schema, rows :
                 /\ me.snapshot = {[catalog |-> schema, ledger |-> rows]}
                 /\ me.alive => rows = applied
                 /\ me.at \in {"ledger", "commit"} => \A b \in me.local : b.schema = schema
                 /\ me.at = "commit" => rows = <<>>
SeenBy(a) == Seen(adopter[a], ledger)
HasSeen == \A a \in Adopter : SeenBy(a)

\* The author of a row has ended, with what it confirmed, read and saw.
AuthorsEnded ==
    \A i \in DOMAIN ledger : LET a == ledger[i].by IN
        a \in Adopter =>
            /\ adopter[a].at \in {"release", "done"}
            /\ ledger[i].local.id = adopter[a].confirmation
            /\ adopter[a].local = {ledger[i].local}
            /\ adopter[a].snapshot = {[catalog |-> ledger[i].local.schema, ledger |-> <<>>]}
            /\ adopter[a].result = "failed" => ~adopter[a].alive

AdoptionsRecorded ==
    \A a \in Adopter : adopter[a].result = "adopted" => \E i \in DOMAIN ledger : ledger[i].by = a

AdoptionInv == AdopterTyped /\ FilesTyped /\ HoldsLock /\ HasSeen /\ AuthorsEnded
    /\ AdoptionsRecorded

-----------------------------------------------------------------------------
LEMMA AdoptionInitInv == AdoptionInit => AdoptionInv
<1> SUFFICES ASSUME AdoptionInit PROVE AdoptionInv
  OBVIOUS
<1>0. adopter = [a \in Adopter |-> NewAdopter] /\ ledger = <<>> /\ DOMAIN ledger = {}
  BY DEF AdoptionInit
<1>1. AdopterTyped
  BY <1>0 DEF AdopterTyped, NewAdopter, Fields
<1>2. FilesTyped
  BY DEF AdoptionInit, FilesTyped
<1>3. HoldsLock /\ HasSeen
  BY <1>0 DEF HoldsLock, HasSeen, SeenBy, Seen, NewAdopter, Locked
<1>4. AuthorsEnded /\ AdoptionsRecorded
  BY <1>0 DEF AuthorsEnded, AdoptionsRecorded, NewAdopter
<1> QED BY <1>1, <1>2, <1>3, <1>4 DEF AdoptionInv

\* What Advance does to an adopter, field by field.
FieldSet(a, f, fields) ==
    adopter'[a][f] = IF f \in DOMAIN fields THEN fields[f] ELSE adopter[a][f]
Advanced(a, fields) ==
    /\ adopter' = [x \in Adopter |-> adopter'[x]]
    /\ \A x \in Adopter \ {a} : adopter'[x] = adopter[x]
    /\ DOMAIN adopter'[a] = Fields
    /\ \A f \in Fields : FieldSet(a, f, fields)

LEMMA AdvanceSets ==
  ASSUME AdopterTyped, NEW a \in Adopter, NEW fields, Advance(a, fields)
  PROVE  Advanced(a, fields)
<1>1. /\ adopter = [x \in Adopter |-> adopter[x]]
      /\ DOMAIN adopter[a] = Fields
  BY DEF AdopterTyped
<1>2. adopter'[a] = [f \in Fields |-> IF f \in DOMAIN fields THEN fields[f] ELSE adopter[a][f]]
  BY <1>1 DEF Advance
<1>3. adopter' = [x \in Adopter |-> adopter'[x]]
          /\ \A x \in Adopter \ {a} : adopter'[x] = adopter[x]
  BY <1>1 DEF Advance
<1> QED BY <1>2, <1>3 DEF Advanced, FieldSet

\* An adopter that goes on and keeps what it has seen.
Goes(a, at) ==
    /\ adopter' = [x \in Adopter |-> adopter'[x]]
    /\ \A x \in Adopter \ {a} : adopter'[x] = adopter[x]
    /\ DOMAIN adopter'[a] = Fields
    /\ adopter'[a].at = at
Keeps(a, names) == \A f \in names : adopter'[a][f] = adopter[a][f]

LEMMA GoGoes ==
  ASSUME AdopterTyped, NEW a \in Adopter, NEW at, Go(a, at)
  PROVE  Goes(a, at) /\ Keeps(a, Fields \ {"at"})
<1>1. DOMAIN [at |-> at] = {"at"} /\ [at |-> at]["at"] = at
  OBVIOUS
<1>2. \A f \in Fields : FieldSet(a, f, [at |-> at])
  BY AdvanceSets DEF Go, Advanced
<1>3. adopter'[a].at = at
  BY <1>1, <1>2 DEF Advanced, FieldSet, Fields
<1>4. Keeps(a, Fields \ {"at"})
  BY <1>1, <1>2 DEF Advanced, FieldSet, Keeps
<1> QED BY <1>3, <1>4, AdvanceSets DEF Go, Goes, Advanced

LEMMA FailedGoes ==
  ASSUME AdopterTyped, NEW a \in Adopter, NEW at, Failed(a, at)
  PROVE  Goes(a, at) /\ Keeps(a, {"alive"}) /\ adopter'[a].result = "failed"
<1> DEFINE fields == [NewAdopter EXCEPT !.at = at, !.alive = adopter[a].alive, !.result = "failed"]
<1>1. /\ DOMAIN fields = Fields
      /\ fields["at"] = at /\ fields["alive"] = adopter[a].alive /\ fields["result"] = "failed"
  BY DEF NewAdopter, Fields
<1>a. Advance(a, fields)
  BY DEF Failed
<1> HIDE DEF fields
<1>2. \A f \in Fields : FieldSet(a, f, fields)
  BY <1>a, AdvanceSets DEF Advanced
<1>3. /\ adopter'[a].at = at /\ adopter'[a].alive = adopter[a].alive
      /\ adopter'[a].result = "failed"
  BY <1>1, <1>2 DEF Advanced, FieldSet, Fields
<1> QED BY <1>3, <1>a, AdvanceSets DEF Goes, Keeps, Advanced

\* What every step of an adopter that is no author leaves as it is.
LEMMA OthersKeep ==
  ASSUME AdoptionInv, NEW a \in Adopter, NEW to \in Locked \cup {"idle", "lock", "release", "done"},
         adopter[a].at \in Locked \cup {"idle", "lock"}, Goes(a, to),
         adopter'[a].result # "adopted", adopter'[a].alive \in BOOLEAN,
         ledger' = ledger, disk' = disk
  PROVE  /\ AdopterTyped' /\ FilesTyped' /\ AuthorsEnded' /\ AdoptionsRecorded'
         /\ \A x \in Adopter \ {a} : SeenBy(x)'
<1>0. AdopterTyped /\ FilesTyped /\ HasSeen /\ AuthorsEnded /\ AdoptionsRecorded
  BY DEF AdoptionInv
<1>1. AdopterTyped'
  BY <1>0 DEF AdopterTyped, Goes
<1>2. FilesTyped'
  BY <1>0 DEF FilesTyped
<1>3. AuthorsEnded'
  <2> SUFFICES ASSUME NEW i \in DOMAIN ledger, ledger[i].by \in Adopter
               PROVE  /\ ledger[i].by # a
                      /\ adopter'[ledger[i].by] = adopter[ledger[i].by]
    BY <1>0 DEF AuthorsEnded
  <2> QED BY <1>0 DEF AuthorsEnded, Goes, Locked
<1>4. AdoptionsRecorded'
  BY <1>0 DEF AdoptionsRecorded, Goes
<1>5. \A x \in Adopter \ {a} : SeenBy(x)'
  <2> SUFFICES ASSUME NEW x \in Adopter \ {a} PROVE SeenBy(x)'
    OBVIOUS
  <2>1. adopter'[x] = adopter[x]
    BY DEF Goes
  <2> QED BY <1>0, <2>1 DEF HasSeen, SeenBy
<1> QED BY <1>1, <1>2, <1>3, <1>4, <1>5

LEMMA FailureKeeps ==
  ASSUME AdoptionInv, NEW a \in Adopter, NEW to \in {"release", "done"}, Failed(a, to),
         adopter[a].at \in Locked \cup {"idle", "lock"},
         ledger' = ledger, disk' = disk, holder' = holder
  PROVE  AdoptionInv'
<1>0. AdopterTyped /\ HoldsLock
  BY DEF AdoptionInv
<1>1. Goes(a, to) /\ adopter'[a].result = "failed" /\ adopter'[a].alive = adopter[a].alive
  BY <1>0, FailedGoes DEF Keeps
<1>2. adopter'[a].alive \in BOOLEAN
  BY <1>0, <1>1 DEF AdopterTyped
<1>3. /\ AdopterTyped' /\ FilesTyped' /\ AuthorsEnded' /\ AdoptionsRecorded'
      /\ \A x \in Adopter \ {a} : SeenBy(x)'
  BY <1>1, <1>2, OthersKeep
<1>4. HoldsLock'
  BY <1>0, <1>1 DEF HoldsLock, Goes, Locked
<1>5. SeenBy(a)'
  BY <1>1 DEF Seen, SeenBy, Goes, Locked
<1>6. HasSeen'
  BY <1>3, <1>5 DEF HasSeen
<1> QED BY <1>3, <1>4, <1>6 DEF AdoptionInv

LEMMA RefusalsKeep ==
  ASSUME AdoptionInv, NEW a \in Adopter,
         \/ LockTimeout(a) \/ Fails(a) \/ RollbackTransaction(a)
         \/ adopter[a].at \in {"reread", "preview"} /\ Refuse(a)
  PROVE  AdoptionInv'
<1>1. \E to \in {"release", "done"} :
        Failed(a, to) /\ adopter[a].at \in Locked \cup {"idle", "lock"}
  BY DEF LockTimeout, Fails, RollbackTransaction, Refuse, Locked, AdoptionInv, AdopterTyped
<1>2. ledger' = ledger /\ disk' = disk /\ holder' = holder
  BY DEF LockTimeout, Fails, RollbackTransaction, Refuse
<1> QED BY <1>1, <1>2, FailureKeeps

LEMMA ReadFilesKeeps ==
  ASSUME AdoptionInv, NEW a \in Adopter, ReadFiles(a)
  PROVE  AdoptionInv'
<1>0. AdopterTyped /\ FilesTyped /\ HoldsLock /\ HasSeen
  BY DEF AdoptionInv
<1>1. adopter[a].at = "idle" /\ ledger' = ledger /\ disk' = disk /\ holder' = holder
  BY DEF ReadFiles
<1>2. CASE Failed(a, "done")
  BY <1>1, <1>2, FailureKeeps
<1>3. CASE disk # {} /\ \E id \in {1, 2} :
             Advance(a, [at |-> "lock", local |-> ReadOnlyBaseline, confirmation |-> id])
  <2>1. PICK id \in {1, 2} :
          Advance(a, [at |-> "lock", local |-> ReadOnlyBaseline, confirmation |-> id])
    BY <1>3
  <2> DEFINE fields == [at |-> "lock", local |-> ReadOnlyBaseline, confirmation |-> id]
  <2>2. /\ DOMAIN fields = {"at", "local", "confirmation"}
        /\ fields["at"] = "lock" /\ fields["local"] = disk
    BY DEF ReadOnlyBaseline
  <2>a. Advance(a, fields)
    BY <2>1
  <2> HIDE DEF fields
  <2>3. Advanced(a, fields)
    BY <1>0, <2>a, AdvanceSets
  <2>4. /\ adopter'[a].at = "lock" /\ adopter'[a].local = disk
        /\ adopter'[a].alive = adopter[a].alive /\ adopter'[a].result = adopter[a].result
    BY <2>2, <2>3 DEF Advanced, FieldSet, Fields
  <2>5. Goes(a, "lock") /\ adopter[a].result = "none" /\ adopter'[a].alive \in BOOLEAN
    BY <1>0, <1>1, <2>3, <2>4 DEF Advanced, Goes, HasSeen, SeenBy, Seen, AdopterTyped
  <2>6. /\ AdopterTyped' /\ FilesTyped' /\ AuthorsEnded' /\ AdoptionsRecorded'
        /\ \A x \in Adopter \ {a} : SeenBy(x)'
    BY <1>1, <2>4, <2>5, OthersKeep
  <2>7. HoldsLock'
    BY <1>0, <1>1, <2>3, <2>4 DEF Advanced, HoldsLock, Locked
  <2>8. \E b : disk = {b}
    <3>1. PICK b : b \in disk
      BY <1>3
    <3> QED BY <1>0, <3>1 DEF FilesTyped
  <2>9. SeenBy(a)'
    BY <2>4, <2>5, <2>8 DEF Seen, SeenBy, Locked
  <2> QED BY <2>6, <2>7, <2>9 DEF AdoptionInv, HasSeen
<1> QED BY <1>2, <1>3 DEF ReadFiles, ReadOnlyBaseline

\* A step of an adopter whose session lives, or has been lost, that changes what it has seen only.
LEMMA StepKeeps ==
  ASSUME AdoptionInv, NEW a \in Adopter, NEW to \in Locked \cup {"release"},
         adopter[a].at \in Locked, Goes(a, to), Keeps(a, {"alive", "result"}),
         ledger' = ledger, disk' = disk, holder' = holder, SeenBy(a)'
  PROVE  AdoptionInv'
<1>0. AdopterTyped /\ HoldsLock /\ HasSeen
  BY DEF AdoptionInv
<1>1. adopter'[a].alive = adopter[a].alive /\ adopter'[a].result = "none"
  BY <1>0 DEF Keeps, HasSeen, SeenBy, Seen
<1>2. adopter'[a].alive \in BOOLEAN
  BY <1>0, <1>1 DEF AdopterTyped
<1>3. /\ AdopterTyped' /\ FilesTyped' /\ AuthorsEnded' /\ AdoptionsRecorded'
      /\ \A x \in Adopter \ {a} : SeenBy(x)'
  BY <1>1, <1>2, OthersKeep
<1>4. HoldsLock'
  BY <1>0, <1>1 DEF HoldsLock, Goes
<1> QED BY <1>3, <1>4 DEF AdoptionInv, HasSeen

LEMMA LockKeeps ==
  ASSUME AdoptionInv, NEW a \in Adopter, AcquireLock(a)
  PROVE  AdoptionInv'
<1>0. AdopterTyped /\ HoldsLock /\ HasSeen
  BY DEF AdoptionInv
<1>1. /\ adopter[a].at = "lock" /\ ledger' = ledger /\ disk' = disk /\ holder' = a
      /\ holder = NoSession /\ Go(a, "reread")
  BY DEF AcquireLock
<1>2. Goes(a, "reread") /\ Keeps(a, Fields \ {"at"})
  BY <1>0, <1>1, GoGoes
<1>3. /\ adopter'[a].alive = adopter[a].alive /\ adopter'[a].result = "none"
      /\ adopter'[a].local = adopter[a].local
  BY <1>0, <1>1, <1>2 DEF Keeps, HasSeen, SeenBy, Seen, Fields
<1>4. adopter'[a].alive \in BOOLEAN
  BY <1>0, <1>3 DEF AdopterTyped
<1>5. /\ AdopterTyped' /\ FilesTyped' /\ AuthorsEnded' /\ AdoptionsRecorded'
      /\ \A x \in Adopter \ {a} : SeenBy(x)'
  BY <1>1, <1>2, <1>3, <1>4, OthersKeep DEF Locked
<1>6. HoldsLock'
  BY <1>0, <1>1, <1>2, AdoptionAssumption DEF HoldsLock, Goes
<1>7. SeenBy(a)'
  BY <1>0, <1>1, <1>2, <1>3 DEF HasSeen, SeenBy, Seen, Goes, Locked
<1> QED BY <1>5, <1>6, <1>7 DEF AdoptionInv, HasSeen

LEMMA RereadKeeps ==
  ASSUME AdoptionInv, NEW a \in Adopter, Reread(a)
  PROVE  AdoptionInv'
<1>0. AdopterTyped /\ HasSeen
  BY DEF AdoptionInv
<1>1. CASE Refuse(a)
  BY <1>1, RefusalsKeep DEF Reread
<1>2. CASE /\ disk = adopter[a].local
           /\ Advance(a, [at |-> "preview", locked |-> ReadOnlyBaseline])
           /\ UNCHANGED <<disk, catalog, ledger, holder, edits>>
  <2> DEFINE fields == [at |-> "preview", locked |-> ReadOnlyBaseline]
  <2>1. /\ DOMAIN fields = {"at", "locked"}
        /\ fields["at"] = "preview" /\ fields["locked"] = disk
    BY DEF ReadOnlyBaseline
  <2>2. Advance(a, fields)
    BY <1>2
  <2> HIDE DEF fields
  <2>3. Advanced(a, fields)
    BY <1>0, <2>2, AdvanceSets
  <2>4. /\ adopter'[a].at = "preview" /\ adopter'[a].locked = disk
        /\ adopter'[a].alive = adopter[a].alive /\ adopter'[a].result = adopter[a].result
        /\ adopter'[a].local = adopter[a].local
    BY <2>1, <2>3 DEF Advanced, FieldSet, Fields
  <2>5. Goes(a, "preview") /\ Keeps(a, {"alive", "result"})
    BY <2>3, <2>4 DEF Advanced, Goes, Keeps
  <2>6. adopter[a].at = "reread"
    BY DEF Reread
  <2>7. SeenBy(a)'
    BY <1>0, <1>2, <2>4, <2>6 DEF HasSeen, SeenBy, Seen, Locked
  <2> QED BY <1>2, <2>5, <2>6, <2>7, StepKeeps DEF Locked
<1> QED BY <1>1, <1>2 DEF Reread, RequireSameLocalBaseline, ReadOnlyBaseline

LEMMA PreviewKeeps ==
  ASSUME AdoptionInv, NEW a \in Adopter, Preview(a)
  PROVE  AdoptionInv'
<1>0. AdopterTyped /\ HasSeen
  BY DEF AdoptionInv
<1>1. CASE Refuse(a)
  BY <1>1, RefusalsKeep DEF Preview
<1>2. CASE /\ RequireConfirmation(a) /\ Go(a, "begin")
           /\ UNCHANGED <<disk, catalog, ledger, holder, edits>>
  <2>1. Goes(a, "begin") /\ Keeps(a, Fields \ {"at"})
    BY <1>0, <1>2, GoGoes
  <2>2. adopter[a].at = "preview"
    BY DEF Preview
  <2>3. /\ adopter'[a].local = adopter[a].local /\ adopter'[a].locked = adopter[a].locked
        /\ adopter'[a].confirmation = adopter[a].confirmation
        /\ adopter'[a].result = adopter[a].result /\ adopter'[a].at = "begin"
    BY <2>1 DEF Keeps, Fields, Goes
  <2>4. SeenBy(a)'
    BY <1>0, <1>2, <2>2, <2>3 DEF HasSeen, SeenBy, Seen, Locked, RequireConfirmation
  <2>5. Keeps(a, {"alive", "result"})
    BY <2>1 DEF Keeps, Fields
  <2> QED BY <1>2, <2>1, <2>2, <2>4, <2>5, StepKeeps DEF Locked
<1> QED BY <1>1, <1>2 DEF Preview

LEMMA BeginKeeps ==
  ASSUME AdoptionInv, NEW a \in Adopter, BeginTransaction(a)
  PROVE  AdoptionInv'
<1>0. AdopterTyped /\ HasSeen
  BY DEF AdoptionInv
<1> DEFINE seen == [catalog |-> catalog, ledger |-> ledger]
           fields == [at |-> "compare", snapshot |-> {seen}]
<1>1. /\ DOMAIN fields = {"at", "snapshot"}
      /\ fields["at"] = "compare" /\ fields["snapshot"] = {seen}
  OBVIOUS
<1>2. /\ Advance(a, fields) /\ adopter[a].at = "begin"
      /\ UNCHANGED <<disk, catalog, ledger, holder, edits>>
  BY DEF BeginTransaction
<1>3. Advanced(a, fields)
  <2> HIDE DEF fields
  <2> QED BY <1>0, <1>2, AdvanceSets
<1>4. /\ adopter'[a].at = "compare" /\ adopter'[a].snapshot = {seen}
      /\ adopter'[a].alive = adopter[a].alive /\ adopter'[a].result = adopter[a].result
      /\ adopter'[a].local = adopter[a].local /\ adopter'[a].locked = adopter[a].locked
      /\ adopter'[a].confirmation = adopter[a].confirmation
  <2> HIDE DEF fields, seen
  <2> QED BY <1>1, <1>3 DEF Advanced, FieldSet, Fields
<1>5. Goes(a, "compare") /\ Keeps(a, {"alive", "result"})
  BY <1>3, <1>4 DEF Advanced, Goes, Keeps
<1>6. SeenBy(a)'
  <2>1. Seen(adopter[a], ledger)
    BY <1>0 DEF HasSeen, SeenBy
  <2>2. \E schema, rows : /\ adopter'[a].snapshot = {[catalog |-> schema, ledger |-> rows]}
                           /\ rows = ledger
    BY <1>4
  <2> HIDE DEF seen
  <2>3. Seen(adopter'[a], ledger)
    BY <1>2, <1>4, <2>1, <2>2 DEF Seen, Locked
  <2> QED BY <1>2, <2>3 DEF SeenBy
<1> QED BY <1>2, <1>5, <1>6, StepKeeps DEF Locked

\* A step that only moves on, and the snapshot it looks at.
LEMMA SnapshotSeen ==
  ASSUME AdoptionInv, NEW a \in Adopter, adopter[a].at \in {"compare", "ledger", "commit"}
  PROVE  /\ adopter[a].snapshot = {Snapshot(a)}
         /\ Snapshot(a) = [catalog |-> Snapshot(a).catalog, ledger |-> Snapshot(a).ledger]
         /\ adopter[a].alive => Snapshot(a).ledger = ledger
         /\ adopter[a].at \in {"ledger", "commit"} =>
              \A b \in adopter[a].local : b.schema = Snapshot(a).catalog
         /\ adopter[a].at = "commit" => Snapshot(a).ledger = <<>>
<1>1. PICK schema, rows :
        /\ adopter[a].snapshot = {[catalog |-> schema, ledger |-> rows]}
        /\ adopter[a].alive => rows = ledger
        /\ adopter[a].at \in {"ledger", "commit"} => \A b \in adopter[a].local : b.schema = schema
        /\ adopter[a].at = "commit" => rows = <<>>
  BY DEF AdoptionInv, HasSeen, SeenBy, Seen
<1>2. Snapshot(a) = [catalog |-> schema, ledger |-> rows]
  BY <1>1 DEF Snapshot
<1> QED BY <1>1, <1>2

LEMMA LookKeeps ==
  ASSUME AdoptionInv, NEW a \in Adopter, Compare(a) \/ ReadLedger(a)
  PROVE  AdoptionInv'
<1>0. AdopterTyped /\ HasSeen
  BY DEF AdoptionInv
<1>1. /\ adopter[a].at \in {"compare", "ledger"}
      /\ UNCHANGED <<disk, catalog, ledger, holder, edits>>
  BY DEF Compare, ReadLedger
<1>2. PICK to \in {"ledger", "commit", "rollback"} :
        /\ Go(a, to)
        /\ to = "ledger" => adopter[a].at = "compare" /\ CompareAgain(a)
        /\ to = "commit" => adopter[a].at = "ledger" /\ Snapshot(a).ledger = <<>>
  BY DEF Compare, ReadLedger
<1>3. Goes(a, to) /\ Keeps(a, Fields \ {"at"})
  BY <1>0, <1>2, GoGoes
<1>4. /\ adopter'[a].local = adopter[a].local /\ adopter'[a].locked = adopter[a].locked
      /\ adopter'[a].confirmation = adopter[a].confirmation
      /\ adopter'[a].alive = adopter[a].alive /\ adopter'[a].snapshot = adopter[a].snapshot
      /\ adopter'[a].result = adopter[a].result /\ adopter'[a].at = to
  BY <1>3 DEF Keeps, Fields, Goes
<1>5. Keeps(a, {"alive", "result"})
  BY <1>3 DEF Keeps, Fields
<1>6. Seen(adopter[a], ledger)
  BY <1>0 DEF HasSeen, SeenBy
<1>7. adopter[a].locked = adopter[a].local /\ \E b : adopter[a].local = {b}
  BY <1>1, <1>6 DEF Seen, Locked
<1>8. to \in {"ledger", "commit"} => \A b \in adopter[a].local : b.schema = Snapshot(a).catalog
  BY <1>1, <1>2, <1>7, SnapshotSeen DEF CompareAgain, Compatible
<1>9. \E schema, rows :
        /\ adopter'[a].snapshot = {[catalog |-> schema, ledger |-> rows]}
        /\ adopter'[a].alive => rows = ledger
        /\ adopter'[a].at \in {"ledger", "commit"} => \A b \in adopter'[a].local : b.schema = schema
        /\ adopter'[a].at = "commit" => rows = <<>>
  BY <1>1, <1>2, <1>4, <1>8, SnapshotSeen
<1>10. Seen(adopter'[a], ledger)
  BY <1>1, <1>4, <1>6, <1>7, <1>9 DEF Seen, Locked
<1>11. SeenBy(a)'
  BY <1>1, <1>10 DEF SeenBy
<1> QED BY <1>1, <1>3, <1>5, <1>11, StepKeeps DEF Locked

\* A row changes nothing for an adopter whose session is lost, or that has no transaction.
LEMMA SeenThoughApplied ==
  ASSUME NEW me, NEW rows, NEW applied, Seen(me, rows), me.at \in Locked => ~me.alive
  PROVE  Seen(me, applied)
BY DEF Seen, Locked

LEMMA CommitKeeps ==
  ASSUME AdoptionInv, NEW a \in Adopter, Commit(a)
  PROVE  AdoptionInv'
<1>0. AdopterTyped /\ FilesTyped /\ HoldsLock /\ HasSeen /\ AuthorsEnded /\ AdoptionsRecorded
  BY DEF AdoptionInv
<1>1. /\ adopter[a].at = "commit" /\ adopter[a].alive /\ ledger' = Append(ledger, Row(a))
      /\ disk' = disk
  BY DEF Commit, Asks
<1>2. Seen(adopter[a], ledger)
  BY <1>0 DEF HasSeen, SeenBy
<1>3. PICK b : /\ adopter[a].local = {b} /\ adopter[a].locked = {b}
               /\ adopter[a].confirmation = b.id
  BY <1>1, <1>2 DEF Seen, Locked
<1>4. /\ ledger = <<>> /\ adopter[a].snapshot = {[catalog |-> b.schema, ledger |-> <<>>]}
  BY <1>1, <1>3, SnapshotSeen
<1>5. Row(a) = [by |-> a, local |-> b]
  BY <1>3 DEF Row
<1>6. ledger' = <<Row(a)>> /\ DOMAIN ledger' = {1} /\ ledger'[1].by = a /\ ledger'[1].local = b
  BY <1>1, <1>4, <1>5
<1>7. /\ Goes(a, "release") /\ adopter'[a].alive \in BOOLEAN
      /\ adopter'[a].local = adopter[a].local
      /\ adopter'[a].confirmation = adopter[a].confirmation
      /\ adopter'[a].snapshot = adopter[a].snapshot
      /\ adopter'[a].result = "failed" => ~adopter'[a].alive
  <2>1. CASE Advance(a, [at |-> "release", result |-> "adopted"])
    <3> DEFINE fields == [at |-> "release", result |-> "adopted"]
    <3>1. /\ DOMAIN fields = {"at", "result"}
          /\ fields["at"] = "release" /\ fields["result"] = "adopted"
      OBVIOUS
    <3>2. Advance(a, fields)
      BY <2>1
    <3> HIDE DEF fields
    <3>3. Advanced(a, fields)
      BY <1>0, <3>2, AdvanceSets
    <3>4. /\ adopter'[a].at = "release" /\ adopter'[a].result = "adopted"
          /\ adopter'[a].alive = adopter[a].alive /\ adopter'[a].local = adopter[a].local
          /\ adopter'[a].confirmation = adopter[a].confirmation
          /\ adopter'[a].snapshot = adopter[a].snapshot
      BY <3>1, <3>3 DEF Advanced, FieldSet, Fields
    <3>5. adopter'[a].alive \in BOOLEAN
      BY <1>0, <3>4 DEF AdopterTyped
    <3> QED BY <3>3, <3>4, <3>5 DEF Advanced, Goes
  <2>2. CASE Advance(a, [at |-> "release", alive |-> FALSE, result |-> "failed"])
    <3> DEFINE fields == [at |-> "release", alive |-> FALSE, result |-> "failed"]
    <3>1. /\ DOMAIN fields = {"at", "alive", "result"}
          /\ fields["at"] = "release" /\ fields["result"] = "failed" /\ fields["alive"] = FALSE
      OBVIOUS
    <3>2. Advance(a, fields)
      BY <2>2
    <3> HIDE DEF fields
    <3>3. Advanced(a, fields)
      BY <1>0, <3>2, AdvanceSets
    <3>4. /\ adopter'[a].at = "release" /\ adopter'[a].result = "failed"
          /\ adopter'[a].alive = FALSE /\ adopter'[a].local = adopter[a].local
          /\ adopter'[a].confirmation = adopter[a].confirmation
          /\ adopter'[a].snapshot = adopter[a].snapshot
      BY <3>1, <3>3 DEF Advanced, FieldSet, Fields
    <3> QED BY <3>3, <3>4 DEF Advanced, Goes
  <2> QED BY <2>1, <2>2 DEF Commit
<1>8. \A x \in Adopter \ {a} : adopter[x].at \in Locked => ~adopter[x].alive
  BY <1>0, <1>1 DEF HoldsLock, Locked
<1>9. AdopterTyped'
  BY <1>0, <1>7 DEF AdopterTyped, Goes
<1>10. FilesTyped'
  BY <1>0, <1>1, <1>6 DEF FilesTyped
<1>11. HoldsLock'
  BY <1>7, <1>8 DEF HoldsLock, Goes, Locked
<1>12. HasSeen'
  <2>1. SeenBy(a)'
    BY <1>7 DEF SeenBy, Seen, Goes, Locked
  <2>2. ASSUME NEW x \in Adopter \ {a} PROVE SeenBy(x)'
    <3>1. Seen(adopter[x], ledger) /\ adopter'[x] = adopter[x]
      BY <1>0, <1>7 DEF HasSeen, SeenBy, Goes
    <3>2. Seen(adopter[x], ledger')
      BY <1>8, <3>1, SeenThoughApplied
    <3> QED BY <3>1, <3>2 DEF SeenBy
  <2> QED BY <2>1, <2>2 DEF HasSeen
<1>13. AuthorsEnded'
  BY <1>3, <1>4, <1>6, <1>7 DEF AuthorsEnded, Goes
<1>14. AdoptionsRecorded'
  <2>1. \A x \in Adopter \ {a} : adopter'[x].result # "adopted"
    BY <1>0, <1>4, <1>7 DEF AdoptionsRecorded, Goes
  <2> QED BY <1>6, <2>1 DEF AdoptionsRecorded
<1> QED BY <1>9, <1>10, <1>11, <1>12, <1>13, <1>14 DEF AdoptionInv

LEMMA ReleaseLockKeeps ==
  ASSUME AdoptionInv, NEW a \in Adopter, Release(a)
  PROVE  AdoptionInv'
<1>0. AdopterTyped /\ FilesTyped /\ HoldsLock /\ HasSeen /\ AuthorsEnded /\ AdoptionsRecorded
  BY DEF AdoptionInv
<1>1. /\ adopter[a].at = "release" /\ Go(a, "done") /\ ledger' = ledger /\ disk' = disk
      /\ holder' = IF holder = a THEN NoSession ELSE holder
  BY DEF Release
<1>2. Goes(a, "done") /\ Keeps(a, Fields \ {"at"})
  BY <1>0, <1>1, GoGoes
<1>3. /\ adopter'[a].alive = adopter[a].alive /\ adopter'[a].result = adopter[a].result
      /\ adopter'[a].local = adopter[a].local /\ adopter'[a].snapshot = adopter[a].snapshot
      /\ adopter'[a].confirmation = adopter[a].confirmation /\ adopter'[a].at = "done"
  BY <1>2 DEF Keeps, Fields, Goes
<1>4. AdopterTyped' /\ FilesTyped'
  BY <1>0, <1>1, <1>2, <1>3 DEF AdopterTyped, FilesTyped, Goes
<1>5. HoldsLock'
  BY <1>0, <1>1, <1>2 DEF HoldsLock, Goes, Locked
<1>6. HasSeen'
  <2>1. SeenBy(a)'
    BY <1>3 DEF SeenBy, Seen, Locked
  <2>2. ASSUME NEW x \in Adopter \ {a} PROVE SeenBy(x)'
    <3>1. Seen(adopter[x], ledger) /\ adopter'[x] = adopter[x]
      BY <1>0, <1>2 DEF HasSeen, SeenBy, Goes
    <3> QED BY <1>1, <3>1 DEF SeenBy
  <2> QED BY <2>1, <2>2 DEF HasSeen
<1>7. AuthorsEnded'
  <2> SUFFICES ASSUME NEW i \in DOMAIN ledger, ledger[i].by \in Adopter
               PROVE  LET x == ledger[i].by IN
                        /\ adopter'[x].at \in {"release", "done"}
                        /\ adopter'[x].local = adopter[x].local
                        /\ adopter'[x].snapshot = adopter[x].snapshot
                        /\ adopter'[x].confirmation = adopter[x].confirmation
                        /\ adopter'[x].result = adopter[x].result
                        /\ adopter'[x].alive = adopter[x].alive
    BY <1>0, <1>1 DEF AuthorsEnded
  <2> QED BY <1>0, <1>2, <1>3 DEF AuthorsEnded, Goes
<1>8. AdoptionsRecorded'
  BY <1>0, <1>1, <1>2, <1>3 DEF AdoptionsRecorded, Goes
<1> QED BY <1>4, <1>5, <1>6, <1>7, <1>8 DEF AdoptionInv

LEMMA LoseSessionKeeps ==
  ASSUME AdoptionInv, NEW a \in Adopter, LoseSession(a)
  PROVE  AdoptionInv'
<1>0. AdopterTyped /\ FilesTyped /\ HoldsLock /\ HasSeen /\ AuthorsEnded /\ AdoptionsRecorded
  BY DEF AdoptionInv
<1> DEFINE fields == [alive |-> FALSE]
<1>1. DOMAIN fields = {"alive"} /\ fields["alive"] = FALSE
  OBVIOUS
<1>2. /\ Advance(a, fields) /\ adopter[a].at \in Locked /\ ledger' = ledger /\ disk' = disk
      /\ holder' = IF holder = a THEN NoSession ELSE holder
  BY <1>0 DEF LoseSession, AdopterTyped
<1> HIDE DEF fields
<1>3. Advanced(a, fields)
  BY <1>0, <1>2, AdvanceSets
<1>4. /\ adopter'[a].at = adopter[a].at /\ adopter'[a].alive = FALSE
      /\ adopter'[a].result = adopter[a].result /\ adopter'[a].local = adopter[a].local
      /\ adopter'[a].locked = adopter[a].locked /\ adopter'[a].snapshot = adopter[a].snapshot
      /\ adopter'[a].confirmation = adopter[a].confirmation
  BY <1>1, <1>3 DEF Advanced, FieldSet, Fields
<1>5. Goes(a, adopter[a].at) /\ adopter'[a].alive \in BOOLEAN /\ adopter[a].result = "none"
  BY <1>0, <1>2, <1>3, <1>4 DEF Advanced, Goes, HasSeen, SeenBy, Seen
<1>6. /\ AdopterTyped' /\ FilesTyped' /\ AuthorsEnded' /\ AdoptionsRecorded'
      /\ \A x \in Adopter \ {a} : SeenBy(x)'
  BY <1>2, <1>4, <1>5, OthersKeep
<1>7. HoldsLock'
  BY <1>0, <1>2, <1>3, <1>4 DEF Advanced, HoldsLock
<1>8. Seen(adopter'[a], ledger)
  <2>1. Seen(adopter[a], ledger)
    BY <1>0 DEF HasSeen, SeenBy
  <2> QED BY <1>4, <2>1 DEF Seen
<1>9. SeenBy(a)'
  BY <1>2, <1>8 DEF SeenBy
<1> QED BY <1>6, <1>7, <1>9 DEF AdoptionInv, HasSeen

LEMMA InterferenceKeeps ==
  ASSUME AdoptionInv, EditFiles \/ ChangeSchema \/ Migrate
  PROVE  AdoptionInv'
<1>0. AdopterTyped /\ FilesTyped /\ HoldsLock /\ HasSeen /\ AuthorsEnded /\ AdoptionsRecorded
  BY DEF AdoptionInv
<1>1. CASE EditFiles \/ ChangeSchema
  <2>1. UNCHANGED <<ledger, holder, adopter>> /\ \A b, c \in disk' : b = c
    BY <1>0, <1>1 DEF EditFiles, ChangeSchema, FilesTyped
  <2> QED BY <1>0, <2>1 DEF AdoptionInv, AdopterTyped, FilesTyped, HoldsLock, HasSeen, SeenBy,
                            AuthorsEnded, AdoptionsRecorded
<1>2. CASE Migrate
  <2>1. PICK row : ledger' = <<row>> /\ row.by = Migrator
    BY <1>2 DEF Migrate
  <2>2. ledger = <<>> /\ holder = NoSession /\ UNCHANGED <<disk, holder, adopter>>
    BY <1>2 DEF Migrate
  <2>3. FilesTyped'
    BY <1>0, <2>1, <2>2 DEF FilesTyped
  <2>4. HasSeen'
    <3> SUFFICES ASSUME NEW x \in Adopter PROVE SeenBy(x)'
      BY DEF HasSeen
    <3>1. Seen(adopter[x], ledger)
      BY <1>0 DEF HasSeen, SeenBy
    <3>2. adopter[x].at \in Locked => ~adopter[x].alive
      BY <1>0, <2>2, AdoptionAssumption DEF HoldsLock
    <3>3. Seen(adopter[x], ledger')
      BY <3>1, <3>2, SeenThoughApplied
    <3> QED BY <2>2, <3>3 DEF SeenBy
  <2>5. AuthorsEnded'
    BY <2>1, AdoptionAssumption DEF AuthorsEnded
  <2>6. AdoptionsRecorded'
    BY <1>0, <2>2 DEF AdoptionsRecorded
  <2>7. AdopterTyped' /\ HoldsLock'
    BY <1>0, <2>2 DEF AdopterTyped, HoldsLock
  <2> QED BY <2>3, <2>4, <2>5, <2>6, <2>7 DEF AdoptionInv
<1> QED BY <1>1, <1>2

\* adoptBaseline of codegen/src/migration/baseline.ts: however adoptions, migrations and edits
\* interleave, and wherever one stops, the row of a baseline is of the confirmed files, whose schema
\* the database had in the snapshot in which the ledger was empty.
THEOREM AdoptionsProved == AdoptionSpec => []AdoptionIsProved
<1>1. AdoptionInit => AdoptionInv
  BY AdoptionInitInv
<1>2. AdoptionInv /\ [AdoptionNext]_adoptionVars => AdoptionInv'
  <2> SUFFICES ASSUME AdoptionInv, [AdoptionNext]_adoptionVars PROVE AdoptionInv'
    OBVIOUS
  <2>1. CASE UNCHANGED adoptionVars
    BY <2>1 DEF adoptionVars, AdoptionInv, AdopterTyped, FilesTyped, HoldsLock, HasSeen, SeenBy,
                AuthorsEnded, AdoptionsRecorded
  <2>2. CASE AdoptionNext
    BY <2>2, ReadFilesKeeps, LockKeeps, RefusalsKeep, RereadKeeps, PreviewKeeps, BeginKeeps,
       LookKeeps, CommitKeeps, ReleaseLockKeeps, LoseSessionKeeps, InterferenceKeeps
       DEF AdoptionNext
  <2> QED BY <2>1, <2>2
<1>3. AdoptionInv => AdoptionIsProved
  <2> SUFFICES ASSUME AdoptionInv PROVE AdoptionIsProved
    OBVIOUS
  <2>1. Len(ledger) <= 1
    <3>1. CASE ledger = <<>>
      BY <3>1
    <3>2. CASE \E row : ledger = <<row>>
      BY <3>2
    <3> QED BY <3>1, <3>2 DEF AdoptionInv, FilesTyped
  <2> QED BY <2>1 DEF AdoptionInv, AuthorsEnded, AdoptionsRecorded, AdoptionIsProved
<1> QED BY <1>1, <1>2, <1>3, PTL DEF AdoptionSpec
================================================================================

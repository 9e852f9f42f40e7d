------------------------------- MODULE Cache --------------------------------
(***************************************************************************)
(* packages/webafx-cache: CacheProvider with its memory and Redis          *)
(* backends.  The memory store deletes an expired entry when it is next    *)
(* looked at, or in the cleanup interval; Redis expires by itself and      *)
(* deletes a pattern by SCAN and DEL in turns, between which others run.   *)
(* getOrSet is three steps, with the factory awaited between them.  Keys   *)
(* stand for full keys, under the rootKey every provider must have.        *)
(***************************************************************************)
EXTENDS Integers, FiniteSets

CONSTANTS Key, Filler,    \* cache keys; concurrent calls of getOrSet
          MaxTime, MaxVersion, Lifetime,   \* bounds of the clock, of the data; the TTL in ticks
          Absent

\* Absent stands for no entry and for no reading.
ASSUME CacheAssumption ==
    /\ MaxTime \in Nat /\ Lifetime \in Nat
    /\ Absent \notin Int /\ Absent \notin [value : Int, expires : Int]

VARIABLES backend,       \* "memory" or "redis"
          store,         \* what the backend holds for each key
          now,           \* Date.now(), in ticks
          source,        \* the version of the data the cached values are made from
          fill,          \* each getOrSet: its step, key and the value its factory made
          scan,          \* scanAndDelete: the keys its cursor has yet to visit, those that its last
                         \* SCAN found, and those it owes: there at its start, not written since
          read           \* the time the entry that was last returned had left, or Absent

cacheVars == <<backend, store, now, source, fill, scan, read>>

Forever == MaxTime + Lifetime
NoScan == [open |-> FALSE, todo |-> {}, found |-> {}, owed |-> {}]
Idle == [step |-> "idle", key |-> Absent, value |-> 0]

CacheInit ==
    /\ backend \in {"memory", "redis"}
    /\ store = [k \in Key |-> Absent]
    /\ now = 0
    /\ source = [k \in Key |-> 0]
    /\ fill = [f \in Filler |-> Idle]
    /\ scan = NoScan
    /\ read = Absent

\* resolveTTL: a TTL of zero or less means that the entry does not expire.
Expiry(ttl) == IF ttl > 0 THEN now + ttl ELSE Forever

\* The memory store keeps an entry through the millisecond it expires in; Redis does not.
Expired(e) == e # Absent /\ IF backend = "memory" THEN now > e.expires ELSE now >= e.expires
\* Mutant of Live: the TTL is not looked at.
LiveUnchecked(k) == store[k]

Live(k) == IF Expired(store[k]) THEN Absent ELSE store[k]

\* Looking at an expired entry deletes it.
Look(k) == store' = [store EXCEPT ![k] = Live(k)]

Return(k) == read' = IF Live(k) = Absent THEN Absent ELSE Live(k).expires - now

Put(k, v, ttl) == store' = [store EXCEPT ![k] = [value |-> v, expires |-> Expiry(ttl)]]

\* A key written while a SCAN runs may be missed by it.
Spare(k) == scan' = [scan EXCEPT !.owed = @ \ {k}]

Set(k, ttl) ==
    /\ Put(k, source[k], ttl)
    /\ Spare(k)
    /\ UNCHANGED <<backend, now, source, fill, read>>

Get(k) ==
    /\ Look(k)
    /\ Return(k)
    /\ UNCHANGED <<backend, now, source, fill, scan>>

\* Mutant of Without: the cached value survives its delete.
WithoutKept(k) == store

Without(k) == [store EXCEPT ![k] = Absent]

Delete(k) ==
    /\ store' = Without(k)
    /\ UNCHANGED <<backend, now, source, fill, scan, read>>

\* expire: the memory store stamps a live entry; Redis deletes it when the TTL is not positive.
Expire(k, ttl) ==
    /\ store' = [store EXCEPT ![k] =
                    IF Live(k) = Absent \/ (backend = "redis" /\ ttl = 0) THEN Absent
                    ELSE [Live(k) EXCEPT !.expires = now + ttl]]
    /\ Spare(k)
    /\ UNCHANGED <<backend, now, source, fill, read>>

\* deletePattern and clear of the memory store: one step over all the keys that match.
DeletePatternMemory(K) ==
    /\ backend = "memory"
    /\ store' = [k \in Key |-> IF k \in K THEN Absent ELSE store[k]]
    /\ UNCHANGED <<backend, now, source, fill, scan, read>>

ScanStart(K) ==
    /\ backend = "redis" /\ ~scan.open
    /\ scan' = [open |-> TRUE, todo |-> K, found |-> {}, owed |-> {k \in K : Live(k) # Absent}]
    /\ UNCHANGED <<backend, store, now, source, fill, read>>

\* One reply of SCAN: the keys of it that are there, which may be none.
ScanFinds(batch) ==
    scan' = [scan EXCEPT !.todo = @ \ batch, !.found = {k \in batch : Live(k) # Absent}]

\* Mutant of ScanReply: the next SCAN is sent without the DEL of what the last one found.
ScanReplyBeforeDelete ==
    /\ scan.open
    /\ \E batch \in (SUBSET scan.todo) \ {{}} : ScanFinds(batch)
    /\ UNCHANGED <<backend, store, now, source, fill, read>>

ScanReply ==
    /\ scan.open /\ scan.found = {}
    /\ \E batch \in (SUBSET scan.todo) \ {{}} : ScanFinds(batch)
    /\ UNCHANGED <<backend, store, now, source, fill, read>>

\* The DEL of what that reply found, whatever has been written there in between.
ScanDelete ==
    /\ scan.found # {}
    /\ store' = [k \in Key |-> IF k \in scan.found THEN Absent ELSE store[k]]
    /\ scan' = [scan EXCEPT !.found = {}]
    /\ UNCHANGED <<backend, now, source, fill, read>>

ScanDone ==
    /\ scan.open /\ scan.todo = {} /\ scan.found = {}
    /\ scan' = NoScan
    /\ UNCHANGED <<backend, store, now, source, fill, read>>

\* A SCAN or a DEL fails, and deletePattern rejects.
ScanFails ==
    /\ scan.open
    /\ scan' = NoScan
    /\ UNCHANGED <<backend, store, now, source, fill, read>>

\* The interval of startCleanup.
Cleanup ==
    /\ backend = "memory"
    /\ store' = [k \in Key |-> Live(k)]
    /\ UNCHANGED <<backend, now, source, fill, scan, read>>

-----------------------------------------------------------------------------
(* getOrSet                                                                *)

FillGet(f, k) ==
    /\ fill[f].step = "idle"
    /\ Look(k)
    /\ IF Live(k) = Absent
       THEN fill' = [fill EXCEPT ![f] = [step |-> "factory", key |-> k, value |-> 0]]
            /\ UNCHANGED read
       ELSE Return(k) /\ UNCHANGED fill
    /\ UNCHANGED <<backend, now, source, scan>>

FillFactory(f) ==
    /\ fill[f].step = "factory"
    /\ fill' = [fill EXCEPT ![f].step = "store", ![f].value = source[fill[f].key]]
    /\ UNCHANGED <<backend, store, now, source, scan, read>>

FactoryFails(f) ==
    /\ fill[f].step = "factory"
    /\ fill' = [fill EXCEPT ![f] = Idle]
    /\ UNCHANGED <<backend, store, now, source, scan, read>>

FillStore(f, ttl) ==
    /\ fill[f].step = "store"
    /\ Put(fill[f].key, fill[f].value, ttl)
    /\ Spare(fill[f].key)
    /\ fill' = [fill EXCEPT ![f] = Idle]
    /\ UNCHANGED <<backend, now, source, read>>

-----------------------------------------------------------------------------
(* The application changes the data and then deletes the cached value; it  *)
(* is external, and so is the clock.                                       *)

Update(k) ==
    /\ source[k] < MaxVersion
    /\ source' = [source EXCEPT ![k] = @ + 1]
    /\ store' = Without(k)
    /\ UNCHANGED <<backend, now, fill, scan, read>>

Tick ==
    /\ now < MaxTime
    /\ now' = now + 1
    /\ UNCHANGED <<backend, store, source, fill, scan, read>>

CacheNext ==
    \/ \E k \in Key : \/ Get(k) \/ Delete(k) \/ Update(k)
                      \/ \E ttl \in {0, Lifetime} : Set(k, ttl) \/ Expire(k, ttl)
    \/ \E K \in SUBSET Key : DeletePatternMemory(K) \/ ScanStart(K)
    \/ ScanReply \/ ScanDelete \/ ScanDone \/ ScanFails \/ Cleanup \/ Tick
    \/ \E f \in Filler : \/ \E k \in Key : FillGet(f, k)
                         \/ FillFactory(f) \/ FactoryFails(f)
                         \/ \E ttl \in {0, Lifetime} : FillStore(f, ttl)

-----------------------------------------------------------------------------

Stale(k) == store[k] # Absent /\ store[k].value < source[k]

OpenStaleFill(k) ==
    \E f \in Filler : fill[f].step = "store" /\ fill[f].key = k /\ fill[f].value < source[k]

\* A step that makes a key stale is the store of a getOrSet that had its value before the data
\* changed; no other operation brings an old value back, not even one that races an expiry, a
\* cleanup or a pattern delete.
StaleNeedsOpenFill ==
    [][\A k \in Key : Stale(k)' /\ ~Stale(k) => OpenStaleFill(k)]_cacheVars

\* get and getOrSet never return an entry after its expiry, however late the cleanup runs; and
\* where a pattern delete is at its end, without an error, of the keys that were there when it began only
\* those are there that somebody wrote meanwhile, whatever was written, read, deleted or expired
\* between its SCANs and between a SCAN and its DEL.
ReadsAndScansAreHonest ==
    /\ read # Absent => read >= 0
    /\ scan.open /\ scan.todo = {} /\ scan.found = {} => \A k \in scan.owed : Live(k) = Absent
=============================================================================

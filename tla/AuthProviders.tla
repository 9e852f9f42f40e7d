---------------------------- MODULE AuthProviders ----------------------------
(***************************************************************************)
(* packages/webafx-auth: opaque bearer tokens of several tenants.  The     *)
(* provider asks the introspection endpoint of the request's tenant, and   *)
(* keeps what was active in a small cache, ordered by use.  Two tenants    *)
(* of one endpoint and client share their entries.                         *)
(*                                                                         *)
(* The clock counts half seconds, tokens and lifetimes whole ones.  A      *)
(* timer is not late, and a caller gets its answer at once: time does not  *)
(* pass the end of a timeout, nor an answer that was not returned yet.     *)
(***************************************************************************)
EXTENDS Integers, Sequences, FiniteSets, SequencesExt

CONSTANTS Asker, Token, Tenant,
          Scope(_), Audience(_), CacheTTL(_),  \* of a tenant: endpoint and client, {} or audiences, seconds
          Home(_), Exp(_), Aud(_),             \* of a token: its scope, {} or {its expiry}, audiences
          MaxCacheSize, Timeout, MaxNow

\* A token has one expiry or none; a lifetime of zero keeps an answer out of the cache.
ASSUME AuthAssumption ==
    /\ \A t \in Token : Exp(t) \subseteq Nat /\ \A s, u \in Exp(t) : s = u
    /\ \A t \in Tenant : CacheTTL(t) \in Nat
    /\ MaxCacheSize \in Nat /\ Timeout \in Nat /\ MaxNow \in Nat

Never == MaxNow + 1

VARIABLES time,         \* the clock
          ended,        \* when a token ceased to be active, or Never
          entries,      \* IntrospectionCache, the least recently used first
          ask           \* of each call, where it is

askVars == <<time, ended, entries, ask>>

NewCall == [pc |-> "idle", token |-> "", tenant |-> "", since |-> 0]
Second == time \div 2

AuthInit ==
    /\ time = 0
    /\ ended = [t \in Token |-> Never]
    /\ entries = <<>>
    /\ ask = [c \in Asker |-> NewCall]

-----------------------------------------------------------------------------
(* IntrospectionCache                                                      *)

CacheKey(token, tenant) == <<Scope(tenant), token>>
\* delete of the Map, which has one entry for a key.
PlaceOf(key) == {i \in DOMAIN entries : entries[i].key = key}
WithoutEntry(key) == IF PlaceOf(key) = {} THEN entries
                     ELSE RemoveAt(entries, CHOOSE i \in PlaceOf(key) : TRUE)
Cached(key) == {e \in Range(entries) : e.key = key}
Hit(key) == {e \in Cached(key) : time < e.expiresAt}

\* get: a live entry becomes the last one, an expired one goes.
Touched(key) == IF Hit(key) = {} THEN WithoutEntry(key)
                ELSE Append(WithoutEntry(key), CHOOSE e \in Hit(key) : TRUE)

ComputeCacheTtl(token, tenant) == Min({CacheTTL(tenant)} \cup {t - Second : t \in Exp(token)})

\* set: the oldest entries make room.
Stored(key, token, tenant) ==
    LET ttl == ComputeCacheTtl(token, tenant)
        those == Append(WithoutEntry(key), [key |-> key, expiresAt |-> time + 2 * ttl])
    IN IF ttl <= 0 THEN entries
       ELSE SubSeq(those, Len(those) - Min({Len(those), MaxCacheSize}) + 1, Len(those))

-----------------------------------------------------------------------------
(* IntrospectionAuthProvider                                               *)

\* Mutant of IsUsable: a response is checked when it arrives, and a cached one is as good.
IsActive(token, tenant) == Home(token) = Scope(tenant)

IsUsable(token, tenant) ==
    /\ Audience(tenant) # {} => Audience(tenant) \cap Aud(token) # {}
    /\ \A t \in Exp(token) : t > Second

AskEnds(c) == ask' = [ask EXCEPT ![c] = NewCall]

\* introspectAndMap, up to the request.
Introspect(c, token, tenant) ==
    /\ ask[c].pc = "idle"
    /\ LET key == CacheKey(token, tenant)
           To(pc) == ask' = [ask EXCEPT ![c] = [pc |-> pc, token |-> token, tenant |-> tenant,
                                                   since |-> IF pc = "sent" THEN time ELSE 0]]
       IN /\ entries' = Touched(key)
          /\ IF Hit(key) = {} THEN To("sent")
             ELSE IF IsUsable(token, tenant) THEN To("accepted") ELSE UNCHANGED ask
    /\ UNCHANGED <<time, ended>>

\* The endpoint answers, and its answer may travel for a while.
EndpointAnswers(c) ==
    /\ ask[c].pc = "sent"
    /\ ask' = [ask EXCEPT ![c].pc =
                  IF time < ended[ask[c].token] /\ Home(ask[c].token) = Scope(ask[c].tenant)
                  THEN "active" ELSE "inactive"]
    /\ UNCHANGED <<time, ended, entries>>

\* The network, the status or the body is wrong, or the timer aborts the request.
IntrospectionFails(c) ==
    /\ ask[c].pc \in {"sent", "active", "inactive"}
    /\ AskEnds(c)
    /\ UNCHANGED <<time, ended, entries>>

Receive(c) ==
    /\ ask[c].pc \in {"active", "inactive"}
    /\ LET a == ask[c]
       IN IF a.pc = "active" /\ IsUsable(a.token, a.tenant)
          THEN /\ entries' = Stored(CacheKey(a.token, a.tenant), a.token, a.tenant)
               /\ ask' = [ask EXCEPT ![c] = [a EXCEPT !.pc = "accepted", !.since = 0]]
          ELSE UNCHANGED entries /\ AskEnds(c)
    /\ UNCHANGED <<time, ended>>

\* authenticate answers the request with the claims of the token.
MapClaims(c) ==
    /\ ask[c].pc = "accepted"
    /\ AskEnds(c)
    /\ UNCHANGED <<time, ended, entries>>

\* shutdown: what is on its way is not called back, and is stored when it arrives.
Shutdown ==
    /\ entries' = <<>>
    /\ UNCHANGED <<time, ended, ask>>

-----------------------------------------------------------------------------

\* The endpoint ends a token before its time.
Revoked(token) ==
    /\ ended[token] = Never
    /\ ended' = [ended EXCEPT ![token] = time]
    /\ UNCHANGED <<time, entries, ask>>

TimePasses ==
    /\ time < MaxNow
    /\ \A c \in Asker : /\ ask[c].pc # "accepted"
                        /\ ask[c].pc # "idle" => time < ask[c].since + Timeout
    /\ time' = time + 1
    /\ UNCHANGED <<ended, entries, ask>>

AuthNext ==
    \/ \E c \in Asker, token \in Token, tenant \in Tenant : Introspect(c, token, tenant)
    \/ \E c \in Asker : EndpointAnswers(c) \/ IntrospectionFails(c) \/ Receive(c) \/ MapClaims(c)
    \/ \E token \in Token : Revoked(token)
    \/ Shutdown \/ TimePasses

-----------------------------------------------------------------------------

\* A token that is accepted was issued for the tenant that asks and for its audience, is not past
\* its expiry, and was active at its endpoint no longer ago than a request may take and the
\* lifetime that a tenant with the same endpoint and client gives to an entry; the cache keeps its
\* size, and one entry for a token.
AcceptedIsCurrent ==
    /\ \A c \in Asker : ask[c].pc = "accepted" =>
         LET a == ask[c]
         IN /\ Home(a.token) = Scope(a.tenant)
            /\ Audience(a.tenant) # {} => Audience(a.tenant) \cap Aud(a.token) # {}
            /\ \A t \in Exp(a.token) : time < 2 * t
            /\ \E shared \in {u \in Tenant : Scope(u) = Scope(a.tenant)} :
                   time <= ended[a.token] + 2 * CacheTTL(shared) + Timeout
    /\ Len(entries) <= MaxCacheSize
    /\ \A i, j \in DOMAIN entries : entries[i].key = entries[j].key => i = j
=============================================================================

----------------------------- MODULE MCServices -----------------------------
(***************************************************************************)
(* The stateful services that share no state with one another: the cache,  *)
(* the publish/subscribe provider, the PostgreSQL database, the API client,*)
(* the React providers, the authentication providers and the adoption of a *)
(* baseline.  A behaviour exercises one of them, so that the state spaces  *)
(* add up and the components do not interleave.  The two React providers   *)
(* share only the count of the loader, and are exercised one by one.       *)
(***************************************************************************)
EXTENDS Cache, PubSub, PostgresDatabase, ApiClient, ReactClient, AuthProviders, BaselineAdoption

\* Two tenants of one endpoint and client, with an audience and a lifetime each, and one of another
\* endpoint; a token of the first endpoint that expires, and one of the other.
MCTokens == {"opaque", "dated"}
MCTenants == {"shop", "desk", "other"}
MCScope(tenant) == IF tenant = "other" THEN "two" ELSE "one"
MCAudience(tenant) == IF tenant = "other" THEN {} ELSE {tenant}
MCCacheTTL(tenant) == IF tenant = "desk" THEN 0 ELSE 1
MCHome(token) == IF token = "opaque" THEN "two" ELSE "one"
MCExp(token) == IF token = "opaque" THEN {} ELSE {1}
MCAud(token) == IF token = "opaque" THEN {} ELSE {"shop", "desk"}

VARIABLE focus
vars == <<focus, cacheVars, pubsubVars, dbVars, apiVars, reactVars, askVars, adoptionVars>>

Init ==
    /\ focus \in {"cache", "pubsub", "database", "api", "react", "i18n", "auth", "adoption"}
    /\ CacheInit /\ PubSubInit /\ DbInit /\ ApiInit /\ ReactInit /\ AuthInit /\ AdoptionInit
    /\ focus # "cache" => backend = "memory"
    /\ focus # "pubsub" => provider = "memory"
    /\ focus # "api" => strategy = "none"

CacheStep == /\ focus = "cache" /\ CacheNext
             /\ UNCHANGED <<focus, pubsubVars, dbVars, apiVars, reactVars, askVars, adoptionVars>>
PubSubStep == /\ focus = "pubsub" /\ PubSubNext
              /\ UNCHANGED <<focus, cacheVars, dbVars, apiVars, reactVars, askVars, adoptionVars>>
DatabaseStep == /\ focus = "database" /\ DbNext
                /\ UNCHANGED <<focus, cacheVars, pubsubVars, apiVars, reactVars, askVars, adoptionVars>>
ApiStep == /\ focus = "api" /\ ApiNext
           /\ UNCHANGED <<focus, cacheVars, pubsubVars, dbVars, reactVars, askVars, adoptionVars>>
ReactStep == /\ \/ focus = "react" /\ AuthProviderNext
                \/ focus = "i18n" /\ I18nProviderNext
             /\ UNCHANGED <<focus, cacheVars, pubsubVars, dbVars, apiVars, askVars, adoptionVars>>
AuthStep == /\ focus = "auth" /\ AuthNext
            /\ UNCHANGED <<focus, cacheVars, pubsubVars, dbVars, apiVars, reactVars, adoptionVars>>
AdoptionStep == /\ focus = "adoption" /\ AdoptionNext
                /\ UNCHANGED <<focus, cacheVars, pubsubVars, dbVars, apiVars, reactVars, askVars>>

Next == CacheStep \/ PubSubStep \/ DatabaseStep \/ ApiStep \/ ReactStep \/ AuthStep \/ AdoptionStep

Spec == /\ Init /\ [][Next]_vars
        /\ DbFairness
=============================================================================

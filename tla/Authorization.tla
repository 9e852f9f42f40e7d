---------------------------- MODULE Authorization ----------------------------
(***************************************************************************)
(* packages/authz and packages/webafx-authz: what an identity provider     *)
(* says of a user becomes roles and permissions, and those decide about a  *)
(* requirement.                                                            *)
(*                                                                         *)
(* A key "source:value" is the pair of its parts, split at the first colon;*)
(* a key without a colon has the source "".  A claim is a list of entries, *)
(* where those that are no strings are Foreign, a text, or something else. *)
(***************************************************************************)
EXTENDS Integers, Sequences, FiniteSets, SequencesExt

Foreign == "foreign"
Absent == [form |-> "other", entries |-> <<>>]

\* What is left of a list without some values.
Without(values, dropped) ==
    LET left[n \in 0..Len(values)] ==
            IF n = 0 THEN <<>>
            ELSE IF values[n] \in dropped THEN left[n - 1] ELSE Append(left[n - 1], values[n])
    IN left[Len(values)]

-----------------------------------------------------------------------------
(* profiles.ts                                                             *)

\* Of the three sources the last that has the claim counts, whatever its form.
MergedClaim(identity, name) ==
    CASE name \in DOMAIN identity.accessTokenClaims -> identity.accessTokenClaims[name]
      [] name \in DOMAIN identity.idTokenClaims \ DOMAIN identity.accessTokenClaims -> identity.idTokenClaims[name]
      [] name \in DOMAIN identity.userInfo \ (DOMAIN identity.idTokenClaims \cup DOMAIN identity.accessTokenClaims) ->
            identity.userInfo[name]
      [] OTHER -> Absent

Strings(entries) == Without(entries, {Foreign})
ReadStringArray(claim) == IF claim.form = "list" THEN Strings(claim.entries) ELSE <<>>

Keys(source, values) == [i \in DOMAIN values |-> [source |-> source, value |-> values[i]]]

GenericClaimsProfile(identity) ==
    Keys("role", ReadStringArray(MergedClaim(identity, "roles")))
    \o Keys("permission", ReadStringArray(MergedClaim(identity, "permissions")))

AzureClaimsProfile(identity) ==
    LET scp == MergedClaim(identity, "scp")
    IN Keys("role", ReadStringArray(MergedClaim(identity, "roles")))
       \o Keys("scp", IF scp.form = "text" THEN Without(scp.entries, {""}) ELSE <<>>)
       \o Keys("group", ReadStringArray(MergedClaim(identity, "groups")))

-----------------------------------------------------------------------------
(* translation.ts                                                          *)

IsAllowedCanonical(key, allowed) ==
    \/ key.source = "role" /\ key.value \in allowed.roles
    \/ key.source = "permission" /\ key.value \in allowed.permissions

AppendGrant(target, values) ==
    LET after[n \in 0..Len(values)] ==
            IF n = 0 THEN target
            ELSE IF values[n] = Foreign \/ values[n] \in ToSet(after[n - 1]) THEN after[n - 1]
            ELSE Append(after[n - 1], values[n])
    IN after[Len(values)]

\* What one key adds: its entry of the map decides alone, also when it grants nothing.
Granted(map, allowed, key, so) ==
    IF key \in DOMAIN map
    THEN [roles |-> AppendGrant(so.roles, map[key].roles),
          permissions |-> AppendGrant(so.permissions, map[key].permissions)]
    ELSE [roles |-> IF key.source = "role" /\ key.value \in allowed.roles
                    THEN AppendGrant(so.roles, <<key.value>>) ELSE so.roles,
          permissions |-> IF key.source = "permission" /\ key.value \in allowed.permissions
                          THEN AppendGrant(so.permissions, <<key.value>>) ELSE so.permissions]

ResolveGrants(keys, map, allowed) ==
    LET after[n \in 0..Len(keys)] ==
            IF n = 0 THEN [roles |-> <<>>, permissions |-> <<>>] ELSE Granted(map, allowed, keys[n], after[n - 1])
    IN after[Len(keys)]

Unmapped(keys, map, allowed) == {k \in ToSet(keys) : k \notin DOMAIN map /\ ~IsAllowedCanonical(k, allowed)}

-----------------------------------------------------------------------------
(* evaluate.ts, principal.ts, require-access.ts, require-scopes.ts.  A     *)
(* requirement's roles or permissions may be left out.                     *)

SatisfiesAccess(principal, requirement) ==
    LET held == (requirement.roles \cap principal.roles) \cup (requirement.permissions \cap principal.permissions)
        wanted == requirement.roles \cup requirement.permissions
    IN wanted = {} \/ (IF requirement.mode = "all" THEN requirement.roles \subseteq principal.roles
                                                        /\ requirement.permissions \subseteq principal.permissions
                       ELSE held # {})

\* What is authenticated, if anything; without claims it holds nothing.
DefaultPrincipalSelector(principal) ==
    LET Of(name) == UNION {ToSet(ReadStringArray(p.claims[name])) : p \in {q \in principal : name \in DOMAIN q.claims}}
    IN [roles |-> Of("roles"), permissions |-> Of("permissions")]

RequireAccess(requirement, principal) ==
    SatisfiesAccess(DefaultPrincipalSelector(principal), requirement)

\* The scopes of the principal, or those of its scope claim when it lists none.
ReadScopes(principal) ==
    LET Listed(p) == ToSet(ReadStringArray(p.scopes))
        Claimed(p) == IF "scope" \in DOMAIN p.claims /\ p.claims["scope"].form = "text"
                      THEN ToSet(p.claims["scope"].entries) \ {""} ELSE {}
    IN UNION {IF Listed(p) # {} THEN Listed(p) ELSE Claimed(p) : p \in principal}

RequireScopes(scopes, principal) == scopes \subseteq ReadScopes(principal)

\* identity.ts: an opaque token has no claims.
BuildProviderIdentity(tokens, userInfo) ==
    LET Decoded(token) == IF token.form = "jwt" THEN token.claims ELSE [c \in {} |-> Absent]
    IN [userInfo |-> userInfo, idTokenClaims |-> Decoded(tokens.idToken), accessTokenClaims |-> Decoded(tokens.accessToken)]

-----------------------------------------------------------------------------

\* The roles and the permissions that some keys are good for: what the map makes of
\* them, and what passes by itself.
MappedRoles(K, map) == UNION {ToSet(Strings(map[k].roles)) : k \in K \cap DOMAIN map}
PassingRoles(K, map, allowed) == {k.value : k \in {l \in K \ DOMAIN map : l.source = "role" /\ l.value \in allowed.roles}}
MappedPermissions(K, map) == UNION {ToSet(Strings(map[k].permissions)) : k \in K \cap DOMAIN map}
PassingPermissions(K, map, allowed) ==
    {k.value : k \in {l \in K \ DOMAIN map : l.source = "permission" /\ l.value \in allowed.permissions}}
RolesOf(K, map, allowed) == MappedRoles(K, map) \cup PassingRoles(K, map, allowed)
PermissionsOf(K, map, allowed) == MappedPermissions(K, map) \cup PassingPermissions(K, map, allowed)

\* A grant comes from the map or from the list of those that pass by themselves, and an entry of the
\* map overrules that list, also one that grants nothing: so are revoked keys.  The order and the
\* repetition of claims do not matter, a key that did not grant is reported, and a user who gets one
\* more key loses nothing by it.
GrantsAreEarned(keys, map, allowed) ==
    LET granted == ResolveGrants(keys, map, allowed)
        reported == Unmapped(keys, map, allowed)
        mapped == ToSet(keys) \cap DOMAIN map
        Sets(g) == [roles |-> ToSet(g.roles), permissions |-> ToSet(g.permissions)]
    IN /\ ToSet(granted.roles) = RolesOf(ToSet(keys), map, allowed)
       /\ ToSet(granted.permissions) = PermissionsOf(ToSet(keys), map, allowed)
       /\ IsInjective(granted.roles) /\ IsInjective(granted.permissions)
       /\ Sets(ResolveGrants(Reverse(keys), map, allowed)) = Sets(granted)
       /\ reported \cap mapped = {}
       /\ Sets(ResolveGrants(Without(keys, reported), map, allowed)) = Sets(granted)
       /\ keys # <<>> => /\ Sets(ResolveGrants(Front(keys), map, allowed)).roles \subseteq ToSet(granted.roles)
                         /\ Sets(ResolveGrants(Front(keys), map, allowed)).permissions \subseteq ToSet(granted.permissions)
                         /\ Unmapped(<<Last(keys)>>, map, allowed) = {} \/ Last(keys) \in reported

\* A requirement is met by what the session holds and not by what only a source that was overruled
\* said: of userinfo, ID token and access token the last that has the claim decides, and a claim of
\* another form than the profile reads grants nothing.  Nobody meets a requirement that is not empty.
AccessFollowsClaims(tokens, userInfo, map, allowed, requirement) ==
    LET identity == BuildProviderIdentity(tokens, userInfo)
        keys == GenericClaimsProfile(identity)
        azure == AzureClaimsProfile(identity)
        granted == ResolveGrants(keys, map, allowed)
        roles == ToSet(granted.roles)
        permissions == ToSet(granted.permissions)
        List(values) == [form |-> "list", entries |-> values]
        principal == [claims |-> [c \in {"roles", "permissions"} |-> List(IF c = "roles" THEN granted.roles ELSE granted.permissions)],
                      scopes |-> Absent]
        Silent(source) == [identity EXCEPT ![source] = [c \in {} |-> Absent]]
        overruled == {"roles", "permissions"} \subseteq DOMAIN identity.accessTokenClaims
        Roles(list) == {k \in ToSet(list) : k.source = "role"}
    IN /\ overruled => GenericClaimsProfile(Silent("userInfo")) = keys /\ GenericClaimsProfile(Silent("idTokenClaims")) = keys
       /\ tokens.accessToken.form # "jwt" => keys = GenericClaimsProfile(Silent("accessTokenClaims"))
       /\ Roles(azure) = Roles(keys)
       /\ \A k \in ToSet(azure) : k.source = "role" \/ k \in DOMAIN map \/ k \in Unmapped(azure, map, allowed)
       /\ RequireAccess(requirement, {principal}) <=>
            IF requirement.mode = "all" THEN requirement.roles \subseteq roles /\ requirement.permissions \subseteq permissions
            ELSE \/ requirement.roles \cup requirement.permissions = {}
                 \/ (requirement.roles \cap roles) \cup (requirement.permissions \cap permissions) # {}
       /\ RequireAccess(requirement, {}) <=> requirement.roles \cup requirement.permissions = {}
       /\ RequireScopes(requirement.permissions, {}) <=> requirement.permissions = {}
       /\ RequireScopes(requirement.permissions, {[principal EXCEPT !.scopes = List(granted.permissions)]})
            <=> requirement.permissions \subseteq permissions
=============================================================================

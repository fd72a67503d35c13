------------------------------ MODULE ApiKeys ------------------------------
(***************************************************************************)
(* One user's search API keys: their rows, the cache entry that            *)
(* authentication fills (search_auth.py), and the ways a row goes away     *)
(* (platform/api.py, admin.py).  A lookup is a cache read, a row read and  *)
(* a cache write; a revocation clears the cache and then deletes the row.  *)
(* Time is counted in ticks, of which a cache entry lives CacheTTL.        *)
(***************************************************************************)
EXTENDS Naturals, FiniteSets

CONSTANTS
    Keys,       \* keys the user may come to have
    Requests,   \* threads serving search requests
    Revokers,   \* threads serving revocations
    CacheTTL,   \* CACHE_TTL, in ticks
    NoKey

ASSUME KeyConstants == CacheTTL \in Nat \ {0} /\ NoKey \notin Keys

VARIABLES
    rows,       \* keys that have a row
    issued,     \* history: keys that ever had one
    cached,     \* key -> ticks its cache entry has left, 0 if there is none
    request,    \* request -> where it is in authenticate, with which key
    revoking,   \* revoker -> where it is, with which keys, and whether the user goes too
    age         \* history: key -> ticks since it was last backed by its row or by
                \* a request that had read the row, up to CacheTTL

keyVars == <<rows, issued, cached, request, revoking, age>>

NoRequest == [stage |-> "idle", key |-> NoKey]
NoRevoke == [stage |-> "idle", keys |-> {}, user |-> FALSE]

\* A request has read the row of the key and is about to cache it.
Filling(k) == \E r \in Requests : request[r] = [stage |-> "fill", key |-> k]

Backed(k) == k \in rows \/ Filling(k)

\* A request with the key would be let in now, or is about to be.
Works(k) == cached[k] > 0 \/ Backed(k)

-----------------------------------------------------------------------------
(* SearchApiKeyAuth.authenticate. *)

\* Mutant: a cache hit renews the entry.
LookUpRenewing(r, k) ==
    /\ request[r] = NoRequest /\ k \in issued
    /\ IF cached[k] > 0
       THEN cached' = [cached EXCEPT ![k] = CacheTTL] /\ UNCHANGED request
       ELSE /\ request' = [request EXCEPT ![r] = [stage |-> "fetch", key |-> k]]
            /\ UNCHANGED cached
    /\ UNCHANGED <<rows, issued, revoking, age>>

\* cache.get: a hit lets the request in and changes nothing.
LookUp(r, k) ==
    /\ request[r] = NoRequest /\ k \in issued
    /\ cached[k] = 0
    /\ request' = [request EXCEPT ![r] = [stage |-> "fetch", key |-> k]]
    /\ UNCHANGED <<rows, issued, cached, revoking, age>>

\* Mutant: filter in the place of get.
FetchRows(r) ==
    /\ request[r].stage = "fetch"
    /\ request' = [request EXCEPT ![r] =
            IF request[r].key \in rows THEN [stage |-> "fill", key |-> {@.key}] ELSE NoRequest]
    /\ UNCHANGED <<rows, issued, cached, revoking, age>>

\* ApiKey.objects.get: without a row the request is refused.
FetchRow(r) ==
    /\ request[r].stage = "fetch"
    /\ request' = [request EXCEPT ![r] =
            IF request[r].key \in rows THEN [stage |-> "fill", key |-> @.key]
            ELSE NoRequest]
    /\ UNCHANGED <<rows, issued, cached, revoking, age>>

\* cache.set, and the request is let in.
FillCache(r) ==
    /\ request[r].stage = "fill"
    /\ cached' = [cached EXCEPT ![request[r].key] = CacheTTL]
    /\ request' = [request EXCEPT ![r] = NoRequest]
    /\ UNCHANGED <<rows, issued, revoking, age>>

-----------------------------------------------------------------------------
(* The rows. *)

\* create_api_key; every key is new.
CreateApiKey(k) ==
    /\ k \notin issued
    /\ rows' = rows \cup {k} /\ issued' = issued \cup {k}
    /\ UNCHANGED <<cached, request, revoking, age>>

StartRevoke(v, K, whole) ==
    /\ revoking[v] = NoRevoke
    /\ revoking' = [revoking EXCEPT ![v] = [stage |-> "invalidate", keys |-> K, user |-> whole]]
    /\ UNCHANGED <<rows, issued, cached, request, age>>

\* delete_api_key: the row is found, or the answer is 404.
DeleteApiKey(v, k) == k \in rows /\ StartRevoke(v, {k}, FALSE)

\* delete_user: the keys to be invalidated are read.
DeleteUser(v) == StartRevoke(v, rows, TRUE)

\* invalidate_api_key_cache, invalidate_user_api_key_cache
Invalidate(v) ==
    /\ revoking[v].stage = "invalidate"
    /\ cached' = [k \in Keys |-> IF k \in revoking[v].keys THEN 0 ELSE cached[k]]
    /\ revoking' = [revoking EXCEPT ![v].stage = "delete"]
    /\ UNCHANGED <<rows, issued, request, age>>

\* api_key.delete(), or user.delete() with everything that hangs on the user.
DeleteRows(v) ==
    /\ revoking[v].stage = "delete"
    /\ rows' = IF revoking[v].user THEN {} ELSE rows \ revoking[v].keys
    /\ revoking' = [revoking EXCEPT ![v] = NoRevoke]
    /\ UNCHANGED <<issued, cached, request, age>>

\* A row deleted, or its search scope taken away, in the admin, which clears no cache.
AdminDelete(k) ==
    /\ k \in rows
    /\ rows' = rows \ {k}
    /\ UNCHANGED <<issued, cached, request, revoking, age>>

-----------------------------------------------------------------------------
\* Time passes.
Tick ==
    /\ cached' = [k \in Keys |-> IF cached[k] > 0 THEN cached[k] - 1 ELSE 0]
    /\ age' = [k \in Keys |-> IF Backed(k) \/ k \notin issued THEN 0
                              ELSE IF age[k] < CacheTTL THEN age[k] + 1 ELSE CacheTTL]
    /\ UNCHANGED <<rows, issued, request, revoking>>

EvictKey(k) ==
    /\ cached[k] > 0
    /\ cached' = [cached EXCEPT ![k] = 0]
    /\ UNCHANGED <<rows, issued, request, revoking, age>>

KeysInit ==
    /\ rows = {} /\ issued = {}
    /\ cached = [k \in Keys |-> 0]
    /\ request = [r \in Requests |-> NoRequest]
    /\ revoking = [v \in Revokers |-> NoRevoke]
    /\ age = [k \in Keys |-> 0]

Authenticate(r) == (\E k \in Keys : LookUp(r, k)) \/ FetchRow(r) \/ FillCache(r)

-----------------------------------------------------------------------------
(* Properties. *)

\* Types of the variables.
KeysTypeOK ==
    /\ rows \subseteq Keys /\ issued \subseteq Keys
    /\ cached \in [Keys -> 0 .. CacheTTL]
    /\ request \in [Requests -> [stage : {"idle", "fetch", "fill"}, key : Keys \cup {NoKey}]]
    /\ revoking \in [Revokers -> [stage : {"idle", "invalidate", "delete"},
                                  keys : SUBSET Keys, user : BOOLEAN]]
    /\ age \in [Keys -> 0 .. CacheTTL]

\* Requests can cache a key between its invalidation and the deletion of its row, or after
\* it, and the admin invalidates nothing; but however they interleave, a key whose row is
\* gone is refused one CACHE_TTL after the last request that had read the row.
RevokedWithinTTL == \A k \in Keys : Works(k) => age[k] < CacheTTL
=============================================================================

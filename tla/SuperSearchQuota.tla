-------------------------- MODULE SuperSearchQuota --------------------------
(***************************************************************************)
(* The monthly quota of super search (super_search, quota.py): a request   *)
(* increments the user's counter first, is admitted if that is within the  *)
(* limit, and takes its increment back if it is not.  The counter may be   *)
(* evicted by Redis between any two commands.                              *)
(***************************************************************************)
EXTENDS Integers, FiniteSets

CONSTANTS
    Requests,    \* requests of one user in one month
    Limit,       \* SUPER_SEARCH_MONTHLY_LIMIT
    MaxFaults,   \* bound on evictions and deaths
    Missing      \* no such key

ASSUME SearchQuotaConstants ==
    /\ IsFiniteSet(Requests)
    /\ Limit \in Nat /\ MaxFaults \in Nat
    /\ Missing \notin Int

VARIABLES
    request,   \* request -> where it is
    count,     \* super_search:monthly:{user}:{year}:{month}
    charged,   \* history: requests whose increment is in the counter
    stale,     \* history: refunds taken from it by requests whose increment was not
    faults     \* counter for the bound

quotaVars == <<request, count, charged, stale, faults>>

\* Mutant: off by one.
AdmitsOneMore(n) == n <= Limit + 1

Admits(n) == n <= Limit

\* Mutant: a request over the limit goes without a refund.
VerdictUnrefunded(n) == IF Admits(n) THEN "admitted" ELSE "rejected"

\* The comparison in super_search with what increment_monthly_super_search returned.
Verdict(n) == IF Admits(n) THEN "admitted" ELSE "over"

Charge(r, n) ==
    /\ count' = n
    /\ charged' = charged \cup {r}
    /\ request' = [request EXCEPT ![r] = Verdict(n)]
    /\ UNCHANGED <<stale, faults>>

\* Mutant: what cache.add returned is not looked at.
AddCountUnchecked(r) ==
    /\ request[r] = "new"
    /\ request' = [request EXCEPT ![r] = "incr"]
    /\ IF count = Missing THEN count' = 1 /\ charged' = charged \cup {r}
                          ELSE UNCHANGED <<count, charged>>
    /\ UNCHANGED <<stale, faults>>

\* cache.add
AddCount(r) ==
    /\ request[r] = "new"
    /\ \/ count = Missing /\ Charge(r, 1)
       \/ /\ count # Missing
          /\ request' = [request EXCEPT ![r] = "incr"]
          /\ UNCHANGED <<count, charged, stale, faults>>

\* cache.incr raises when the key is gone, and the request fails.
IncrCount(r) ==
    /\ request[r] = "incr"
    /\ \/ count # Missing /\ Charge(r, count + 1)
       \/ /\ count = Missing
          /\ request' = [request EXCEPT ![r] = "failed"]
          /\ UNCHANGED <<count, charged, stale, faults>>

Left == IF count = Missing THEN 0 ELSE count

\* decrement_monthly_super_search: cache.get.  A counter that an earlier refund has brought
\* down too far is left as it is.
LookAtCount(r) ==
    /\ request[r] = "over"
    /\ \/ /\ Left > 0
          /\ request' = [request EXCEPT ![r] = "refund"]
          /\ UNCHANGED <<charged, stale>>
       \/ /\ Left <= 0
          /\ request' = [request EXCEPT ![r] = "rejected"]
          /\ charged' = charged \ {r}
          /\ stale' = IF r \in charged THEN stale - 1 ELSE stale
    /\ UNCHANGED <<count, faults>>

\* cache.decr, whose ValueError for a missing key is ignored.
Refund(r) ==
    /\ request[r] = "refund"
    /\ request' = [request EXCEPT ![r] = "rejected"]
    /\ count' = IF count = Missing THEN Missing ELSE count - 1
    /\ charged' = charged \ {r}
    /\ stale' = IF count # Missing /\ r \notin charged THEN stale + 1 ELSE stale
    /\ UNCHANGED faults

\* allkeys-lru, or a restart of Redis without persistence.
EvictCount ==
    /\ count # Missing /\ faults < MaxFaults
    /\ count' = Missing /\ charged' = {} /\ stale' = 0
    /\ faults' = faults + 1
    /\ UNCHANGED request

\* A worker dies, or a call to Redis raises, in the middle of a request.
RequestDies(r) ==
    /\ request[r] \in {"incr", "over", "refund"} /\ faults < MaxFaults
    /\ request' = [request EXCEPT ![r] = "failed"]
    /\ faults' = faults + 1
    /\ UNCHANGED <<count, charged, stale>>

QuotaInit ==
    /\ request = [r \in Requests |-> "new"]
    /\ count = Missing /\ charged = {} /\ stale = 0 /\ faults = 0

QuotaNext ==
    \/ \E r \in Requests :
        AddCount(r) \/ IncrCount(r) \/ LookAtCount(r) \/ Refund(r) \/ RequestDies(r)
    \/ EvictCount

QuotaSpec == QuotaInit /\ [][QuotaNext]_quotaVars

-----------------------------------------------------------------------------
(* Properties. *)

\* Types of the variables; a request is counted once and only after it has incremented, and
\* a counter that is gone counts nothing.
QuotaTypeOK ==
    /\ request \in [Requests -> {"new", "incr", "admitted", "over", "refund",
                                 "rejected", "failed"}]
    /\ count \in Int \cup {Missing}
    /\ charged \subseteq {r \in Requests : request[r] \notin {"new", "incr", "rejected"}}
    /\ count = Missing => charged = {} /\ stale = 0
    /\ stale \in Int /\ faults \in Nat

Admitted == {r \in charged : request[r] = "admitted"}

\* "Increment first, then check: this makes the quota check atomic under concurrent
\* requests" (super_search): as long as a counter lives no more requests are admitted on it
\* than the limit, but for one more with every refund that was meant for a counter before it.
QuotaHolds == Cardinality(Admitted) <= Limit + stale

\* Once no request is under way, those that were rejected have left nothing in the counter:
\* it counts the admitted ones and those that died before their refund.
RejectedRefunded ==
    (count # Missing /\ \A r \in Requests : request[r] \notin {"over", "refund"})
        => count = Cardinality({r \in charged : request[r] \in {"admitted", "failed"}}) - stale
=============================================================================

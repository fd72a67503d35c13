---------------------------- MODULE MonthlyUsage ----------------------------
(***************************************************************************)
(* What one user with an API key is counted, limited and billed for in one *)
(* month: the counter in Redis that requests check and then increment      *)
(* (quota.py, search.py), its hourly sync with the UsageBucket row, and    *)
(* the hourly report of the billable part to the billing provider          *)
(* (background.py).                                                        *)
(*                                                                         *)
(* Every call to the cache, the database or the provider that another      *)
(* process can come between is a step of its own.  The two periodic tasks  *)
(* run one after another in one process, the only writer of the row.       *)
(***************************************************************************)
EXTENDS Integers, FiniteSets

CONSTANTS
    Requests,     \* threads serving the user's requests
    Free,         \* FREE_KEYED_MONTHLY_LIMIT
    Cap,          \* effective_monthly_request_cap: Free and what the spend limit buys
    KeysPrefixed, \* the cache stores a key under a prefix that a raw scan does not know
    MaxFaults,    \* bound on evictions and failures of the tasks
    Missing       \* no such key, no such row

ASSUME UsageConstants ==
    /\ IsFiniteSet(Requests) /\ Requests # {}
    /\ Free \in Nat /\ Cap \in Nat /\ Free <= Cap
    /\ KeysPrefixed \in BOOLEAN
    /\ MaxFaults \in Nat
    /\ Missing \notin Nat

VARIABLES
    pc,        \* request -> where it is between the check and the increment
    counter,   \* search:monthly:{user}:{year}:{month}
    backup,    \* UsageBucket.count
    reported,  \* UsageBucket.reported_overage
    task,      \* where the background process is in one of its two tasks
    counted,   \* history: increments of the counter
    lost,      \* history: the counter has been evicted
    ingested,  \* what the provider has ingested
    resent,    \* history: the part of it whose record was lost
    faults     \* counter for the bound

countVars == <<pc, counter, counted, lost>>
reportVars == <<reported, ingested, resent>>
vars == <<countVars, reportVars, backup, task, faults>>

\* cache.get(key, default=0)
Count(c) == IF c = Missing THEN 0 ELSE c

\* billable_overage
Overage(n) == IF n > Free THEN n - Free ELSE 0

\* Mutant: the whole overage, whatever has been reported.
DeltaWhole == Overage(Count(backup))

\* Mutant: the operands swapped.
DeltaSwapped == reported - Overage(Count(backup))

\* What a report sends.  The row does not change while the report runs.
Delta == Overage(Count(backup)) - reported

-----------------------------------------------------------------------------
(* A request. *)

\* Mutant: one request too many.
CheckQuotaInclusive(r) ==
    /\ pc[r] = "idle"
    /\ Count(counter) <= Cap
    /\ pc' = [pc EXCEPT ![r] = "add"]
    /\ UNCHANGED <<counter, counted, lost, reportVars, backup, task, faults>>

\* The check in search(); a request that does not pass it leaves no trace.
CheckQuota(r) ==
    /\ pc[r] = "idle"
    /\ Count(counter) < Cap
    /\ pc' = [pc EXCEPT ![r] = "add"]
    /\ UNCHANGED <<counter, counted, lost, reportVars, backup, task, faults>>

\* increment_monthly: cache.add, and cache.incr if the key was there.  If it is gone again
\* by then incr raises and the request fails.
AddCounter(r) ==
    /\ pc[r] = "add"
    /\ IF counter = Missing
       THEN /\ counter' = 1 /\ counted' = counted + 1
            /\ pc' = [pc EXCEPT ![r] = "idle"]
       ELSE /\ UNCHANGED <<counter, counted>>
            /\ pc' = [pc EXCEPT ![r] = "incr"]
    /\ UNCHANGED <<lost, reportVars, backup, task, faults>>

IncrCounter(r) ==
    /\ pc[r] = "incr"
    /\ IF counter = Missing
       THEN UNCHANGED <<counter, counted>>
       ELSE counter' = counter + 1 /\ counted' = counted + 1
    /\ pc' = [pc EXCEPT ![r] = "idle"]
    /\ UNCHANGED <<lost, reportVars, backup, task, faults>>

Fault == faults < MaxFaults /\ faults' = faults + 1

\* allkeys-lru, or a restart of Redis without persistence.
Evict ==
    /\ counter # Missing
    /\ counter' = Missing /\ lost' = TRUE
    /\ Fault
    /\ UNCHANGED <<pc, counted, reportVars, backup, task>>

-----------------------------------------------------------------------------
(* sync_search_counts. *)

\* Mutant: nothing to do without a row.
StartSyncFromRow ==
    /\ task = "idle" /\ backup # Missing
    /\ IF counter = Missing
       THEN task' = "scan" /\ counter' = backup
       ELSE task' = "compare" /\ UNCHANGED counter
    /\ UNCHANGED <<pc, counted, lost, reportVars, backup, faults>>

\* Step 1: seed the counter from the row.
StartSync ==
    /\ task = "idle"
    /\ IF backup # Missing /\ counter # Missing
       THEN task' = "compare" /\ UNCHANGED counter
       ELSE task' = "scan" /\ counter' = IF backup = Missing THEN counter ELSE backup
    /\ UNCHANGED <<pc, counted, lost, reportVars, backup, faults>>

SyncCompare ==
    /\ task = "compare"
    /\ task' = IF backup > Count(counter) THEN "raise" ELSE "scan"
    /\ UNCHANGED <<countVars, reportVars, backup, faults>>

SyncRaise ==
    /\ task = "raise"
    /\ counter' = backup
    /\ task' = "scan"
    /\ UNCHANGED <<pc, counted, lost, reportVars, backup, faults>>

\* Step 2: get_all_monthly_keys scans for the name without the prefix.
ScanFinds == counter # Missing /\ ~KeysPrefixed

SyncScan ==
    /\ task = "scan"
    /\ task' = IF ScanFinds THEN "copy" ELSE "idle"
    /\ UNCHANGED <<countVars, reportVars, backup, faults>>

SyncCopy ==
    /\ task = "copy"
    /\ backup' = Count(counter)
    /\ task' = "idle"
    /\ UNCHANGED <<countVars, reportVars, faults>>

-----------------------------------------------------------------------------
(* report_usage_to_polar, for a user known to the provider. *)

\* Mutant: a single request is not worth a report.
StartReportSeveral ==
    /\ task = "idle" /\ backup # Missing
    /\ Overage(backup) > reported + 1
    /\ task' = "ingest"
    /\ UNCHANGED <<countVars, reportVars, backup, faults>>

StartReport ==
    /\ task = "idle" /\ backup # Missing
    /\ Overage(backup) > reported
    /\ task' = "ingest"
    /\ UNCHANGED <<countVars, reportVars, backup, faults>>

Ingest ==
    /\ task = "ingest"
    /\ ingested' = ingested + Delta
    /\ task' = "save"
    /\ UNCHANGED <<countVars, reported, resent, backup, faults>>

SaveReported ==
    /\ task = "save"
    /\ reported' = Overage(backup)
    /\ task' = "idle"
    /\ UNCHANGED <<countVars, ingested, resent, backup, faults>>

\* Mutant: an exception of ingest does not end the task.
TaskFailsSaves ==
    /\ task # "idle"
    /\ Fault
    /\ task' = IF task = "ingest" THEN "save" ELSE "idle"
    /\ resent' = IF task = "save" THEN resent + Delta ELSE resent
    /\ UNCHANGED <<countVars, reported, ingested, backup>>

\* A call raises or the process dies; a report that had been ingested is not recorded.
TaskFails ==
    /\ task # "idle"
    /\ Fault
    /\ task' = "idle"
    /\ resent' = IF task = "save" THEN resent + Delta ELSE resent
    /\ UNCHANGED <<countVars, reported, ingested, backup>>

-----------------------------------------------------------------------------
Init ==
    /\ pc = [r \in Requests |-> "idle"]
    /\ counter = Missing /\ backup = Missing
    /\ reported = 0 /\ ingested = 0 /\ resent = 0
    /\ task = "idle"
    /\ counted = 0 /\ lost = FALSE /\ faults = 0

Serve(r) == CheckQuota(r) \/ AddCounter(r) \/ IncrCounter(r)
TaskStep == SyncCompare \/ SyncRaise \/ SyncScan \/ SyncCopy \/ Ingest \/ SaveReported

Next ==
    \/ \E r \in Requests : Serve(r)
    \/ StartSync \/ StartReport \/ TaskStep
    \/ Evict \/ TaskFails

Spec == Init /\ [][Next]_vars

(* Fairness.  process_tasks runs each periodic task again and again, and a   *)
(* task that has started goes on.  They compete for the one process, hence   *)
(* strong fairness.  Requests need not come and nothing need fail.           *)
Fairness == SF_vars(StartSync) /\ SF_vars(StartReport) /\ WF_vars(TaskStep)

FairSpec == Spec /\ Fairness

-----------------------------------------------------------------------------
(* Properties. *)

\* Types of the variables.
TypeOK ==
    /\ pc \in [Requests -> {"idle", "add", "incr"}]
    /\ counter \in Nat \cup {Missing} /\ backup \in Nat \cup {Missing}
    /\ reported \in Nat /\ counted \in Nat /\ ingested \in Nat /\ resent \in Nat
    /\ task \in {"idle", "compare", "raise", "scan", "copy", "ingest", "save"}
    /\ lost \in BOOLEAN /\ faults \in Nat

\* The quota is checked and then incremented, so requests can pass together; but unless the
\* counter is lost the user is served at most one request too many per further thread, and
\* no sync gives requests back.
UsageCapped == ~lost => counted < Cap + Cardinality(Requests)

\* "A failed batch simply gets resent": nothing is recorded as reported that the provider
\* has not ingested, wherever a report dies.
NothingSkipped == reported <= ingested

\* The user is billed for no more than was counted, except for what was sent in a report
\* that died before it was recorded; lost counters, stale rows and syncs do not add to it.
BilledForUsage == ingested <= Overage(counted) + resent

\* "So Postgres stays current as a durable backup" (sync_search_counts): once requests stop
\* the row agrees with the counter, also after the counter was lost.
BackupCurrent == <>[](counter = Missing \/ backup = counter)

\* Whatever has reached the row is reported in the end, in spite of failed reports.
ReportsCatchUp == <>[](backup = Missing \/ reported >= Overage(backup))

\* "Re-runs are idempotent and a failed batch simply gets resent (larger) on the next run
\* rather than risking double-counting" (report_usage_to_polar): a user is never billed for
\* more than was counted.
NeverDoubleBilled == ingested <= Overage(counted)
=============================================================================

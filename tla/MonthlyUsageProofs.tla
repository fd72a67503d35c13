------------------------- MODULE MonthlyUsageProofs -------------------------
(***************************************************************************)
(* The cap and the bill of MonthlyUsage, for any number of requests, any   *)
(* limits and any faults, whether or not the scan sees the counters.       *)
(***************************************************************************)
EXTENDS MonthlyUsage, FiniteSetTheorems, TLAPS

\* Requests between their check and their increment.
Pending == {r \in Requests : pc[r] # "idle"}

\* No count is ahead of the requests counted, and the row only has something to report
\* while a report of it is on its way.
Behind ==
    /\ Count(counter) <= counted /\ Count(backup) <= counted
    /\ reported <= Overage(counted)
    /\ task \in {"compare", "raise"} => backup # Missing
    /\ task \in {"ingest", "save"} => backup # Missing /\ Overage(backup) > reported

\* What the provider has is what is recorded, what lost its record, and what is about to be
\* recorded.
Accounts ==
    ingested = reported + resent + (IF task = "save" THEN Delta ELSE 0)

\* While the counter has not been lost it is exact, so that no sync has reason to set it;
\* and every pending request was below the cap when it passed.
Exact ==
    ~lost => /\ Count(counter) = counted
             /\ task # "raise"
             /\ counted + Cardinality(Pending) < Cap + Cardinality(Requests)

Inv == TypeOK /\ Behind /\ Accounts /\ Exact

-----------------------------------------------------------------------------
LEMMA CountFacts ==
    ASSUME UsageConstants
    PROVE  /\ Count(Missing) = 0
           /\ \A n \in Nat : Count(n) = n
           /\ \A c \in Nat \cup {Missing} : Count(c) \in Nat
BY DEF UsageConstants, Count

LEMMA OverageFacts ==
    ASSUME UsageConstants
    PROVE  /\ \A n \in Nat : Overage(n) \in Nat
           /\ \A m, n \in Nat : m <= n => Overage(m) <= Overage(n)
           /\ Overage(0) = 0
BY DEF UsageConstants, Overage

LEMMA PendingFacts ==
    ASSUME UsageConstants
    PROVE  /\ IsFiniteSet(Pending) /\ Cardinality(Pending) \in Nat
           /\ Cardinality(Requests) \in Nat /\ Cardinality(Requests) > 0
           /\ Cardinality(Pending) <= Cardinality(Requests)
<1>1. Pending \in SUBSET Requests
  BY DEF Pending
<1>2. Cardinality(Requests) # 0
  BY FS_EmptySet DEF UsageConstants
<1>3. QED BY <1>1, <1>2, FS_Subset, FS_CardinalityType DEF UsageConstants

\* A request that ends leaves one pending request fewer.
LEMMA LeaveFacts ==
    ASSUME UsageConstants, TypeOK, NEW r \in Pending, pc' = [pc EXCEPT ![r] = "idle"]
    PROVE  Cardinality(Pending') = Cardinality(Pending) - 1
<1>1. Pending' = Pending \ {r}
  BY DEF Pending, TypeOK
<1>2. QED BY <1>1, PendingFacts, FS_RemoveElement

LEMMA InitInv == UsageConstants /\ Init => Inv
<1> SUFFICES ASSUME UsageConstants, Init PROVE Inv
  OBVIOUS
<1>1. TypeOK
  BY DEF Init, TypeOK
<1>2. Behind /\ Accounts
  BY CountFacts, OverageFacts DEF Init, Behind, Accounts
<1>3. Pending = {} /\ Cardinality({}) = 0
  BY FS_EmptySet DEF Init, Pending
<1>4. Exact
  BY <1>3, CountFacts, PendingFacts DEF Init, Exact, UsageConstants
<1>5. QED BY <1>1, <1>2, <1>4 DEF Inv

\* Steps that count a request, or fail to.
LEMMA CountStep ==
    ASSUME UsageConstants, Inv, NEW r \in Requests, pc[r] # "idle",
           pc' = [pc EXCEPT ![r] = "idle"],
           \/ counter' = Count(counter) + 1 /\ counted' = counted + 1
           \/ UNCHANGED <<counter, counted>>,
           UNCHANGED <<lost, reportVars, backup, task, faults>>
    PROVE  Inv'
<1>1. TypeOK'
  BY CountFacts DEF Inv, TypeOK, reportVars
<1>2. /\ counted' \in Nat /\ counted <= counted' /\ Count(counter') <= counted'
      /\ Overage(counted) <= Overage(counted')
      /\ Overage(counted) \in Nat /\ Overage(counted') \in Nat
  BY CountFacts, OverageFacts DEF Inv, TypeOK, Behind
<1>3. Behind'
  BY <1>2, CountFacts DEF Inv, Behind, TypeOK, reportVars
<1>4. Accounts'
  BY DEF Inv, Accounts, Delta, reportVars
<1>5. Exact'
  <2>1. Cardinality(Pending') = Cardinality(Pending) - 1
    BY LeaveFacts DEF Inv, Pending
  <2>2. ~lost => Count(counter') = counted'
    BY CountFacts DEF Inv, Exact, TypeOK
  <2>3. QED BY <2>1, <2>2, PendingFacts DEF Inv, Exact, TypeOK, UsageConstants, reportVars
<1>6. QED BY <1>1, <1>3, <1>4, <1>5 DEF Inv

LEMMA ServeInv ==
    ASSUME UsageConstants, Inv, NEW r \in Requests, Serve(r)
    PROVE  Inv'
<1>1. CASE CheckQuota(r)
  <2>1. TypeOK'
    BY <1>1 DEF CheckQuota, Inv, TypeOK, reportVars
  <2>2. Behind' /\ Accounts'
    BY <1>1 DEF CheckQuota, Inv, Behind, Accounts, Delta, reportVars
  <2>3. Exact'
    <3>1. Cardinality(Pending') \in Nat /\ Cardinality(Pending') <= Cardinality(Requests)
      <4>1. Pending' \in SUBSET Requests
        BY DEF Pending
      <4>2. QED BY <4>1, FS_Subset, FS_CardinalityType DEF UsageConstants
    <3>2. QED BY <1>1, <3>1, PendingFacts DEF CheckQuota, Inv, Exact, TypeOK, UsageConstants
  <2>4. QED BY <2>1, <2>2, <2>3 DEF Inv
<1>2. CASE AddCounter(r)
  <2>1. CASE counter = Missing
    BY <1>2, <2>1, CountStep, CountFacts DEF AddCounter
  <2>2. CASE counter # Missing
    <3>1. TypeOK'
      BY <1>2, <2>2 DEF AddCounter, Inv, TypeOK, reportVars
    <3>2. Behind' /\ Accounts'
      BY <1>2, <2>2 DEF AddCounter, Inv, Behind, Accounts, Delta, reportVars
    <3>3. Pending' = Pending
      BY <1>2, <2>2 DEF AddCounter, Pending, Inv, TypeOK
    <3>4. Exact'
      BY <1>2, <2>2, <3>3 DEF AddCounter, Inv, Exact
    <3>5. QED BY <3>1, <3>2, <3>4 DEF Inv
  <2>3. QED BY <2>1, <2>2
<1>3. CASE IncrCounter(r)
  <2>1. pc[r] # "idle" /\ pc' = [pc EXCEPT ![r] = "idle"]
    BY <1>3 DEF IncrCounter
  <2>2. \/ counter' = Count(counter) + 1 /\ counted' = counted + 1
        \/ UNCHANGED <<counter, counted>>
    BY <1>3, CountFacts DEF IncrCounter, Inv, TypeOK
  <2>3. UNCHANGED <<lost, reportVars, backup, task, faults>>
    BY <1>3 DEF IncrCounter
  <2>4. QED BY <2>1, <2>2, <2>3, CountStep
<1>4. QED BY <1>1, <1>2, <1>3 DEF Serve

\* Steps of the sync: at most the counter, or the row, takes the other's value.
LEMMA SyncInv ==
    ASSUME UsageConstants, Inv,
           StartSync \/ SyncCompare \/ SyncRaise \/ SyncScan \/ SyncCopy
    PROVE  Inv'
<1>1. TypeOK' /\ Behind'
  BY CountFacts DEF StartSync, SyncCompare, SyncRaise, SyncScan, SyncCopy, Inv, TypeOK, Behind,
                    reportVars, countVars
<1>2. Accounts'
  BY DEF StartSync, SyncCompare, SyncRaise, SyncScan, SyncCopy, Inv, Accounts, reportVars
<1>3. Pending' = Pending
  BY DEF StartSync, SyncCompare, SyncRaise, SyncScan, SyncCopy, Pending, countVars
<1>4. Exact'
  <2>1. UNCHANGED <<counted, lost>>
    BY DEF StartSync, SyncCompare, SyncRaise, SyncScan, SyncCopy, countVars
  <2> SUFFICES ASSUME ~lost PROVE Count(counter') = counted /\ task' # "raise"
    BY <1>3, <2>1 DEF Inv, Exact
  <2>2. Count(counter) = counted /\ task # "raise"
    BY DEF Inv, Exact
  <2>3. CASE StartSync
    BY <2>2, <2>3, CountFacts DEF StartSync, Inv, TypeOK, Behind
  <2>4. CASE SyncCompare
    BY <2>2, <2>4, CountFacts DEF SyncCompare, countVars, Inv, TypeOK, Behind
  <2>5. CASE SyncScan \/ SyncCopy
    BY <2>2, <2>5 DEF SyncScan, SyncCopy, countVars
  <2>6. QED BY <2>2, <2>3, <2>4, <2>5 DEF SyncRaise
<1>5. QED BY <1>1, <1>2, <1>4 DEF Inv

LEMMA ReportInv ==
    ASSUME UsageConstants, Inv, StartReport \/ Ingest \/ SaveReported
    PROVE  Inv'
<1>1. /\ Count(backup) \in Nat /\ (backup # Missing => Count(backup) = backup)
      /\ Overage(Count(backup)) \in Nat /\ Overage(counted) \in Nat
      /\ Overage(Count(backup)) <= Overage(counted)
  BY CountFacts, OverageFacts DEF Inv, TypeOK, Behind
<1>2. CASE StartReport
  <2>1. TypeOK' /\ Behind' /\ Accounts'
    BY <1>2 DEF StartReport, Inv, TypeOK, Behind, Accounts, Delta, countVars, reportVars
  <2>2. Exact'
    BY <1>2 DEF StartReport, Inv, Exact, Pending, countVars
  <2>3. QED BY <2>1, <2>2 DEF Inv
<1>3. CASE Ingest
  <2>1. TypeOK' /\ Behind' /\ Accounts'
    BY <1>1, <1>3 DEF Ingest, Inv, TypeOK, Behind, Accounts, Delta, countVars
  <2>2. Exact'
    BY <1>3 DEF Ingest, Inv, Exact, Pending, countVars
  <2>3. QED BY <2>1, <2>2 DEF Inv
<1>4. CASE SaveReported
  <2>1. TypeOK' /\ Behind' /\ Accounts'
    BY <1>1, <1>4 DEF SaveReported, Inv, TypeOK, Behind, Accounts, Delta, countVars
  <2>2. Exact'
    BY <1>4 DEF SaveReported, Inv, Exact, Pending, countVars
  <2>3. QED BY <2>1, <2>2 DEF Inv
<1>5. QED BY <1>2, <1>3, <1>4

LEMMA FaultInv ==
    ASSUME UsageConstants, Inv, Evict \/ TaskFails
    PROVE  Inv'
<1>1. CASE Evict
  <2>1. TypeOK' /\ Behind' /\ Accounts'
    BY <1>1, CountFacts
       DEF Evict, Fault, Inv, TypeOK, Behind, Accounts, Delta, reportVars
  <2>2. QED BY <1>1, <2>1 DEF Evict, Inv, Exact
<1>2. CASE TaskFails
  <2>1. /\ Overage(Count(backup)) \in Nat
        /\ task = "save" => Overage(Count(backup)) > reported
    BY CountFacts, OverageFacts DEF Inv, TypeOK, Behind
  <2>2. TypeOK' /\ Behind' /\ Accounts'
    BY <1>2, <2>1 DEF TaskFails, Fault, Inv, TypeOK, Behind, Accounts, Delta, countVars
  <2>3. QED BY <1>2, <2>2 DEF TaskFails, Inv, Exact, Pending, countVars
<1>3. QED BY <1>1, <1>2

LEMMA NextInv ==
    ASSUME UsageConstants, Inv, [Next]_vars
    PROVE  Inv'
<1>1. CASE UNCHANGED vars
  BY <1>1 DEF Inv, TypeOK, Behind, Accounts, Exact, Delta, Pending, vars, countVars, reportVars
<1>2. CASE \E r \in Requests : Serve(r)
  BY <1>2, ServeInv
<1>3. CASE StartSync \/ StartReport \/ TaskStep
  BY <1>3, SyncInv, ReportInv DEF TaskStep
<1>4. CASE Evict \/ TaskFails
  BY <1>4, FaultInv
<1>5. QED BY <1>1, <1>2, <1>3, <1>4 DEF Next

-----------------------------------------------------------------------------
\* The invariant holds of every behaviour of the counters, the sync and the report.
THEOREM Invariance == Spec => []Inv
<1>1. UsageConstants /\ Inv /\ [Next]_vars => Inv'
  BY NextInv
<1>2. QED BY <1>1, UsageConstants, InitInv, PTL DEF Spec

\* Type correctness of the counters, the row and the report.
THEOREM TypeCorrect == Spec => []TypeOK
<1>1. Inv => TypeOK
  BY DEF Inv
<1>2. QED BY <1>1, UsageConstants, Invariance, PTL

\* Check-then-increment lets a user past the cap by at most one request per further thread,
\* as long as the counter is not lost.
THEOREM UsageStaysCapped == Spec => []UsageCapped
<1>1. UsageConstants /\ Inv => UsageCapped
  BY PendingFacts DEF Inv, Exact, UsageCapped, TypeOK, UsageConstants
<1>2. QED BY <1>1, UsageConstants, Invariance, PTL

\* Whatever fails, nothing is recorded as reported that the provider does not have, and the
\* user is billed for no more than was counted and what a lost record made the next report
\* send again.
THEOREM BillIsAccountedFor == Spec => [](NothingSkipped /\ BilledForUsage)
<1>1. UsageConstants /\ Inv => NothingSkipped /\ BilledForUsage
  <2> SUFFICES ASSUME UsageConstants, Inv PROVE NothingSkipped /\ BilledForUsage
    OBVIOUS
  <2>1. /\ Overage(Count(backup)) \in Nat /\ Overage(counted) \in Nat
        /\ Overage(Count(backup)) <= Overage(counted)
        /\ task = "save" => Overage(Count(backup)) > reported
    BY CountFacts, OverageFacts DEF Inv, TypeOK, Behind
  <2>2. QED
    BY <2>1 DEF Inv, TypeOK, Behind, Accounts, Delta, NothingSkipped, BilledForUsage
<1>2. QED BY <1>1, UsageConstants, Invariance, PTL

\* Nothing is recorded as reported that the provider has not ingested, wherever a report dies
\* (report_usage_to_polar).
COROLLARY NothingIsSkipped == Spec => []NothingSkipped
BY BillIsAccountedFor, PTL
=============================================================================

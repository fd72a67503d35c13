------------------------- MODULE SuperSearchProofs -------------------------
(* Proofs about SuperSearchQuota and SuperSearch.                            *)
EXTENDS SuperSearch, FiniteSetTheorems, WellFoundedInduction, TLAPS

-----------------------------------------------------------------------------
(* The counter. *)

\* What the counter holds: the requests counted in it, less the refunds that were not its own.
Balanced == count # Missing => count = Cardinality(charged) - stale

QuotaInv == QuotaTypeOK /\ Balanced /\ QuotaHolds

\* The requests counted, and those admitted among them, are finitely many.
LEMMA ChargedFinite ==
    ASSUME QuotaTypeOK
    PROVE  /\ IsFiniteSet(charged) /\ Cardinality(charged) \in Nat
           /\ IsFiniteSet(Admitted) /\ Cardinality(Admitted) \in Nat
           /\ Cardinality(Admitted) <= Cardinality(charged)
<1>1. charged \subseteq Requests /\ Admitted \subseteq charged
  BY DEF QuotaTypeOK, Admitted
<1> QED
  BY <1>1, SearchQuotaConstants, FS_Subset, FS_CardinalityType

\* A request that is counted.
LEMMA ChargeKeeps ==
    ASSUME QuotaInv, NEW r \in Requests, r \notin charged, request[r] \in {"new", "incr"},
           NEW n, n = IF count = Missing THEN 1 ELSE count + 1,
           Charge(r, n)
    PROVE  QuotaInv'
<1> USE DEF QuotaInv
<1>1. n \in Int /\ n = Cardinality(charged) + 1 - stale
  <2>1. CASE count = Missing
    <3>1. charged = {} /\ stale = 0 /\ Cardinality({}) = 0
      BY <2>1, FS_EmptySet DEF QuotaTypeOK
    <3> QED
      BY <2>1, <3>1
  <2>2. CASE count # Missing
    BY <2>2, ChargedFinite DEF QuotaTypeOK, Balanced
  <2> QED
    BY <2>1, <2>2
<1>2. /\ IsFiniteSet(charged') /\ Cardinality(charged') = Cardinality(charged) + 1
      /\ Cardinality(charged) \in Nat
  BY ChargedFinite, FS_AddElement DEF Charge
<1>3. Balanced'
  BY <1>1, <1>2 DEF Balanced, Charge, QuotaTypeOK
<1>4. Verdict(n) \in {"admitted", "over"} /\ request'[r] = Verdict(n)
  BY DEF Verdict, Charge, QuotaTypeOK
<1>5. QuotaTypeOK'
  <2>1. \A q \in Requests : q # r => request'[q] = request[q]
    BY DEF Charge, QuotaTypeOK
  <2>2. charged' \subseteq {q \in Requests : request'[q] \notin {"new", "incr", "rejected"}}
    BY <1>4, <2>1 DEF Charge, QuotaTypeOK
  <2>3. count' # Missing
    BY <1>1, SearchQuotaConstants DEF Charge
  <2> QED
    BY <1>1, <1>4, <2>2, <2>3 DEF Charge, QuotaTypeOK
<1>6. QuotaHolds'
  <2>1. CASE Admits(n)
    <3>1. Cardinality(Admitted') <= Cardinality(charged') /\ Cardinality(Admitted') \in Nat
      BY <1>2, FS_Subset, FS_CardinalityType DEF Admitted
    <3>2. Cardinality(charged') <= Limit + stale
      BY <1>1, <1>2, <2>1, SearchQuotaConstants DEF Admits, QuotaTypeOK
    <3> QED
      BY <1>2, <3>1, <3>2, SearchQuotaConstants DEF QuotaHolds, Charge, QuotaTypeOK
  <2>2. CASE ~Admits(n)
    <3>1. Admitted' = Admitted
      BY <2>2 DEF Admitted, Charge, Verdict, QuotaTypeOK
    <3> QED
      BY <3>1 DEF QuotaHolds, Charge
  <2> QED
    BY <2>1, <2>2
<1> QED
  BY <1>3, <1>5, <1>6

\* A request that moves on without touching the counter.
LEMMA MoveKeeps ==
    ASSUME QuotaInv, NEW r \in Requests,
           NEW stage \in {"incr", "refund", "rejected", "failed"},
           request' = [request EXCEPT ![r] = stage],
           request[r] # "admitted",
           r \in charged => stage \notin {"incr", "rejected"},
           UNCHANGED <<count, charged, stale>>, faults' \in Nat
    PROVE  QuotaInv'
<1>1. QuotaTypeOK'
  <2>1. /\ request' \in [Requests -> {"new", "incr", "admitted", "over", "refund",
                                      "rejected", "failed"}]
        /\ request'[r] = stage
        /\ \A q \in Requests : q # r => request'[q] = request[q]
    BY DEF QuotaInv, QuotaTypeOK
  <2>2. charged' \subseteq {q \in Requests : request'[q] \notin {"new", "incr", "rejected"}}
    BY <2>1 DEF QuotaInv, QuotaTypeOK
  <2> QED
    BY <2>1, <2>2 DEF QuotaInv, QuotaTypeOK
<1>2. Admitted' = Admitted
  BY DEF Admitted, QuotaInv, QuotaTypeOK
<1> QED
  BY <1>1, <1>2 DEF QuotaInv, Balanced, QuotaHolds

\* A request that gives its place in the counter back, the counter falling by one or not.
LEMMA ReturnKeeps ==
    ASSUME QuotaInv, NEW r \in Requests, request[r] \in {"over", "refund"},
           request' = [request EXCEPT ![r] = "rejected"],
           charged' = charged \ {r},
           count = Missing => count' = Missing /\ stale' = stale,
           count # Missing =>
               /\ count' \in Int /\ stale' \in Int
               /\ count' + stale' = count + stale - (IF r \in charged THEN 1 ELSE 0)
               /\ stale' >= stale \/ count' <= 0,
           faults' = faults
    PROVE  QuotaInv'
<1>1. QuotaTypeOK'
  <2>1. /\ request' \in [Requests -> {"new", "incr", "admitted", "over", "refund",
                                      "rejected", "failed"}]
        /\ \A q \in Requests : q # r => request'[q] = request[q]
    BY DEF QuotaInv, QuotaTypeOK
  <2>2. charged' \subseteq {q \in Requests : request'[q] \notin {"new", "incr", "rejected"}}
    BY <2>1 DEF QuotaInv, QuotaTypeOK
  <2>3. /\ count' \in Int \cup {Missing} /\ stale' \in Int /\ faults' \in Nat
        /\ count' = Missing => charged' = {} /\ stale' = 0
    BY SearchQuotaConstants DEF QuotaInv, QuotaTypeOK
  <2> QED
    BY <2>1, <2>2, <2>3 DEF QuotaTypeOK
<1>2. /\ IsFiniteSet(charged) /\ Cardinality(charged) \in Nat
      /\ Cardinality(charged') = Cardinality(charged) - (IF r \in charged THEN 1 ELSE 0)
  <2>1. IsFiniteSet(charged) /\ Cardinality(charged) \in Nat
    BY ChargedFinite DEF QuotaInv
  <2>2. Cardinality(charged \ {r}) = Cardinality(charged) - (IF r \in charged THEN 1 ELSE 0)
    BY <2>1, FS_RemoveElement
  <2> QED
    BY <2>1, <2>2
<1>3. Balanced'
  BY <1>2 DEF QuotaInv, Balanced, QuotaTypeOK
<1>4. QuotaHolds'
  <2>1. Admitted' = Admitted
    BY DEF Admitted, QuotaInv, QuotaTypeOK
  <2>2. CASE count = Missing
    BY <2>1, <2>2 DEF QuotaInv, QuotaHolds
  <2>3. CASE count # Missing /\ stale' >= stale
    <3>1. Cardinality(Admitted) \in Nat
      BY ChargedFinite DEF QuotaInv
    <3> QED
      BY <2>1, <2>3, <3>1, SearchQuotaConstants DEF QuotaInv, QuotaHolds, QuotaTypeOK
  <2>4. CASE count # Missing /\ count' <= 0
    <3>1. Cardinality(Admitted') <= Cardinality(charged') /\ Cardinality(Admitted') \in Nat
      <4>1. IsFiniteSet(charged') /\ Admitted' \subseteq charged'
        BY <1>2, FS_RemoveElement DEF Admitted
      <4> QED
        BY <4>1, FS_Subset, FS_CardinalityType
    <3>2. Cardinality(charged') = count' + stale'
      BY <1>2, <2>4 DEF QuotaInv, Balanced, QuotaTypeOK
    <3>3. count' \in Int /\ stale' \in Int
      BY <2>4
    <3> QED
      BY <2>4, <3>1, <3>2, <3>3, SearchQuotaConstants DEF QuotaHolds
  <2> QED
    BY <2>2, <2>3, <2>4
<1> QED
  BY <1>1, <1>3, <1>4 DEF QuotaInv

\* Every step of a request, an eviction included, keeps the counter's invariant.
LEMMA QuotaStep == QuotaInv /\ QuotaNext => QuotaInv'
<1> SUFFICES ASSUME QuotaInv, QuotaNext PROVE QuotaInv'
  OBVIOUS
<1>1. ASSUME NEW r \in Requests, AddCount(r) PROVE QuotaInv'
  <2>1. r \notin charged
    BY <1>1 DEF QuotaInv, QuotaTypeOK, AddCount
  <2>2. CASE count = Missing /\ Charge(r, 1)
    BY <1>1, <2>1, <2>2, ChargeKeeps DEF AddCount
  <2>3. CASE /\ count # Missing /\ request' = [request EXCEPT ![r] = "incr"]
             /\ UNCHANGED <<count, charged, stale, faults>>
    BY <1>1, <2>1, <2>3, MoveKeeps DEF AddCount, QuotaInv, QuotaTypeOK
  <2> QED
    BY <1>1, <2>2, <2>3 DEF AddCount
<1>2. ASSUME NEW r \in Requests, IncrCount(r) PROVE QuotaInv'
  <2>1. r \notin charged
    BY <1>2 DEF QuotaInv, QuotaTypeOK, IncrCount
  <2>2. CASE count # Missing /\ Charge(r, count + 1)
    BY <1>2, <2>1, <2>2, ChargeKeeps DEF IncrCount
  <2>3. CASE /\ count = Missing /\ request' = [request EXCEPT ![r] = "failed"]
             /\ UNCHANGED <<count, charged, stale, faults>>
    BY <1>2, <2>1, <2>3, MoveKeeps DEF IncrCount, QuotaInv, QuotaTypeOK
  <2> QED
    BY <1>2, <2>2, <2>3 DEF IncrCount
<1>3. ASSUME NEW r \in Requests, LookAtCount(r) PROVE QuotaInv'
  <2>1. CASE request' = [request EXCEPT ![r] = "refund"] /\ UNCHANGED <<charged, stale>>
    BY <1>3, <2>1, MoveKeeps DEF LookAtCount, QuotaInv, QuotaTypeOK
  <2>2. CASE /\ Left <= 0 /\ request' = [request EXCEPT ![r] = "rejected"]
             /\ charged' = charged \ {r}
             /\ stale' = IF r \in charged THEN stale - 1 ELSE stale
    <3>1. count = Missing => charged = {}
      BY DEF QuotaInv, QuotaTypeOK
    <3>2. /\ request[r] \in {"over", "refund"} /\ count' = count /\ faults' = faults
          /\ stale \in Int /\ (count # Missing => count \in Int /\ count <= 0)
      BY <1>3, <2>2 DEF LookAtCount, QuotaInv, QuotaTypeOK, Left
    <3>3. count # Missing =>
               /\ count' \in Int /\ stale' \in Int
               /\ count' + stale' = count + stale - (IF r \in charged THEN 1 ELSE 0)
               /\ stale' >= stale \/ count' <= 0
      BY <2>2, <3>2
    <3>4. count = Missing => count' = Missing /\ stale' = stale
      BY <2>2, <3>1, <3>2
    <3> QED
      BY <2>2, <3>2, <3>3, <3>4, ReturnKeeps
  <2> QED
    BY <1>3, <2>1, <2>2 DEF LookAtCount
<1>4. ASSUME NEW r \in Requests, Refund(r) PROVE QuotaInv'
  <2>1. /\ request[r] \in {"over", "refund"} /\ faults' = faults
        /\ request' = [request EXCEPT ![r] = "rejected"] /\ charged' = charged \ {r}
        /\ count = Missing => count' = Missing /\ stale' = stale
    BY <1>4 DEF Refund
  <2>2. stale \in Int /\ (count # Missing => count \in Int)
    BY DEF QuotaInv, QuotaTypeOK
  <2>3. count # Missing =>
               /\ count' = count - 1
               /\ stale' = IF r \notin charged THEN stale + 1 ELSE stale
    BY <1>4 DEF Refund
  <2>4. count # Missing =>
               /\ count' \in Int /\ stale' \in Int
               /\ count' + stale' = count + stale - (IF r \in charged THEN 1 ELSE 0)
               /\ stale' >= stale \/ count' <= 0
    BY <2>2, <2>3
  <2> QED
    BY <2>1, <2>4, ReturnKeeps
<1>5. ASSUME NEW r \in Requests, RequestDies(r) PROVE QuotaInv'
  <2>1. faults' \in Nat
    BY <1>5 DEF RequestDies, QuotaInv, QuotaTypeOK
  <2> QED
    BY <1>5, <2>1, MoveKeeps DEF RequestDies
<1>6. CASE EvictCount
  <2>1. QuotaTypeOK'
    BY <1>6 DEF EvictCount, QuotaInv, QuotaTypeOK
  <2>2. Admitted' = {} /\ Cardinality({}) = 0
    BY <1>6, FS_EmptySet DEF EvictCount, Admitted
  <2> QED
    BY <1>6, <2>1, <2>2, SearchQuotaConstants DEF EvictCount, QuotaInv, Balanced, QuotaHolds
<1> QED
  BY <1>1, <1>2, <1>3, <1>4, <1>5, <1>6 DEF QuotaNext

\* The stream only counts faults of its own.
LEMMA QuotaKept ==
    ASSUME QuotaInv, UNCHANGED <<request, count, charged, stale>>, faults' \in Nat
    PROVE  QuotaInv'
<1>1. Admitted' = Admitted
  BY DEF Admitted
<1> QED
  BY <1>1 DEF QuotaInv, QuotaTypeOK, Balanced, QuotaHolds

-----------------------------------------------------------------------------
(* The stream. *)

\* The pipeline is under way only while the producer waits for it, and nothing before the
\* stream begins.
Staged ==
    /\ task[Pipe] \in {"collect", "score", "wait", "rank", "gather"} => task[Prod] = "run"
    /\ task[Prod] \in {"none", "run", "wait", "rank", "index", "over"}
    /\ task[Prod] = "run" => task[Pipe] # "none"
    /\ IF consumer = "none" THEN \A t \in Tasks : task[t] = "none" ELSE task[Prod] # "none"
    /\ ended => task[Prod] = "over"
    /\ hand \in Seq(Results)

\* What has been emitted, and is about to be, is relevant and found; who ranks has it all.
Shown ==
    /\ last \subseteq allDocs \cap Relevant
    /\ \A t \in Tasks : task[t] = "rank" =>
           last \subseteq ranking[t] /\ ranking[t] \subseteq allDocs \cap Relevant

\* From the end of a pipeline that was not cut short, no task is left to add a document: the
\* last ranking is of them all.
Completing ==
    reason = "complete" =>
        /\ task[Prod] \in {"wait", "rank", "index"} \/ ended => \A d \in Docs : Over(d)
        /\ task[Prod] = "rank" => ranking[Prod] = allDocs \cap Relevant
        /\ (task[Prod] = "index" \/ ended) /\ ~lastFailed => last \in Cut(allDocs \cap Relevant)

StreamInv == StreamTypeOK /\ Staged /\ Shown /\ Completing

\* What is shown is from what was found; it is all of it, or full.
LEMMA CutFrom ==
    ASSUME NEW found, NEW shown \in Cut(found)
    PROVE  shown \subseteq found /\ (shown = found \/ Cardinality(shown) = FinalLimit)
BY DEF Cut

LEMMA CutNone == {} \in Cut({})
BY FS_EmptySet, SearchConstants DEF Cut

\* The stages a task can be at.
Stages == {"none", "collect", "score", "wait", "rank", "gather", "crawl", "links", "run",
           "index", "over"}

\* One task moves and the lock stays where it is.
LEMMA MoveTyped ==
    ASSUME StreamTypeOK, NEW t \in Tasks, NEW stage \in Stages \ {"rank"}, task[t] # "rank",
           task' = [task EXCEPT ![t] = stage], UNCHANGED <<holder, ranking>>
    PROVE  /\ task' \in [Tasks -> Stages] /\ task'[t] = stage
           /\ \A u \in Tasks : u # t => task'[u] = task[u]
           /\ \A u \in Tasks : /\ task'[u] = "rank" <=> holder' = u
                               /\ task'[u] # "rank" => ranking'[u] = {}
<1>1. /\ task' \in [Tasks -> Stages] /\ task'[t] = stage
      /\ \A u \in Tasks : u # t => task'[u] = task[u]
  BY DEF StreamTypeOK, Stages
<1>2. ASSUME NEW u \in Tasks
      PROVE  /\ task'[u] = "rank" <=> holder' = u
             /\ task'[u] # "rank" => ranking'[u] = {}
  <2>1. CASE u = t
    BY <1>1, <2>1 DEF StreamTypeOK
  <2>2. CASE u # t
    BY <1>1, <2>2 DEF StreamTypeOK
  <2> QED
    BY <2>1, <2>2
<1> QED
  BY <1>1, <1>2

\* Stopping tasks releases the lock if one of them holds it.
LEMMA StopTyped ==
    ASSUME StreamTypeOK, NEW S \in SUBSET Tasks, NEW stage \in {"wait", "over"}, Stop(S, stage),
           task[Prod] # "rank" \/ Prod \in S
    PROVE  /\ task' \in [Tasks -> Stages] /\ task'[Prod] = stage
           /\ \A u \in Tasks : u # Prod =>
                  task'[u] = IF u \in S /\ task[u] # "none" THEN "over" ELSE task[u]
           /\ holder' \in Tasks \cup {NoTask} /\ ranking' \in [Tasks -> SUBSET Docs]
           /\ \A u \in Tasks : /\ task'[u] = "rank" <=> holder' = u
                               /\ task'[u] # "rank" => ranking'[u] = {}
           /\ \A u \in Tasks : task'[u] = "rank" => task[u] = "rank" /\ ranking'[u] = ranking[u]
<1>1. Prod \in Tasks /\ NoTask \notin Tasks
  BY SearchConstants DEF Tasks
<1>2. /\ task' \in [Tasks -> Stages] /\ task'[Prod] = stage
      /\ \A u \in Tasks : u # Prod =>
             task'[u] = IF u \in S /\ task[u] # "none" THEN "over" ELSE task[u]
  BY <1>1 DEF StreamTypeOK, Stages, Stop
<1>3. /\ holder' \in Tasks \cup {NoTask} /\ ranking' \in [Tasks -> SUBSET Docs]
      /\ \A u \in Tasks : ranking'[u] = IF u \in S THEN {} ELSE ranking[u]
      /\ holder' = IF holder \in S THEN NoTask ELSE holder
  BY DEF StreamTypeOK, Stop
<1>4. ASSUME NEW u \in Tasks
      PROVE  /\ task'[u] = "rank" <=> holder' = u
             /\ task'[u] # "rank" => ranking'[u] = {}
             /\ task'[u] = "rank" => task[u] = "rank" /\ ranking'[u] = ranking[u]
  <2>1. (task[u] = "rank" <=> holder = u) /\ (task[u] # "rank" => ranking[u] = {})
    BY DEF StreamTypeOK
  <2>2. CASE u \in S
    BY <1>1, <1>2, <1>3, <2>1, <2>2
  <2>3. CASE u \notin S
    <3>1. task'[u] # "rank" <=> task[u] # "rank"
      BY <1>2, <2>3
    <3> QED
      BY <1>1, <1>2, <1>3, <2>1, <2>3, <3>1
  <2> QED
    BY <2>2, <2>3
<1> QED
  BY <1>2, <1>3, <1>4

\* A step that moves one task, not to or from a ranking, and only adds documents.
LEMMA MoveShown ==
    ASSUME StreamInv, NEW t \in Tasks, NEW stage \in Stages \ {"rank"}, task[t] # "rank",
           task' = [task EXCEPT ![t] = stage],
           UNCHANGED <<reason, holder, ranking, last, lastFailed>>,
           consumer' \in {"none", "reading", "ended", "gone"}, ended' \in BOOLEAN,
           pending' \subseteq Sources, allDocs \subseteq allDocs', allDocs' \subseteq Docs
    PROVE  StreamTypeOK' /\ Shown'
<1>1. /\ task' \in [Tasks -> Stages] /\ task'[t] = stage
      /\ \A u \in Tasks : u # t => task'[u] = task[u]
      /\ \A u \in Tasks : /\ task'[u] = "rank" <=> holder' = u
                          /\ task'[u] # "rank" => ranking'[u] = {}
  BY MoveTyped DEF StreamInv
<1>2. StreamTypeOK'
  BY <1>1 DEF StreamInv, StreamTypeOK, Stages
<1>3. \A u \in Tasks : task'[u] = "rank" => task[u] = "rank"
  BY <1>1
<1>4. Shown'
  BY <1>3 DEF StreamInv, Shown
<1> QED
  BY <1>2, <1>4

\* The tasks that are not documents.
LEMMA TaskNames == /\ Pipe \in Tasks /\ Prod \in Tasks /\ Pipe # Prod /\ NoTask \notin Tasks
                   /\ Docs \subseteq Tasks /\ Pipe \notin Docs /\ Prod \notin Docs
BY SearchConstants DEF Tasks

\* A step of the pipeline that does not end it.
LEMMA PipeKeeps ==
    ASSUME StreamInv, NEW stage \in {"collect", "score", "gather"},
           task[Pipe] \in {"collect", "score", "wait"},
           task' = [task EXCEPT ![Pipe] = stage],
           UNCHANGED <<consumer, reason, ended, allDocs, holder, ranking, last, lastFailed>>,
           pending' \subseteq Sources, hand' \in Seq(Results)
    PROVE  StreamInv'
<1>1. /\ task' \in [Tasks -> Stages] /\ task'[Pipe] = stage
      /\ \A u \in Tasks : u # Pipe => task'[u] = task[u]
  BY MoveTyped, TaskNames DEF StreamInv, Stages
<1>2. StreamTypeOK' /\ Shown'
  BY MoveShown, TaskNames DEF StreamInv, StreamTypeOK, Stages
<1>3. task[Prod] = "run" /\ task'[Prod] = "run"
  BY <1>1, TaskNames DEF StreamInv, Staged
<1>4. Staged'
  BY <1>1, <1>3, TaskNames DEF StreamInv, Staged
<1>5. Completing'
  BY <1>3, <1>4 DEF StreamInv, Staged, Completing
<1> QED
  BY <1>2, <1>4, <1>5 DEF StreamInv

LEMMA StartKeeps == StreamInv /\ StartStream => StreamInv'
<1> SUFFICES ASSUME StreamInv, StartStream PROVE StreamInv'
  OBVIOUS
<1>1. \A t \in Tasks : task[t] = "none"
  BY DEF StreamInv, Staged, StartStream
<1>2. /\ task' \in [Tasks -> Stages] /\ task'[Pipe] = "collect" /\ task'[Prod] = "run"
      /\ \A t \in Tasks : t # Pipe /\ t # Prod => task'[t] = "none"
  BY <1>1, TaskNames DEF StreamInv, StreamTypeOK, Stages, StartStream
<1>3. \A t \in Tasks : task'[t] # "rank"
  BY <1>2
<1>4. StreamTypeOK'
  <2>1. \A t \in Tasks : holder' # t /\ ranking'[t] = {}
    BY <1>1 DEF StreamInv, StreamTypeOK, StartStream
  <2> QED
    BY <1>2, <1>3, <2>1 DEF StreamInv, StreamTypeOK, StartStream, Stages, pipeVars
<1>5. Staged' /\ Shown'
  BY <1>2, <1>3, TaskNames DEF StreamInv, Staged, Shown, StartStream, pipeVars
<1>6. Completing'
  BY <1>2, <1>5 DEF Completing, Staged
<1> QED
  BY <1>4, <1>5, <1>6 DEF StreamInv

LEMMA SourceKeeps == ASSUME NEW s \in Sources PROVE StreamInv /\ SourceReturns(s) => StreamInv'
<1> SUFFICES ASSUME StreamInv, SourceReturns(s) PROVE StreamInv'
  OBVIOUS
<1>1. pending' \subseteq Sources /\ Resume(pending') \in {"collect", "gather"}
  BY DEF StreamInv, StreamTypeOK, SourceReturns, Resume
<1>2. hand' \in Seq(Results)
  BY SearchConstants DEF StreamInv, Staged, SourceReturns
<1>3. CASE task' = [task EXCEPT ![Pipe] = Resume(pending')]
  BY <1>1, <1>2, <1>3, PipeKeeps DEF SourceReturns
<1>4. CASE task' = [task EXCEPT ![Pipe] = "score"]
  BY <1>1, <1>2, <1>4, PipeKeeps DEF SourceReturns
<1> QED
  BY <1>3, <1>4 DEF SourceReturns

LEMMA PromoteKeeps == StreamInv /\ PromoteDocs => StreamInv'
<1> SUFFICES ASSUME StreamInv, PromoteDocs PROVE StreamInv'
  OBVIOUS
<1>1. /\ task' \in [Tasks -> Stages] /\ task'[Pipe] = "wait" /\ task'[Prod] = "run"
      /\ \A t \in Tasks : task'[t] = "rank" <=> task[t] = "rank"
  <2>1. task[Pipe] = "score" /\ task[Prod] = "run"
    BY DEF PromoteDocs, StreamInv, Staged
  <2>2. /\ task' \in [Tasks -> Stages]
        /\ \A t \in Tasks : t # Pipe => task'[t] = task[t] \/ (task[t] = "none" /\ task'[t] = "crawl")
    BY DEF PromoteDocs, StreamInv, StreamTypeOK, Stages
  <2>3. task'[Pipe] = "wait"
    BY TaskNames DEF PromoteDocs
  <2> QED
    BY <2>1, <2>2, <2>3, TaskNames
<1>2. allDocs \subseteq allDocs' /\ allDocs' \subseteq Docs
  <2>1. Urls(ToSet(hand)) \subseteq Docs
    <3>1. ToSet(hand) \subseteq Results
      BY DEF StreamInv, Staged, ToSet
    <3> QED
      BY <3>1 DEF Urls, Results
  <2> QED
    BY <2>1 DEF PromoteDocs, StreamInv, StreamTypeOK
<1>3. StreamTypeOK'
  BY <1>1, <1>2 DEF PromoteDocs, StreamInv, StreamTypeOK, Stages
<1>4. Shown'
  BY <1>1, <1>2 DEF PromoteDocs, StreamInv, Shown
<1>5. Staged'
  <2>1. hand' \in Seq(Results)
    BY DEF PromoteDocs
  <2>2. consumer' # "none" /\ ~ended'
    BY <1>1, TaskNames DEF PromoteDocs, StreamInv, Staged
  <2> QED
    BY <1>1, <2>1, <2>2 DEF Staged
<1>6. Completing'
  BY <1>1, <1>5 DEF Completing, Staged
<1> QED
  BY <1>3, <1>4, <1>5, <1>6 DEF StreamInv

LEMMA GatherKeeps == StreamInv /\ Gather => StreamInv'
<1> SUFFICES ASSUME StreamInv, Gather PROVE StreamInv'
  OBVIOUS
<1>1. /\ task' \in [Tasks -> Stages] /\ task'[Pipe] = "over" /\ task'[Prod] = "wait"
      /\ task[Prod] = "run" /\ \A t \in Tasks : t # Pipe /\ t # Prod => task'[t] = task[t]
  BY TaskNames DEF Gather, StreamInv, StreamTypeOK, Staged, Stages
<1>2. \A t \in Tasks : task'[t] = "rank" <=> task[t] = "rank"
  BY <1>1, TaskNames DEF Gather
<1>3. StreamTypeOK' /\ Shown'
  BY <1>1, <1>2, TaskNames DEF Gather, StreamInv, StreamTypeOK, Shown, Stages, pipeVars
<1>4. Staged'
  BY <1>1, TaskNames DEF Gather, StreamInv, Staged, pipeVars
<1>5. Completing'
  <2>1. \A d \in Docs : Over(d)'
    BY <1>1, TaskNames DEF Gather, Over
  <2>2. ~ended'
    BY <1>1, <1>4 DEF Staged
  <2> QED
    BY <1>1, <2>1, <2>2 DEF Completing
<1> QED
  BY <1>3, <1>4, <1>5 DEF StreamInv

\* A task that follows links goes on.
LEMMA FollowKeeps ==
    ASSUME StreamInv, NEW d \in Docs, task[d] \in {"crawl", "links", "wait"},
           NEW stage \in {"over", "wait", "links"}, task' = [task EXCEPT ![d] = stage],
           UNCHANGED <<consumer, reason, ended, pending, hand, holder, ranking, last, lastFailed>>,
           allDocs \subseteq allDocs', allDocs' \subseteq Docs
    PROVE  StreamInv'
<1>1. /\ task' \in [Tasks -> Stages] /\ task'[d] = stage
      /\ \A u \in Tasks : u # d => task'[u] = task[u]
  BY MoveTyped, TaskNames DEF StreamInv, Stages
<1>2. StreamTypeOK' /\ Shown'
  <2>1. /\ d \in Tasks /\ stage \in Stages \ {"rank"} /\ task[d] # "rank"
        /\ pending' \subseteq Sources /\ ended' \in BOOLEAN
        /\ consumer' \in {"none", "reading", "ended", "gone"}
    BY TaskNames DEF StreamInv, StreamTypeOK, Stages
  <2> QED
    BY <2>1, MoveShown
<1>3. task'[Prod] = task[Prod] /\ task'[Pipe] = task[Pipe]
  BY <1>1, TaskNames
<1>4. Staged'
  BY <1>1, <1>3, TaskNames DEF StreamInv, Staged
<1>5. ~Over(d)
  BY DEF Over
<1>6. Completing'
  BY <1>3, <1>5 DEF StreamInv, Completing
<1> QED
  BY <1>2, <1>4, <1>6 DEF StreamInv

\* The producer goes on to index.
LEMMA IndexNext ==
    ASSUME StreamInv, task[Prod] \in {"wait", "rank"},
           task'[Prod] = "index", \A u \in Tasks : u # Prod => task'[u] = task[u],
           UNCHANGED <<consumer, reason, ended, allDocs, hand>>,
           reason = "complete" /\ ~lastFailed' => last' \in Cut(allDocs \cap Relevant)
    PROVE  Staged' /\ Completing'
<1>1. Staged'
  BY TaskNames DEF StreamInv, Staged
<1>2. Completing'
  <2>1. ~ended'
    BY <1>1 DEF Staged
  <2>2. reason = "complete" => \A d \in Docs : Over(d)'
    BY TaskNames DEF StreamInv, Completing, Over
  <2> QED
    BY <2>1, <2>2 DEF Completing
<1> QED
  BY <1>1, <1>2

LEMMA RankKeeps == ASSUME NEW t \in Tasks PROVE StreamInv /\ Rank(t) => StreamInv'
<1> SUFFICES ASSUME StreamInv, Rank(t) PROVE StreamInv'
  OBVIOUS
<1>1. CASE allDocs \cap Relevant = {}
  <2>1. /\ task' = [task EXCEPT ![t] = Continue(t)] /\ task[t] = "wait"
        /\ UNCHANGED <<consumer, reason, ended, pending, hand, allDocs, holder, ranking, last,
                      lastFailed>>
    BY <1>1 DEF Rank, pipeVars
  <2>2. allDocs \subseteq Docs /\ pending \subseteq Sources /\ hand \in Seq(Results)
    BY DEF StreamInv, StreamTypeOK, Staged
  <2>3. CASE t = Pipe
    BY <2>1, <2>2, <2>3, PipeKeeps DEF Continue, Resume
  <2>4. CASE t = Prod
    <3>1. Continue(t) = "index"
      BY <2>4, TaskNames DEF Continue
    <3>2. StreamTypeOK' /\ Shown'
      BY <2>1, <2>2, <3>1, MoveShown DEF StreamInv, StreamTypeOK, Stages
    <3>3. task'[Prod] = "index" /\ \A u \in Tasks : u # Prod => task'[u] = task[u]
      BY <2>1, <2>4, <3>1, TaskNames DEF StreamInv, StreamTypeOK
    <3>4. last' \in Cut(allDocs \cap Relevant)
      <4>1. last' = {}
        BY <1>1, <2>1 DEF StreamInv, Shown
      <4> QED
        BY <1>1, <4>1, CutNone
    <3> QED
      BY <2>1, <2>4, <3>2, <3>3, <3>4, IndexNext DEF StreamInv
  <2>5. CASE t \in Docs
    BY <2>1, <2>2, <2>5, FollowKeeps, TaskNames DEF Continue
  <2> QED
    BY <2>3, <2>4, <2>5 DEF Tasks
<1>2. CASE allDocs \cap Relevant # {}
  <2>1. /\ task' = [task EXCEPT ![t] = "rank"] /\ task[t] = "wait" /\ holder = NoTask
        /\ holder' = t /\ ranking' = [ranking EXCEPT ![t] = allDocs \cap Relevant]
        /\ UNCHANGED <<consumer, reason, ended, pending, hand, allDocs, last, lastFailed>>
    BY <1>2 DEF Rank, pipeVars
  <2>2. /\ task' \in [Tasks -> Stages] /\ task'[t] = "rank"
        /\ \A u \in Tasks : u # t => task'[u] = task[u]
        /\ ranking' \in [Tasks -> SUBSET Docs] /\ ranking'[t] = allDocs \cap Relevant
        /\ \A u \in Tasks : u # t => ranking'[u] = ranking[u]
    BY <2>1 DEF StreamInv, StreamTypeOK, Stages
  <2>3. \A u \in Tasks : u # t => task[u] # "rank" /\ ranking[u] = {}
    BY <2>1, TaskNames DEF StreamInv, StreamTypeOK
  <2>4. \A u \in Tasks : /\ task'[u] = "rank" <=> holder' = u
                         /\ task'[u] # "rank" => ranking'[u] = {}
    BY <2>1, <2>2, <2>3
  <2>5. StreamTypeOK'
    <3>1. /\ holder' \in Tasks \cup {NoTask}
          /\ UNCHANGED <<consumer, reason, ended, pending, allDocs, last, lastFailed>>
      BY <2>1
    <3>2. /\ consumer' \in {"none", "reading", "ended", "gone"}
          /\ reason' \in {"complete", "timed_out", "cancelled", "error"}
          /\ ended' \in BOOLEAN /\ lastFailed' \in BOOLEAN
          /\ pending' \subseteq Sources
          /\ allDocs' \subseteq Docs /\ last' \subseteq Docs
      BY <3>1 DEF StreamInv, StreamTypeOK
    <3>3. task' \in [Tasks -> Stages] /\ ranking' \in [Tasks -> SUBSET Docs]
      BY <2>2
    <3> QED
      BY <2>4, <3>1, <3>2, <3>3 DEF StreamTypeOK, Stages
  <2>6. Shown'
    BY <2>1, <2>2, <2>3 DEF StreamInv, Shown
  <2>7. Staged'
    BY <2>1, <2>2, TaskNames DEF StreamInv, Staged
  <2>8. Completing'
    <3>1. CASE t = Pipe
      BY <2>1, <2>2, <2>7, <3>1, TaskNames DEF StreamInv, Staged, Completing
    <3>2. CASE t = Prod
      <4>1. reason = "complete" => \A d \in Docs : Over(d)'
        BY <2>1, <2>2, <3>2, TaskNames DEF StreamInv, Completing, Over
      <4> QED
        BY <2>1, <2>2, <2>7, <3>2, <4>1 DEF Staged, Completing
    <3>3. CASE t \in Docs
      BY <2>1, <2>2, <3>3, TaskNames DEF StreamInv, Completing, Over
    <3> QED
      BY <3>1, <3>2, <3>3 DEF Tasks
  <2> QED
    BY <2>5, <2>6, <2>7, <2>8 DEF StreamInv
<1> QED
  BY <1>1, <1>2

\* A ranking ends, with its results emitted or not.
LEMMA RankedKeeps ==
    ASSUME StreamInv, NEW t \in Tasks, task[t] = "rank",
           task' = [task EXCEPT ![t] = Continue(t)],
           holder' = NoTask, ranking' = [ranking EXCEPT ![t] = {}],
           UNCHANGED <<consumer, reason, ended, pending, hand, allDocs>>,
           \/ last' \in Cut(ranking[t]) /\ lastFailed' = lastFailed
           \/ t # Pipe /\ last' = last /\ lastFailed' = (lastFailed \/ t = Prod)
    PROVE  StreamInv'
<1>1. Continue(t) \in Stages \ {"rank"}
  BY DEF Continue, Resume, Stages
<1>2. /\ task' \in [Tasks -> Stages] /\ task'[t] = Continue(t)
      /\ \A u \in Tasks : u # t => task'[u] = task[u]
      /\ ranking' \in [Tasks -> SUBSET Docs] /\ ranking'[t] = {}
      /\ \A u \in Tasks : u # t => ranking'[u] = ranking[u]
  BY <1>1 DEF StreamInv, StreamTypeOK, Stages
<1>3. \A u \in Tasks : u # t => task[u] # "rank" /\ ranking[u] = {}
  BY DEF StreamInv, StreamTypeOK
<1>4. \A u \in Tasks : task'[u] # "rank" /\ ranking'[u] = {} /\ holder' # u
  BY <1>1, <1>2, <1>3, TaskNames
<1>5. last' \subseteq allDocs' \cap Relevant
  BY CutFrom DEF StreamInv, Shown
<1>6. StreamTypeOK'
  <2>1. last' \subseteq Docs /\ lastFailed' \in BOOLEAN
    BY <1>5 DEF StreamInv, StreamTypeOK
  <2> QED
    BY <1>2, <1>4, <2>1 DEF StreamInv, StreamTypeOK, Stages
<1>7. Shown'
  BY <1>4, <1>5 DEF Shown
<1>8. Staged' /\ Completing'
  <2>1. CASE t = Pipe
    <3>1. task'[Pipe] \in {"collect", "gather"} /\ task[Prod] = "run" /\ task'[Prod] = "run"
      BY <1>2, <2>1, TaskNames DEF Continue, Resume, StreamInv, Staged
    <3>2. Staged'
      BY <3>1, TaskNames DEF StreamInv, Staged
    <3> QED
      BY <3>1, <3>2 DEF Staged, Completing
  <2>2. CASE t = Prod
    <3>1. task'[Prod] = "index"
      BY <1>2, <2>2, TaskNames DEF Continue
    <3>2. reason = "complete" /\ ~lastFailed' => last' \in Cut(allDocs \cap Relevant)
      BY <2>2 DEF StreamInv, Completing
    <3> QED
      BY <1>2, <2>2, <3>1, <3>2, IndexNext
  <2>3. CASE t \in Docs
    <3>1. task'[Prod] = task[Prod] /\ task'[Pipe] = task[Pipe] /\ ~Over(t)
      BY <1>2, <2>3, TaskNames DEF Over
    <3>2. Staged'
      BY <3>1, TaskNames DEF StreamInv, Staged
    <3>3. Completing'
      BY <2>3, <3>1 DEF StreamInv, Completing
    <3> QED
      BY <3>2, <3>3
  <2> QED
    BY <2>1, <2>2, <2>3 DEF Tasks
<1> QED
  BY <1>6, <1>7, <1>8 DEF StreamInv

\* Tasks are stopped, and the producer goes on to its last ranking or to its end.
LEMMA StopKeeps ==
    ASSUME StreamInv, NEW S \in SUBSET Tasks, NEW stage \in {"wait", "over"}, Stop(S, stage),
           Pipe \in S \/ task[Prod] \notin {"none", "run"}, task[Prod] # "rank" \/ Prod \in S,
           task[Prod] # "none",
           UNCHANGED <<pending, hand, allDocs, last, lastFailed>>,
           consumer' \in {"gone", consumer}, ended' \in BOOLEAN, ended' => stage = "over",
           \/ reason' \in {"timed_out", "cancelled", "error"}
           \/ reason' = reason /\ stage = "over" /\ ended' = ended
    PROVE  StreamInv'
<1>1. /\ task' \in [Tasks -> Stages] /\ task'[Prod] = stage
      /\ \A u \in Tasks : u # Prod =>
             task'[u] = IF u \in S /\ task[u] # "none" THEN "over" ELSE task[u]
      /\ holder' \in Tasks \cup {NoTask} /\ ranking' \in [Tasks -> SUBSET Docs]
      /\ \A u \in Tasks : /\ task'[u] = "rank" <=> holder' = u
                          /\ task'[u] # "rank" => ranking'[u] = {}
      /\ \A u \in Tasks : task'[u] = "rank" => task[u] = "rank" /\ ranking'[u] = ranking[u]
  BY StopTyped DEF StreamInv
<1>2. StreamTypeOK'
  BY <1>1 DEF StreamInv, StreamTypeOK, Stages
<1>3. Shown'
  BY <1>1 DEF StreamInv, Shown
<1>4. task'[Pipe] \notin {"collect", "score", "wait", "rank", "gather"}
  <2>1. CASE Pipe \in S
    BY <1>1, <2>1, TaskNames
  <2>2. CASE task[Prod] \notin {"none", "run"}
    BY <1>1, <2>2, TaskNames DEF StreamInv, Staged
  <2> QED
    BY <2>1, <2>2
<1>5. Staged'
  BY <1>1, <1>4 DEF StreamInv, Staged
<1>6. Completing'
  <2>1. CASE reason' # "complete"
    BY <2>1 DEF Completing
  <2>2. CASE reason' = reason /\ stage = "over" /\ ended' = ended
    <3>1. \A d \in Docs : Over(d) => Over(d)'
      BY <1>1, TaskNames DEF Over
    <3> QED
      BY <1>1, <2>2, <3>1 DEF StreamInv, Completing
  <2> QED
    BY <2>1, <2>2
<1> QED
  BY <1>2, <1>3, <1>5, <1>6 DEF StreamInv

\* Every step of the stream keeps both invariants.
LEMMA StreamStep == QuotaInv /\ StreamInv /\ (StartStream \/ StreamNext) => QuotaInv' /\ StreamInv'
<1> SUFFICES ASSUME QuotaInv, StreamInv, StartStream \/ StreamNext PROVE QuotaInv' /\ StreamInv'
  OBVIOUS
<1> USE DEF pipeVars
<1>1. faults \in Nat /\ faults + 1 \in Nat
  BY DEF QuotaInv, QuotaTypeOK
<1>2. CASE StartStream
  BY <1>1, <1>2, StartKeeps, QuotaKept DEF StartStream, quotaVars
<1>3. ASSUME NEW s \in Sources, SourceReturns(s) PROVE QuotaInv' /\ StreamInv'
  BY <1>1, <1>3, SourceKeeps, QuotaKept DEF SourceReturns, quotaVars
<1>4. CASE PromoteDocs
  BY <1>1, <1>4, PromoteKeeps, QuotaKept DEF PromoteDocs, quotaVars
<1>5. CASE Gather
  BY <1>1, <1>5, GatherKeeps, QuotaKept DEF Gather, quotaVars
<1>6. ASSUME NEW d \in Docs, CrawlPage(d) PROVE QuotaInv' /\ StreamInv'
  <2>1. StreamInv'
    <3>1. allDocs \subseteq Docs
      BY DEF StreamInv, StreamTypeOK
    <3>2. PICK stage \in {"over", "wait", "links"} : task' = [task EXCEPT ![d] = stage]
      BY <1>6 DEF CrawlPage
    <3> QED
      BY <1>6, <3>1, <3>2, FollowKeeps DEF CrawlPage
  <2> QED
    BY <1>1, <1>6, <2>1, QuotaKept DEF CrawlPage, quotaVars
<1>7. ASSUME NEW d \in Docs, CrawlLinks(d) PROVE QuotaInv' /\ StreamInv'
  <2>1. allDocs \subseteq allDocs' /\ allDocs' \subseteq Docs
    BY <1>7 DEF CrawlLinks, StreamInv, StreamTypeOK
  <2> QED
    BY <1>1, <1>7, <2>1, FollowKeeps, QuotaKept DEF CrawlLinks, quotaVars
<1>8. ASSUME NEW t \in Tasks, Rank(t) PROVE QuotaInv' /\ StreamInv'
  BY <1>1, <1>8, RankKeeps, QuotaKept DEF Rank, quotaVars
<1>9. ASSUME NEW t \in Tasks, Emit(t) PROVE QuotaInv' /\ StreamInv'
  BY <1>1, <1>9, RankedKeeps, QuotaKept DEF Emit, quotaVars
<1>10. ASSUME NEW t \in Tasks, RankingRaises(t) PROVE QuotaInv' /\ StreamInv'
  BY <1>1, <1>10, RankedKeeps, QuotaKept DEF RankingRaises
<1>11. CASE Deadline
  <2>1. Cancellable \in SUBSET Tasks /\ Pipe \in Cancellable
    BY TaskNames DEF Cancellable
  <2>2. ended \in BOOLEAN /\ ~ended
    BY <1>11 DEF Deadline, StreamInv, StreamTypeOK, Staged
  <2> QED
    BY <1>1, <1>11, <2>1, <2>2, StopKeeps, QuotaKept DEF Deadline, quotaVars
<1>12. CASE PipelineRaises
  <2>1. {Pipe} \in SUBSET Tasks
    BY TaskNames
  <2> QED
    BY <1>1, <1>12, <2>1, StopKeeps, QuotaKept DEF PipelineRaises
<1>13. CASE IndexResults
  <2>1. StreamTypeOK' /\ Shown'
    <3>1. /\ allDocs \subseteq Docs /\ pending \subseteq Sources
          /\ consumer \in {"none", "reading", "ended", "gone"}
      BY DEF StreamInv, StreamTypeOK
    <3>2. "over" \in Stages \ {"rank"} /\ Prod \in Tasks /\ task[Prod] # "rank"
      BY <1>13, TaskNames DEF IndexResults, Stages
    <3> QED
      BY <1>13, <3>1, <3>2, MoveShown DEF IndexResults
  <2>2. task'[Prod] = "over" /\ \A u \in Tasks : u # Prod => task'[u] = task[u]
    BY <1>13, TaskNames DEF IndexResults, StreamInv, StreamTypeOK
  <2>3. Staged'
    BY <1>13, <2>2, TaskNames DEF IndexResults, StreamInv, Staged
  <2>4. Completing'
    <3>1. reason = "complete" => \A d \in Docs : Over(d)'
      BY <1>13, <2>2, TaskNames DEF IndexResults, StreamInv, Completing, Over
    <3>2. reason = "complete" /\ ~lastFailed => last \in Cut(allDocs \cap Relevant)
      BY <1>13 DEF IndexResults, StreamInv, Completing
    <3> QED
      BY <1>13, <2>2, <3>1, <3>2 DEF IndexResults, Completing
  <2> QED
    BY <1>1, <1>13, <2>1, <2>3, <2>4, QuotaKept DEF IndexResults, quotaVars, StreamInv
<1>14. CASE EndStream
  <2>1. \A d \in Docs : Over(d)' = Over(d)
    BY <1>14 DEF EndStream, Over
  <2>2. StreamTypeOK' /\ Staged' /\ Shown' /\ Completing'
    BY <1>14, <2>1 DEF EndStream, StreamInv, StreamTypeOK, Staged, Shown, Completing
  <2> QED
    BY <1>1, <1>14, <2>2, QuotaKept DEF EndStream, quotaVars, StreamInv
<1>15. CASE ClientGoes
  <2>1. Cancellable \in SUBSET Tasks /\ Pipe \in Cancellable
    BY TaskNames DEF Cancellable
  <2>2. task[Prod] # "none" /\ ended \in BOOLEAN /\ {Prod} \in SUBSET Tasks
    BY <1>15, TaskNames DEF ClientGoes, StreamInv, StreamTypeOK, Staged
  <2>3. CASE /\ task[Prod] = "run" /\ reason' = "cancelled" /\ ended' = TRUE
             /\ Stop(Cancellable, "over")
    BY <1>1, <1>15, <2>1, <2>2, <2>3, StopKeeps, QuotaKept DEF ClientGoes, quotaVars
  <2>4. CASE task[Prod] # "run" /\ Stop({Prod}, "over") /\ UNCHANGED <<reason, ended>>
    <3>1. ended => task[Prod] = "over"
      BY DEF StreamInv, Staged
    <3> QED
      BY <1>1, <1>15, <2>2, <2>4, StopKeeps, QuotaKept DEF ClientGoes, quotaVars
  <2> QED
    BY <1>15, <2>3, <2>4 DEF ClientGoes
<1> QED
  BY <1>2, <1>3, <1>4, <1>5, <1>6, <1>7, <1>8, <1>9, <1>10, <1>11, <1>12, <1>13, <1>14, <1>15
  DEF StreamNext

-----------------------------------------------------------------------------
(* The top K. *)

\* Induction, in the form in which it needs no operator: a set of numbers that is not empty
\* has a least element.
LEMMA Least ==
    ASSUME NEW T \in SUBSET Nat, T # {}
    PROVE  \E n \in T : \A m \in T : n <= m
<1> DEFINE R == {ss \in Nat \X Nat : ss[1] < ss[2]}
<1>1. IsWellFoundedOn(R, Nat)
  BY NatLessThanWellFounded, Zenon DEF OpToRel
<1>2. PICK n \in T : \A m \in T : ~(<<m, n>> \in R)
  BY <1>1, WFMin
<1>3. \A m \in T : ~(m < n)
  BY <1>2 DEF OpToRel
<1> QED
  BY <1>3

LEMMA Induction ==
    ASSUME NEW S \in SUBSET Nat, 0 \in S, \A n \in S : n + 1 \in S
    PROVE  S = Nat
<1> SUFFICES ASSUME Nat \ S # {} PROVE FALSE
  OBVIOUS
<1>1. PICK n \in Nat \ S : \A m \in Nat \ S : n <= m
  BY Least
<1>2. n - 1 \in Nat /\ n - 1 \in S
  BY <1>1
<1> QED
  BY <1>1, <1>2

\* FoldLeft goes through the positions by means of a function on sets of positions.
Body(f, base, list, s) == IF s = {} THEN base ELSE Promote(f[s \ {Max(s)}], list[Max(s)])
Folds(f, base, list, dom) == f = [s \in SUBSET dom |-> Body(f, base, list, s)]

LEMMA MaxTop ==
    ASSUME NEW n \in Nat, NEW s \in SUBSET (1..n), n \in s PROVE Max(s) = n
<1>1. \A x \in s : (\A y \in s : x >= y) <=> x = n
  OBVIOUS
<1> QED
  BY <1>1 DEF Max

LEMMA FoldExists ==
    ASSUME NEW base, NEW list, NEW len \in Nat
    PROVE  \E f : Folds(f, base, list, 1..len)
<1> DEFINE Has(n) == \E f : Folds(f, base, list, 1..n)
           S == {n \in Nat : Has(n)}
<1>1. 0 \in S
  <2> DEFINE f == [s \in SUBSET (1..0) |-> base]
  <2>1. \A s \in SUBSET (1..0) : s = {}
    OBVIOUS
  <2>2. \A s \in SUBSET (1..0) : Body(f, base, list, s) = base
    BY <2>1 DEF Body
  <2>3. f = [s \in SUBSET (1..0) |-> Body(f, base, list, s)]
    BY <2>2
  <2> QED
    BY <2>3 DEF Folds
<1>2. ASSUME NEW n \in S PROVE n + 1 \in S
  <2>1. n \in Nat /\ 1..n \subseteq 1..(n + 1) /\ n + 1 \in 1..(n + 1) /\ n + 1 \notin 1..n
    OBVIOUS
  <2>2. PICK f : f = [s \in SUBSET (1..n) |-> Body(f, base, list, s)]
    BY DEF Folds
  <2> DEFINE g == [s \in SUBSET (1..(n + 1)) |->
                      IF n + 1 \in s THEN Promote(f[s \ {n + 1}], list[n + 1]) ELSE f[s]]
  <2>3. ASSUME NEW s \in SUBSET (1..(n + 1)) PROVE g[s] = Body(g, base, list, s)
    <3>1. CASE n + 1 \in s
      <4>1. Max(s) = n + 1 /\ s # {}
        BY <2>1, <3>1, MaxTop
      <4>2. s \ {n + 1} \in SUBSET (1..n) /\ s \ {n + 1} \in SUBSET (1..(n + 1))
        BY <2>1
      <4>3. g[s \ {n + 1}] = f[s \ {n + 1}]
        BY <4>2
      <4>4. g[s] = Promote(f[s \ {n + 1}], list[n + 1])
        BY <3>1
      <4> QED
        BY <4>1, <4>3, <4>4 DEF Body
    <3>2. CASE n + 1 \notin s
      <4>1. s \in SUBSET (1..n)
        BY <2>1, <3>2
      <4>2. g[s] = f[s] /\ f[s] = Body(f, base, list, s)
        BY <2>2, <3>2, <4>1
      <4>3. s \ {Max(s)} \in SUBSET (1..n) /\ s \ {Max(s)} \in SUBSET (1..(n + 1))
            /\ n + 1 \notin s \ {Max(s)}
        BY <2>1, <4>1
      <4>4. g[s \ {Max(s)}] = f[s \ {Max(s)}]
        BY <4>3
      <4> HIDE DEF g
      <4> QED
        BY <4>2, <4>4 DEF Body
    <3> QED
      BY <3>1, <3>2
  <2>4. g = [s \in SUBSET (1..(n + 1)) |-> Body(g, base, list, s)]
    <3>1. g = [s \in SUBSET (1..(n + 1)) |-> g[s]]
      OBVIOUS
    <3> HIDE DEF g
    <3> QED
      BY <2>3, <3>1
  <2> HIDE DEF g
  <2> QED
    BY <2>1, <2>4 DEF Folds
<1> HIDE DEF Has
<1>3. S = Nat
  <2> HIDE DEF S
  <2>1. S \in SUBSET Nat
    BY DEF S
  <2> QED
    BY <1>1, <1>2, <2>1, Induction
<1> QED
  BY <1>3 DEF Has

LEMMA FoldIs ==
    ASSUME NEW base, NEW list
    PROVE  FoldLeft(Promote, base, list)
               = (CHOOSE f : Folds(f, base, list, DOMAIN list))[DOMAIN list]
BY DEF FoldLeft, MapThenFoldSet, Folds, Body

\* A fold over a list, one element at a time.
LEMMA FoldSteps ==
    ASSUME NEW base, NEW list \in Seq(Results)
    PROVE  \E f : /\ f[0] = base
                  /\ \A n \in 0..(Len(list) - 1) : f[n + 1] = Promote(f[n], list[n + 1])
                  /\ FoldLeft(Promote, base, list) = f[Len(list)]
<1> DEFINE it == CHOOSE f : Folds(f, base, list, DOMAIN list)
           f == [n \in 0..Len(list) |-> it[1..n]]
<1>1. DOMAIN list = 1..Len(list) /\ Len(list) \in Nat
  OBVIOUS
<1>2. Folds(it, base, list, 1..Len(list))
  BY <1>1, FoldExists
<1>3. FoldLeft(Promote, base, list) = it[DOMAIN list]
  BY FoldIs
<1> HIDE DEF it
<1>4. \A s \in SUBSET (1..Len(list)) : it[s] = Body(it, base, list, s)
  BY <1>2 DEF Folds
<1>5. f[0] = base
  <2>1. 1..0 = {} /\ 1..0 \in SUBSET (1..Len(list)) /\ 0 \in 0..Len(list)
    BY <1>1
  <2> QED
    BY <1>4, <2>1 DEF Body
<1>6. ASSUME NEW n \in 0..(Len(list) - 1) PROVE f[n + 1] = Promote(f[n], list[n + 1])
  <2>1. n \in 0..Len(list) /\ n + 1 \in 0..Len(list) /\ n + 1 \in Nat
    BY <1>1
  <2>2. 1..(n + 1) \in SUBSET (1..Len(list)) /\ n + 1 \in 1..(n + 1)
    BY <1>1
  <2>3. Max(1..(n + 1)) = n + 1
    BY <2>1, <2>2, MaxTop
  <2>4. (1..(n + 1)) \ {n + 1} = 1..n
    BY <2>1
  <2>5. it[1..(n + 1)] = Promote(it[1..n], list[n + 1])
    BY <1>4, <2>2, <2>3, <2>4 DEF Body
  <2> QED
    BY <2>1, <2>5
<1>7. f[Len(list)] = it[DOMAIN list]
  BY <1>1
<1> HIDE DEF f
<1> QED
  BY <1>3, <1>5, <1>6, <1>7

-----------------------------------------------------------------------------
\* The live top K after results with the URLs in seen have come.
Best(top, seen) ==
    /\ IsFiniteSet(top.considered) /\ top.considered \subseteq Results
    /\ Urls(top.considered) = seen
    /\ top.heap \subseteq top.considered
    /\ Urls(top.heap) \subseteq top.promoted /\ top.promoted \subseteq seen
    /\ \A r \in top.considered \ top.heap, e \in top.heap : r.score <= e.score
    /\ Cardinality(top.heap) =
           IF Cardinality(top.considered) < TopK THEN Cardinality(top.considered) ELSE TopK

LEMMA LowestIs ==
    ASSUME NEW h \in SUBSET Results, h # {}
    PROVE  Lowest(h) \in h /\ \A e \in h : Lowest(h).score <= e.score
<1> DEFINE T == {e.score : e \in h}
<1>1. T \in SUBSET Nat /\ T # {}
  BY DEF Results
<1>2. PICK n \in T : \A m \in T : n <= m
  BY <1>1, Least
<1>3. \E r \in h : \A e \in h : r.score <= e.score
  BY <1>2
<1> QED
  BY <1>3 DEF Lowest

LEMMA SameCardinality ==
    ASSUME NEW S, IsFiniteSet(S), NEW T \in SUBSET S, Cardinality(T) = Cardinality(S)
    PROVE  T = S
BY FS_Subset

LEMMA UrlsAdd == ASSUME NEW S, NEW r PROVE Urls(S \cup {r}) = Urls(S) \cup {r.url}
BY DEF Urls

\* The next result to come: _maybe_promote.
LEMMA PromoteBest ==
    ASSUME NEW top, NEW seen, Best(top, seen), NEW r \in Results
    PROVE  Best(Promote(top, r), seen \cup {r.url})
<1> DEFINE low == Lowest(top.heap)
           all == top.considered \cup {r}
<1>1. /\ IsFiniteSet(top.heap) /\ Cardinality(top.heap) \in Nat
      /\ Cardinality(top.considered) \in Nat /\ TopK \in Nat \ {0}
      /\ Cardinality(top.heap) <= Cardinality(top.considered)
  <2>1. top.heap \in SUBSET top.considered
    BY DEF Best
  <2> QED
    BY <2>1, FS_Subset, FS_CardinalityType, SearchConstants DEF Best
<1>2. /\ IsFiniteSet(all) /\ all \subseteq Results /\ Cardinality(all) \in Nat
      /\ Cardinality(all) = IF r \in top.considered THEN Cardinality(top.considered)
                                                    ELSE Cardinality(top.considered) + 1
      /\ Urls(all) = seen \cup {r.url}
  BY FS_AddElement, FS_CardinalityType, UrlsAdd DEF Best
<1>3. \A e \in Results : e.score \in Nat
  BY DEF Results
<1>4. CASE r.url \in top.promoted
  <2>1. seen \cup {r.url} = seen
    BY <1>4 DEF Best
  <2> QED
    BY <1>4, <2>1 DEF Promote
<1> DEFINE enters(rest) == [heap |-> rest \cup {r}, promoted |-> top.promoted \cup {r.url},
                            considered |-> all]
<1>5. r.url \notin top.promoted => r \notin top.heap
  BY DEF Best, Urls
<1>6. CASE r.url \notin top.promoted /\ Cardinality(top.heap) < TopK
  <2>1. Promote(top, r) = enters(top.heap)
    BY <1>6 DEF Promote
  <2>2. top.heap = top.considered
    BY <1>1, <1>6, SameCardinality DEF Best
  <2>3. r \notin top.considered
    BY <1>5, <1>6, <2>2
  <2>4. Cardinality(all) = IF Cardinality(all) < TopK THEN Cardinality(all) ELSE TopK
    BY <1>1, <1>2, <1>6, <2>2, <2>3
  <2>5. enters(top.heap).heap = all /\ enters(top.heap).considered = all
        /\ enters(top.heap).promoted = top.promoted \cup {r.url}
    BY <2>2
  <2>6. Urls(all) \subseteq top.promoted \cup {r.url}
        /\ top.promoted \cup {r.url} \subseteq seen \cup {r.url}
    BY <2>2, UrlsAdd DEF Best
  <2> HIDE DEF all, enters
  <2> QED
    BY <1>2, <2>1, <2>4, <2>5, <2>6 DEF Best
<1>7. CASE r.url \notin top.promoted /\ ~(Cardinality(top.heap) < TopK)
  <2>1. /\ Cardinality(top.heap) = TopK /\ Cardinality(top.considered) >= TopK
        /\ top.heap # {}
    BY <1>1, <1>7, FS_EmptySet DEF Best
  <2>2. low \in top.heap /\ \A e \in top.heap : low.score <= e.score
    <3>1. top.heap \in SUBSET Results
      BY DEF Best
    <3> QED
      BY <2>1, <3>1, LowestIs
  <2>3. r \notin top.heap /\ low # r
    BY <1>5, <1>7, <2>2
  <2>4. Cardinality(all) >= TopK
    BY <1>1, <1>2, <2>1
  <2>5. CASE r.score > low.score
    <3> DEFINE new == (top.heap \ {low}) \cup {r}
    <3>1. Promote(top, r) = [heap |-> new, promoted |-> top.promoted \cup {r.url},
                             considered |-> all]
      BY <1>7, <2>5 DEF Promote
    <3>2. Cardinality(new) = TopK
      <4> DEFINE rest == top.heap \ {low}
      <4>1. IsFiniteSet(rest) /\ Cardinality(rest) = TopK - 1 /\ r \notin rest
        BY <1>1, <2>1, <2>2, <2>3, FS_RemoveElement
      <4> HIDE DEF rest
      <4>2. Cardinality(rest \cup {r}) = Cardinality(rest) + 1
        BY <4>1, FS_AddElement
      <4>3. Cardinality(rest \cup {r}) = TopK
        BY <1>1, <4>1, <4>2
      <4> QED
        BY <4>3 DEF rest
    <3>3. ASSUME NEW x \in all \ new, NEW e \in new PROVE x.score <= e.score
      <4>1. x.score <= low.score
        <5>1. CASE x = low
          BY <1>2, <1>3, <2>2, <5>1 DEF Best
        <5>2. CASE x # low
          BY <2>2, <5>2 DEF Best
        <5> QED
          BY <5>1, <5>2
      <4>2. low.score <= e.score
        <5>1. CASE e \in top.heap
          BY <2>2, <5>1
        <5>2. CASE e = r
          BY <1>2, <1>3, <2>2, <2>5, <5>2 DEF Best
        <5> QED
          BY <5>1, <5>2
      <4>3. x \in Results /\ e \in Results /\ low \in Results
        BY <1>2, <2>2 DEF Best
      <4> QED
        BY <1>3, <4>1, <4>2, <4>3
    <3>4. /\ Urls(new) \subseteq top.promoted \cup {r.url} /\ new \subseteq all
          /\ top.promoted \cup {r.url} \subseteq seen \cup {r.url}
      BY DEF Best, Urls
    <3> HIDE DEF new, all
    <3> QED
      BY <1>1, <1>2, <2>4, <3>1, <3>2, <3>3, <3>4 DEF Best
  <2>6. CASE ~(r.score > low.score)
    <3>1. Promote(top, r) = [heap |-> top.heap, promoted |-> top.promoted, considered |-> all]
      BY <1>7, <2>6 DEF Promote
    <3>2. ASSUME NEW x \in all \ top.heap, NEW e \in top.heap PROVE x.score <= e.score
      <4>1. CASE x \in top.considered
        BY <4>1 DEF Best
      <4>2. CASE x = r
        <5>1. r.score <= low.score /\ low.score <= e.score
          BY <1>2, <1>3, <2>2, <2>6 DEF Best
        <5>2. e \in Results /\ low \in Results
          BY <2>2 DEF Best
        <5> QED
          BY <1>3, <4>2, <5>1, <5>2
      <4> QED
        BY <4>1, <4>2
    <3>3. /\ top.heap \subseteq all /\ top.promoted \subseteq seen \cup {r.url}
          /\ Urls(top.heap) \subseteq top.promoted
      BY DEF Best
    <3> HIDE DEF all
    <3> QED
      BY <1>1, <1>2, <2>1, <2>4, <3>1, <3>2, <3>3 DEF Best
  <2> QED
    BY <2>5, <2>6
<1> QED
  BY <1>4, <1>6, <1>7

\* A whole list.
LEMMA FoldBest ==
    ASSUME NEW top, NEW seen, Best(top, seen), NEW list \in Seq(Results)
    PROVE  Best(FoldLeft(Promote, top, list), seen \cup Urls(ToSet(list)))
<1>1. PICK f : /\ f[0] = top
               /\ \A n \in 0..(Len(list) - 1) : f[n + 1] = Promote(f[n], list[n + 1])
               /\ FoldLeft(Promote, top, list) = f[Len(list)]
  BY FoldSteps
<1> DEFINE upTo(n) == seen \cup {list[i].url : i \in 1..n}
           S == {n \in Nat : n <= Len(list) => Best(f[n], upTo(n))}
<1>2. Len(list) \in Nat /\ \A i \in 1..Len(list) : list[i] \in Results
  OBVIOUS
<1>3. 0 \in S
  <2>1. upTo(0) = seen
    OBVIOUS
  <2> QED
    BY <1>1, <2>1
<1>4. ASSUME NEW n \in S PROVE n + 1 \in S
  <2> SUFFICES ASSUME n + 1 <= Len(list) PROVE Best(f[n + 1], upTo(n + 1))
    OBVIOUS
  <2>1. n \in 0..(Len(list) - 1) /\ Best(f[n], upTo(n)) /\ list[n + 1] \in Results
    BY <1>2
  <2>2. upTo(n + 1) = upTo(n) \cup {list[n + 1].url}
    <3>1. 1..(n + 1) = 1..n \cup {n + 1}
      BY <2>1
    <3> QED
      BY <3>1
  <2> HIDE DEF upTo
  <2>3. Best(Promote(f[n], list[n + 1]), upTo(n) \cup {list[n + 1].url})
    BY <2>1, PromoteBest
  <2> QED
    BY <1>1, <2>1, <2>2, <2>3
<1>5. S = Nat
  <2> HIDE DEF upTo
  <2>1. S \in SUBSET Nat
    OBVIOUS
  <2> HIDE DEF S
  <2> QED
    BY <1>3, <1>4, <2>1, Induction
<1>6. Best(f[Len(list)], upTo(Len(list)))
  <2> HIDE DEF upTo
  <2> QED
    BY <1>2, <1>5
<1>7. upTo(Len(list)) = seen \cup Urls(ToSet(list))
  BY DEF ToSet, Urls
<1> QED
  BY <1>1, <1>6, <1>7

TopInv ==
    /\ hand \in Seq(Results)
    /\ Best(Top, offered)

LEMMA TopInit == Init => TopInv
BY FS_EmptySet, SearchConstants DEF Init, StreamInit, TopInv, Best, Top, Urls

\* Only the documents of a source that are promoted move the top K.
LEMMA TopStep == TopInv /\ [Next]_vars => TopInv'
<1> SUFFICES ASSUME TopInv, [Next]_vars PROVE TopInv'
  OBVIOUS
<1>1. CASE PromoteDocs
  <2> DEFINE top == FoldLeft(Promote, Top, hand)
  <2>1. Best(top, offered \cup Urls(ToSet(hand)))
    BY FoldBest DEF TopInv
  <2>2. /\ heap' = top.heap /\ promoted' = top.promoted /\ considered' = top.considered
        /\ offered' = offered \cup Urls(ToSet(hand))
    BY <1>1 DEF PromoteDocs
  <2> HIDE DEF top
  <2>3. Best(Top', offered')
    BY <2>1, <2>2 DEF Best, Top
  <2>4. hand' \in Seq(Results)
    BY <1>1 DEF PromoteDocs
  <2> QED
    BY <2>3, <2>4 DEF TopInv
<1>2. ASSUME NEW s \in Sources, SourceReturns(s) PROVE TopInv'
  <2>1. hand' \in Seq(Results) /\ UNCHANGED topVars
    BY <1>2, SearchConstants DEF SourceReturns, TopInv
  <2> QED
    BY <2>1 DEF TopInv, Top, topVars
<1>3. ASSUME UNCHANGED pipeVars PROVE TopInv'
  BY <1>3 DEF TopInv, Top, pipeVars, topVars
<1>4. CASE UNCHANGED streamVars
  BY <1>3, <1>4 DEF streamVars, pipeVars
<1>5. ASSUME ~PromoteDocs, ~ \E s \in Sources : SourceReturns(s), StartStream \/ StreamNext
      PROVE  UNCHANGED pipeVars
  <2>1. StartStream \/ Gather \/ (\E d \in Docs : CrawlPage(d) \/ CrawlLinks(d)) => UNCHANGED pipeVars
    BY DEF StartStream, Gather, CrawlPage, CrawlLinks
  <2>2. (\E t \in Tasks : Rank(t) \/ Emit(t) \/ RankingRaises(t)) => UNCHANGED pipeVars
    BY DEF Rank, Emit, RankingRaises
  <2>3. Deadline \/ PipelineRaises \/ IndexResults \/ EndStream \/ ClientGoes
            => UNCHANGED pipeVars
    BY DEF Deadline, PipelineRaises, IndexResults, EndStream, ClientGoes
  <2> QED
    BY <1>5, <2>1, <2>2, <2>3 DEF StreamNext
<1> QED
  BY <1>1, <1>2, <1>3, <1>4, <1>5 DEF Next, vars

-----------------------------------------------------------------------------
(* Theorems. *)

AllInv == QuotaInv /\ StreamInv

\* The initial states.
LEMMA InitOK == Init => AllInv
<1> SUFFICES ASSUME Init PROVE AllInv
  OBVIOUS
<1>1. QuotaInv
  <2>1. Admitted = {} /\ Cardinality({}) = 0
    BY FS_EmptySet DEF Init, QuotaInit, Admitted
  <2> QED
    BY <2>1, SearchQuotaConstants DEF Init, QuotaInit, QuotaInv, QuotaTypeOK, Balanced, QuotaHolds
<1>2. StreamTypeOK
  BY SearchConstants DEF Init, StreamInit, StreamTypeOK
<1>3. Staged /\ Shown /\ Completing
  BY TaskNames DEF Init, StreamInit, Staged, Shown, Completing, Over
<1> QED
  BY <1>1, <1>2, <1>3 DEF AllInv, StreamInv

\* Every step, stuttering included.
LEMMA NextOK == AllInv /\ [Next]_vars => AllInv'
<1> SUFFICES ASSUME AllInv, [Next]_vars PROVE AllInv'
  OBVIOUS
<1>1. UNCHANGED streamVars => StreamInv'
  BY DEF AllInv, StreamInv, streamVars, pipeVars, StreamTypeOK, Staged, Shown, Completing, Over
<1>2. CASE QuotaNext /\ UNCHANGED streamVars
  BY <1>1, <1>2, QuotaStep DEF AllInv
<1>3. CASE StartStream \/ StreamNext
  BY <1>3, StreamStep DEF AllInv
<1>4. CASE UNCHANGED vars
  <2>1. faults \in Nat
    BY DEF AllInv, QuotaInv, QuotaTypeOK
  <2> QED
    BY <1>1, <1>4, <2>1, QuotaKept DEF AllInv, vars, quotaVars
<1> QED
  BY <1>2, <1>3, <1>4 DEF Next

\* The invariant holds throughout.
LEMMA Invariance == Spec => []AllInv
BY InitOK, NextOK, PTL DEF Spec

\* QuotaTypeOK: the counter and the requests keep their types, and a request is counted once
\* (increment_monthly_super_search, decrement_monthly_super_search).
THEOREM QuotaTypeCorrect == Spec => []QuotaTypeOK
<1>1. AllInv => QuotaTypeOK
  BY DEF AllInv, QuotaInv
<1> QED
  BY <1>1, Invariance, PTL

\* QuotaHolds: for any number of concurrent requests and any limit, whatever is evicted and
\* whoever dies, no more are admitted on a counter than the limit and one for every refund
\* that was meant for a counter before it (super_search).
THEOREM QuotaNeverOverrun == Spec => []QuotaHolds
<1>1. AllInv => QuotaHolds
  BY DEF AllInv, QuotaInv
<1> QED
  BY <1>1, Invariance, PTL

\* RejectedRefunded: when no request is under way the counter holds the admitted requests and
\* those that died, and nothing for the rejected ones (super_search).
THEOREM RefundsComplete == Spec => []RejectedRefunded
<1>1. AllInv => RejectedRefunded
  <2> SUFFICES ASSUME AllInv, count # Missing,
                      \A r \in Requests : request[r] \notin {"over", "refund"}
               PROVE  count = Cardinality({r \in charged : request[r] \in {"admitted", "failed"}})
                                - stale
    BY DEF RejectedRefunded
  <2>1. charged = {r \in charged : request[r] \in {"admitted", "failed"}}
    BY DEF AllInv, QuotaInv, QuotaTypeOK
  <2> QED
    BY <2>1 DEF AllInv, QuotaInv, Balanced
<1> QED
  BY <1>1, Invariance, PTL

\* StreamTypeOK: types, and the results lock is held by the task that has results in a thread
\* and by no other, whoever is cancelled and whatever raises (_emit_final_results).
THEOREM StreamTypeCorrect == Spec => []StreamTypeOK
<1>1. AllInv => StreamTypeOK
  BY DEF AllInv, StreamInv
<1> QED
  BY <1>1, Invariance, PTL

\* CompleteShowsAll: a stream that says it is complete has left no task behind, and its last
\* results are all that is relevant, or as many of it as an event holds (_sse_stream,
\* _run_pipeline).
THEOREM CompleteMeansAll == Spec => []CompleteShowsAll
<1>1. AllInv => CompleteShowsAll
  BY DEF AllInv, StreamInv, Completing, CompleteShowsAll
<1> QED
  BY <1>1, Invariance, PTL

\* TopKLive: for any lists of results in any order, with URLs that come again with other
\* scores, and any K, every URL was considered and the heap holds the K best of the results
\* considered (_maybe_promote).
THEOREM TopKStaysLive == Spec => []TopKLive
<1>1. TopInv => TopKLive
  BY DEF TopInv, Best, Top, TopKLive
<1> QED
  BY <1>1, TopInit, TopStep, PTL DEF Spec

\* ResultsGrow: for any number of tasks and documents and any limit, no results event lacks
\* what an earlier one had unless it is full (_emit_final_results).
THEOREM ResultsNeverShrink == Spec => ResultsGrow
<1>1. AllInv /\ [Next]_vars => [last \subseteq last' \/ Cardinality(last') = FinalLimit]_vars
  <2> SUFFICES ASSUME AllInv, Next PROVE last \subseteq last' \/ Cardinality(last') = FinalLimit
    OBVIOUS
  <2>1. ASSUME NEW t \in Tasks, Emit(t)
        PROVE  last \subseteq last' \/ Cardinality(last') = FinalLimit
    BY <2>1, CutFrom DEF AllInv, StreamInv, Shown, Emit
  <2>2. ASSUME ~ \E t \in Tasks : Emit(t) PROVE last' = last
    <3>1. UNCHANGED streamVars => last' = last
      BY DEF streamVars
    <3>2. (StartStream \/ \E s \in Sources : SourceReturns(s)) => last' = last
      BY DEF StartStream, SourceReturns
    <3>3. (PromoteDocs \/ Gather \/ \E d \in Docs : CrawlPage(d) \/ CrawlLinks(d)) => last' = last
      BY DEF PromoteDocs, Gather, CrawlPage, CrawlLinks
    <3>4. (\E t \in Tasks : Rank(t) \/ RankingRaises(t)) => last' = last
      BY DEF Rank, RankingRaises
    <3>5. (Deadline \/ PipelineRaises \/ IndexResults \/ EndStream \/ ClientGoes) => last' = last
      BY DEF Deadline, PipelineRaises, IndexResults, EndStream, ClientGoes
    <3> QED
      BY <2>2, <3>1, <3>2, <3>3, <3>4, <3>5 DEF Next, StreamNext
  <2> QED
    BY <2>1, <2>2
<1> QED
  BY <1>1, Invariance, PTL DEF Spec, ResultsGrow
-----------------------------------------------------------------------------
(* What the end of a stream rests on. *)

\* Somebody who waits for the stream has a producer that will end it, or has done so.
ReaderIsServed == consumer = "reading" => ended \/ task[Prod] \in {"run", "wait", "rank", "index"}

\* The producer does not stop without the sentinel but for a client that has gone.
Served == task[Prod] = "over" => ended \/ consumer = "gone"

LEMMA ServedStep == AllInv /\ Served /\ [Next]_vars => Served'
<1> SUFFICES ASSUME AllInv, Served, [Next]_vars, task'[Prod] = "over" PROVE (ended \/ consumer = "gone")'
  BY DEF Served
<1> USE DEF AllInv, StreamInv, StreamTypeOK, Served, pipeVars
<1>1. CASE UNCHANGED streamVars
  BY <1>1 DEF streamVars
<1>2. ASSUME UNCHANGED <<ended, consumer>>, task'[Prod] = task[Prod]
      PROVE  (ended \/ consumer = "gone")'
  BY <1>2
<1>3. CASE StartStream
  BY <1>3, TaskNames DEF StartStream
<1>4. ASSUME NEW s \in Sources, SourceReturns(s) PROVE (ended \/ consumer = "gone")'
  BY <1>2, <1>4, TaskNames DEF SourceReturns
<1>5. CASE PromoteDocs
  <2>1. task'[Prod] = "crawl" \/ task'[Prod] = task[Prod]
    BY <1>5, TaskNames DEF PromoteDocs
  <2> QED
    BY <1>2, <1>5, <2>1 DEF PromoteDocs
<1>6. CASE Gather
  BY <1>6, TaskNames DEF Gather
<1>7. ASSUME NEW d \in Docs, CrawlPage(d) \/ CrawlLinks(d) PROVE (ended \/ consumer = "gone")'
  BY <1>2, <1>7, TaskNames DEF CrawlPage, CrawlLinks
<1>8. ASSUME NEW t \in Tasks, Rank(t) \/ Emit(t) \/ RankingRaises(t)
      PROVE  (ended \/ consumer = "gone")'
  <2>1. t # Prod
    BY <1>8, TaskNames DEF Rank, Emit, RankingRaises, Continue
  <2>2. task'[Prod] = task[Prod] /\ UNCHANGED <<ended, consumer>>
    BY <1>8, <2>1, TaskNames DEF Rank, Emit, RankingRaises
  <2> QED
    BY <1>2, <2>2
<1>9. CASE Deadline
  BY <1>9, TaskNames DEF Deadline, Stop
<1>10. CASE PipelineRaises \/ IndexResults
  BY <1>10 DEF PipelineRaises, IndexResults
<1>11. CASE EndStream \/ ClientGoes
  BY <1>11 DEF EndStream, ClientGoes
<1> QED
  BY <1>1, <1>3, <1>4, <1>5, <1>6, <1>7, <1>8, <1>9, <1>10, <1>11 DEF Next, StreamNext, vars

\* No client is left waiting for a sentinel that nobody will queue: at any deadline, exception
\* or cancellation, while the response is read the stream has been ended or the producer is
\* on its way to do it (_sse_stream).
THEOREM NoReaderAbandoned == Spec => []ReaderIsServed
<1>1. Init => Served
  BY TaskNames DEF Init, StreamInit, Served
<1>2. AllInv /\ Served => ReaderIsServed
  BY DEF AllInv, StreamInv, Staged, Served, ReaderIsServed
<1> QED
  BY <1>1, <1>2, ServedStep, Invariance, PTL DEF Spec
=============================================================================

-------------------------- MODULE PurgeLoopProofs ---------------------------
(***************************************************************************)
(* What was proved of the pages and of the queue, in the loop.  Where the  *)
(* code passes documents from one part to the other, each must give what   *)
(* the other takes: what a query queues is no more than a page's documents *)
(* for each of its terms, and the purge is given nothing but copies of     *)
(* documents.  So the invariants of pages and queue are kept together      *)
(* (LoopInv), whatever view of the blacklist the processes have.           *)
(***************************************************************************)
EXTENDS PurgeLoop, Functions, FiniteSetTheorems, TLAPS

VARIABLE disturbed   \* as in PurgeEffect

IndexP == INSTANCE IndexPagesProofs WITH MaxCrashes <- MaxFaults
QueueP == INSTANCE PurgeQueueProofs
          WITH Payloads <- Index!Copies, MaxFound <- MaxTerms * PageCapacity

-----------------------------------------------------------------------------
(* The instances of this module and those of PurgeLoop are the same.         *)

LEMMA SameSets ==
    /\ Index!Actors = IndexP!Actors /\ Index!Copies = IndexP!Copies
    /\ Index!Documents = IndexP!Documents
    /\ \A S : /\ Index!Cardinality(S) = Cardinality(S) /\ IndexP!Cardinality(S) = Cardinality(S)
              /\ Queue!Cardinality(S) = Cardinality(S) /\ QueueP!Cardinality(S) = Cardinality(S)
              /\ IndexP!IsFiniteSet(S) <=> IsFiniteSet(S)
              /\ QueueP!IsFiniteSet(S) <=> IsFiniteSet(S)
BY DEF Index!Actors, IndexP!Actors, Index!Copies, IndexP!Copies, Index!Documents,
    IndexP!Documents, Index!Cardinality, IndexP!Cardinality, Queue!Cardinality,
    QueueP!Cardinality, Cardinality, IndexP!IsFiniteSet, QueueP!IsFiniteSet, IsFiniteSet

LEMMA IndexPConstants == IndexP!IndexConstants
BY LoopConstants, SameSets DEF LoopConstants, Index!IndexConstants, IndexP!IndexConstants

LEMMA FiniteDocuments == IsFiniteSet(Index!Copies) /\ IsFiniteSet(Index!Documents)
<1>1. IsFiniteSet(Urls) /\ IsFiniteSet(Terms) /\ IsFiniteSet(BOOLEAN)
  <2>1. BOOLEAN = {TRUE} \cup {FALSE}
    OBVIOUS
  <2>2. IsFiniteSet({TRUE}) /\ IsFiniteSet({FALSE})
    BY FS_Singleton
  <2>3. IsFiniteSet(BOOLEAN)
    BY <2>1, <2>2, FS_Union
  <2>4. QED BY <2>3, LoopConstants DEF LoopConstants
<1>2. IsFiniteSet(Urls \X Terms)
  BY <1>1, FS_Product
<1>3. IsFiniteSet((Urls \X Terms) \X BOOLEAN)
  BY <1>1, <1>2, FS_Product
<1>4. IsFiniteSet(Index!Copies)
  <2> DEFINE f == [ut \in Urls \X Terms |-> [url |-> ut[1], term |-> ut[2]]]
  <2>1. f \in [Urls \X Terms -> Index!Copies]
    BY DEF Index!Copies
  <2>2. \A c \in Index!Copies : \E ut \in Urls \X Terms : f[ut] = c
    <3> TAKE c \in Index!Copies
    <3>1. <<c.url, c.term>> \in Urls \X Terms
      BY DEF Index!Copies
    <3>2. f[<<c.url, c.term>>] = c
      BY <3>1 DEF Index!Copies
    <3>3. QED BY <3>1, <3>2
  <2>3. f \in Surjection(Urls \X Terms, Index!Copies)
    BY <2>1, <2>2 DEF Surjection
  <2>4. QED BY <1>2, <2>3, FS_Surjection
<1>5. IsFiniteSet(Index!Documents)
  <2> DEFINE T == (Urls \X Terms) \X BOOLEAN
             g == [utc \in T |-> [url |-> utc[1][1], term |-> utc[1][2], curated |-> utc[2]]]
  <2>1. g \in [T -> Index!Documents]
    BY DEF Index!Documents
  <2>2. \A d \in Index!Documents : \E utc \in T : g[utc] = d
    <3> TAKE d \in Index!Documents
    <3>1. <<<<d.url, d.term>>, d.curated>> \in T
      BY DEF Index!Documents
    <3>2. g[<<<<d.url, d.term>>, d.curated>>] = d
      BY <3>1 DEF Index!Documents
    <3>3. QED BY <3>1, <3>2
  <2>3. g \in Surjection(T, Index!Documents)
    BY <2>1, <2>2 DEF Surjection
  <2>4. QED BY <1>3, <2>3, FS_Surjection
<1>6. QED BY <1>4, <1>5

LEMMA QueuePConstants == QueueP!QueueConstants
<1>1. PageCapacity \in Nat /\ MaxFaults \in Nat /\ MaxTerms * PageCapacity \in Nat
  BY LoopConstants DEF LoopConstants, Index!IndexConstants
<1>2. QED
  BY <1>1, LoopConstants, FiniteDocuments, SameSets DEF LoopConstants, QueueP!QueueConstants

LEMMA SameIndexSteps ==
    /\ Index!Init <=> IndexP!Init
    /\ Index!Purge <=> IndexP!Purge
    /\ Index!OtherStep <=> IndexP!OtherStep
    /\ Index!vars = IndexP!vars
BY DEF
    Index!Actors, IndexP!Actors, Index!Copies, IndexP!Copies, Index!Documents,
    IndexP!Documents, Index!CopyOf, IndexP!CopyOf, Index!Fresh, IndexP!Fresh,
    Index!Curated, IndexP!Curated, Index!Conflict, IndexP!Conflict,
    Index!Deduplicated, IndexP!Deduplicated, Index!Combined, IndexP!Combined,
    Index!Trimmed, IndexP!Trimmed, Index!Cardinality, IndexP!Cardinality,
    Index!Copying, IndexP!Copying, Index!Release, IndexP!Release,
    Index!GetPage, IndexP!GetPage, Index!Hold, IndexP!Hold, Index!StartJob,
    IndexP!StartJob, Index!StoreBegin, IndexP!StoreBegin, Index!StoreEnd,
    IndexP!StoreEnd, Index!Store, IndexP!Store, Index!IndexDocuments,
    IndexP!IndexDocuments, Index!IndexResultsAgainstQuery,
    IndexP!IndexResultsAgainstQuery, Index!IndexPage, IndexP!IndexPage, Index!Index,
    IndexP!Index, Index!RememberOriginal, IndexP!RememberOriginal,
    Index!ApprovedDocuments, IndexP!ApprovedDocuments, Index!OtherDocuments,
    IndexP!OtherDocuments, Index!SaveToIndex, IndexP!SaveToIndex,
    Index!RevertCuration, IndexP!RevertCuration, Index!DeleteCuration,
    IndexP!DeleteCuration, Index!Curate, IndexP!Curate, Index!PagesFor,
    IndexP!PagesFor, Index!UrlsToPurge, IndexP!UrlsToPurge, Index!PurgeDocuments,
    IndexP!PurgeDocuments, Index!Purge, IndexP!Purge, Index!PurgePage,
    IndexP!PurgePage, Index!Crash, IndexP!Crash, Index!OtherStep, IndexP!OtherStep,
    Index!Next, IndexP!Next, Index!Init, IndexP!Init, Index!curateVars,
    IndexP!curateVars, Index!purgeVars, IndexP!purgeVars, Index!vars, IndexP!vars

LEMMA SameQueueSteps ==
    /\ Queue!Init <=> QueueP!Init
    /\ Queue!Next <=> QueueP!Next
    /\ Queue!queueVars = QueueP!queueVars
BY DEF
    Queue!Idle, QueueP!Idle, Queue!Enqueue, QueueP!Enqueue, Queue!CheckQueueSize,
    QueueP!CheckQueueSize, Queue!AddToQueue, QueueP!AddToQueue, Queue!RecordEnqueued,
    QueueP!RecordEnqueued, Queue!Forget, QueueP!Forget, Queue!Drain, QueueP!Drain,
    Queue!RedisFails, QueueP!RedisFails, Queue!EvictQueue, QueueP!EvictQueue,
    Queue!Surfaced, QueueP!Surfaced, Queue!Progress, QueueP!Progress, Queue!Init,
    QueueP!Init, Queue!Next, QueueP!Next, Queue!Cardinality, QueueP!Cardinality,
    Queue!queueVars, QueueP!queueVars

LEMMA SameSteps ==
    /\ [Index!Next]_(Index!vars) <=> [IndexP!Next]_(IndexP!vars)
    /\ [Queue!Next]_(Queue!queueVars) <=> [QueueP!Next]_(QueueP!queueVars)
BY SameIndexSteps, SameQueueSteps
DEF Index!Next, IndexP!Next, Index!vars, IndexP!vars, Index!curateVars, IndexP!curateVars,
    Index!purgeVars, IndexP!purgeVars, Queue!queueVars, QueueP!queueVars

LEMMA SameReads ==
    /\ \A p : Index!GetPage(p) = IndexP!GetPage(p)
    /\ Queue!Surfaced =
            {found \in SUBSET Index!Copies : Cardinality(found) <= MaxTerms * PageCapacity}
BY DEF Index!Copying, IndexP!Copying, Index!GetPage, IndexP!GetPage, Index!Actors,
    IndexP!Actors, Queue!Surfaced, Queue!Cardinality, Cardinality

-----------------------------------------------------------------------------
(* What one part gives is what the other takes. *)

LoopInv == IndexP!Inv /\ IndexP!PagesFit /\ QueueP!Inv

\* What a request finds for one term is no more than a page holds, and copies of documents.
LEMMA FoundOnPage ==
    ASSUME LoopInv, NEW t \in Terms, NEW s, NEW found \in Blacklisted(s, t)
    PROVE  found \subseteq Index!Copies /\ IsFiniteSet(found) /\ Cardinality(found) <= PageCapacity
<1>1. PageOf[t] \in Pages
  BY LoopConstants DEF LoopConstants, Index!IndexConstants
<1>2. PICK docs \in Index!GetPage(PageOf[t]) :
        found = {Index!CopyOf(d) : d \in {e \in docs : e.term = t /\ e.url \in ViewOf(s)}}
  BY DEF Blacklisted
<1> DEFINE some == {e \in docs : e.term = t /\ e.url \in ViewOf(s)}
           f == [d \in some |-> Index!CopyOf(d)]
<1>3. docs \in IndexP!GetPage(PageOf[t])
  BY SameReads
<1>4. docs \subseteq IndexP!Documents
  <2>1. IndexP!Good(PageOf[t], docs)
    BY <1>1, <1>3, IndexPConstants, IndexP!GetPageGood DEF LoopInv
  <2>2. QED BY <2>1 DEF IndexP!Good
<1>5. IsFiniteSet(docs) /\ Cardinality(docs) <= PageCapacity
  <2>1. IndexP!Fits(docs)
    BY <1>1, <1>3, IndexPConstants, IndexP!GetPageFits DEF LoopInv
  <2>2. QED BY <2>1, SameSets DEF IndexP!Fits
<1>6. IsFiniteSet(some) /\ Cardinality(some) <= Cardinality(docs)
  BY <1>5, FS_Subset
<1>7. found \subseteq Index!Copies
  BY <1>2, <1>4 DEF IndexP!Documents, Index!Copies, Index!CopyOf
<1>8. f \in Surjection(some, found)
  BY <1>2 DEF Surjection
<1>9. IsFiniteSet(found) /\ Cardinality(found) <= Cardinality(some)
  BY <1>6, <1>8, FS_Surjection
<1>10. /\ Cardinality(found) \in Nat /\ Cardinality(some) \in Nat /\ Cardinality(docs) \in Nat
       /\ PageCapacity \in Nat
  BY <1>5, <1>6, <1>9, FS_CardinalityType, LoopConstants DEF LoopConstants, Index!IndexConstants
<1>11. Cardinality(found) <= PageCapacity
  BY <1>5, <1>6, <1>9, <1>10
<1>12. QED BY <1>7, <1>9, <1>11

\* Copies of which there are no more than k under each of some terms are no more than k times
\* these terms: number those under each term.
LEMMA ByTerm ==
    ASSUME NEW terms, IsFiniteSet(terms), NEW k \in Nat,
           NEW found, \A c \in found : c.term \in terms,
           \A t \in terms : /\ IsFiniteSet({c \in found : c.term = t})
                            /\ Cardinality({c \in found : c.term = t}) <= k
    PROVE  Cardinality(found) \in Nat /\ Cardinality(found) <= Cardinality(terms) * k
<1> DEFINE F(t) == {c \in found : c.term = t}
<1>1. \A t \in terms : \E f : f \in Injection(F(t), 1..k)
  <2> TAKE t \in terms
  <2> DEFINE n == Cardinality(F(t))
  <2>1. n \in Nat /\ n <= k /\ IsFiniteSet(F(t)) /\ Cardinality(F(t)) = n
    BY FS_CardinalityType
  <2> HIDE DEF F, n
  <2>2. 1 \in Int /\ n \in Int
    BY <2>1
  <2>3. IsFiniteSet(1..n) /\ Cardinality(1..n) = n
    BY <2>1, <2>2, FS_Interval
  <2>4. ExistsBijection(F(t), 1..n)
    BY <2>1, <2>2, <2>3, FS_SameCardinalityBij
  <2>5. PICK f : f \in Injection(F(t), 1..n)
    BY <2>4 DEF ExistsBijection, Bijection
  <2>6. f \in Injection(F(t), 1..k)
    BY <2>1, <2>5 DEF Injection, IsInjective
  <2>7. QED BY <2>6
<1> DEFINE h == [t \in terms |-> CHOOSE f : f \in Injection(F(t), 1..k)]
           g == [c \in found |-> <<c.term, h[c.term][c]>>]
<1>2. \A t \in terms : h[t] \in Injection(F(t), 1..k)
  BY <1>1
<1>3. g \in Injection(found, terms \X (1..k))
  <2> HIDE DEF h
  <2>1. \A c \in found : c.term \in terms /\ c \in F(c.term) /\ h[c.term][c] \in 1..k
    BY <1>2 DEF Injection, IsInjective
  <2>2. ASSUME NEW a \in found, NEW b \in found, g[a] = g[b] PROVE a = b
    <3>1. a.term = b.term /\ h[a.term][a] = h[a.term][b]
      BY <2>2
    <3>2. a \in F(a.term) /\ b \in F(a.term) /\ h[a.term] \in Injection(F(a.term), 1..k)
      BY <1>2, <2>1, <3>1
    <3>3. QED BY <3>1, <3>2 DEF Injection, IsInjective
  <2>3. g \in [found -> terms \X (1..k)]
    BY <2>1
  <2> HIDE DEF g
  <2>4. QED BY <2>2, <2>3 DEF Injection, IsInjective
<1>4. IsFiniteSet(1..k) /\ Cardinality(1..k) = k
  BY FS_Interval
<1>5. /\ IsFiniteSet(terms \X (1..k))
      /\ Cardinality(terms \X (1..k)) = Cardinality(terms) * k
  BY <1>4, FS_Product
<1>6. IsFiniteSet(found) /\ Cardinality(found) <= Cardinality(terms) * k
  BY <1>3, <1>5, FS_Injection
<1>7. QED BY <1>6, FS_CardinalityType

LEMMA TimesGrows == \A a, b, k \in Nat : a <= b => a * k <= b * k
<1> TAKE a, b, k \in Nat
<1> HAVE a <= b
<1>1. (b - a) * k >= 0 /\ b * k = a * k + (b - a) * k
  OBVIOUS
<1>2. a * k \in Int /\ b * k \in Int /\ (b - a) * k \in Int
  OBVIOUS
<1>3. QED BY <1>1, <1>2

\* What a request surfaces for its terms is what PurgeQueue reckons with.
LEMMA SurfaceSteps ==
    ASSUME LoopInv, NEW s \in Searchers, NEW terms \in SUBSET Terms,
           Cardinality(terms) <= MaxTerms, Surface(s, terms)
    PROVE  Queue!Next
<1>1. PICK found \in SUBSET {c \in Index!Copies : c.term \in terms} :
        /\ Queue!Enqueue(s, found)
        /\ \A t \in terms : {c \in found : c.term = t} \in Blacklisted(s, t)
  BY DEF Surface
<1>2. \A t \in terms : /\ IsFiniteSet({c \in found : c.term = t})
                       /\ Cardinality({c \in found : c.term = t}) <= PageCapacity
  BY <1>1, FoundOnPage
<1>3. /\ IsFiniteSet(terms) /\ Cardinality(terms) \in Nat
      /\ PageCapacity \in Nat /\ MaxTerms \in Nat
  BY LoopConstants, FS_Subset, FS_CardinalityType DEF LoopConstants, Index!IndexConstants
<1>4. /\ Cardinality(found) \in Nat
      /\ Cardinality(found) <= Cardinality(terms) * PageCapacity
  BY <1>1, <1>2, <1>3, ByTerm
<1>5. Cardinality(terms) * PageCapacity <= MaxTerms * PageCapacity
  BY <1>3, TimesGrows
<1>6. /\ Cardinality(terms) * PageCapacity \in Nat
      /\ MaxTerms * PageCapacity \in Nat
  BY <1>3
<1>7. Cardinality(found) <= MaxTerms * PageCapacity
  BY <1>4, <1>5, <1>6
<1>8. found \in Queue!Surfaced
  BY <1>1, <1>7, SameReads
<1>9. QED BY <1>1, <1>8 DEF Queue!Next

\* A batch of the queue is copies of documents.
LEMMA PurgeSteps ==
    ASSUME LoopInv, Purge
    PROVE  Index!Purge /\ Queue!Next
<1>1. PICK batch \in SUBSET queue : PurgeBlacklistedFromQueue(batch)
  BY DEF Purge
<1>2. {c \in batch : c.url \in ViewOf(Purger)} \in SUBSET Index!Copies
  BY DEF LoopInv, QueueP!Inv, QueueP!TypeOK
<1>3. QED BY <1>1, <1>2 DEF PurgeBlacklistedFromQueue, Index!Purge, Queue!Next

LEMMA OtherIndexStep == ASSUME OtherStep PROVE Index!OtherStep \/ UNCHANGED Index!vars
<1>1. CASE UNCHANGED indexVars
  BY <1>1 DEF indexVars, Index!vars, Index!curateVars, Index!purgeVars
<1>2. CASE IndexStep
  BY <1>2 DEF IndexStep, Index!OtherStep, Index!Index
<1>3. ASSUME NEW w \in Writers, NEW us \in SUBSET Urls, NEW query \in SUBSET Terms,
             IndexDocuments(w, us) \/ IndexResultsAgainstQuery(w, us, query)
      PROVE  Index!OtherStep
  <2>1. us \ ViewOf(w) \in SUBSET Urls
    OBVIOUS
  <2>2. QED
    BY <1>3, <2>1 DEF IndexDocuments, IndexResultsAgainstQuery, Index!OtherStep, Index!Index
<1>4. QED
  BY <1>1, <1>2, <1>3 DEF OtherStep, QueueStep, Publish, LoadSnapshot, GetResults, GetRawResults,
     Surface

LEMMA OtherQueueStep == ASSUME LoopInv, OtherStep PROVE Queue!Next \/ UNCHANGED Queue!queueVars
<1>1. CASE UNCHANGED queueVars
  BY <1>1 DEF queueVars, Queue!queueVars
<1>2. CASE QueueStep
  BY <1>2 DEF QueueStep, Queue!Next
<1>3. ASSUME NEW s \in Searchers, NEW q \in Queries, GetResults(s, q) PROVE Queue!Next
  <2>1. TermsOf[q] \in SUBSET Terms /\ Cardinality(TermsOf[q]) <= MaxTerms
    BY LoopConstants DEF LoopConstants
  <2>2. QED BY <1>3, <2>1, SurfaceSteps DEF GetResults
<1>4. ASSUME NEW s \in Searchers, NEW t \in RawTerms, GetRawResults(s, t) PROVE Queue!Next
  <2>1. {t} \in SUBSET Terms /\ Cardinality({t}) <= MaxTerms
    <3>1. {t} \in SUBSET Terms /\ MaxTerms \in Nat \ {0}
      BY LoopConstants DEF LoopConstants
    <3>2. Cardinality({t}) = 1
      BY FS_Singleton
    <3>3. QED BY <3>1, <3>2
  <2>2. QED BY <1>4, <2>1, SurfaceSteps DEF GetRawResults
<1>5. QED
  BY <1>1, <1>2, <1>3, <1>4
  DEF OtherStep, IndexStep, Publish, LoadSnapshot, IndexDocuments, IndexResultsAgainstQuery

-----------------------------------------------------------------------------
LEMMA InitLoop == Init => LoopInv
BY SameIndexSteps, SameQueueSteps, IndexPConstants, QueuePConstants, IndexP!InitInv,
   IndexP!InitFit, QueueP!InitInv DEF Init, LoopInv

LEMMA NextParts ==
    ASSUME LoopInv, [Next]_vars
    PROVE  [Index!Next]_(Index!vars) /\ [Queue!Next]_(Queue!queueVars)
<1>1. CASE UNCHANGED vars
  BY <1>1 DEF vars, indexVars, queueVars, Index!vars, Index!curateVars, Index!purgeVars,
     Queue!queueVars
<1>2. CASE Purge
  BY <1>2, PurgeSteps DEF Index!Next
<1>3. CASE OtherStep
  BY <1>3, OtherIndexStep, OtherQueueStep DEF Index!Next
<1>4. QED BY <1>1, <1>2, <1>3 DEF Next

LEMMA NextLoop == LoopInv /\ [Next]_vars => LoopInv'
<1> SUFFICES ASSUME LoopInv, [Next]_vars PROVE LoopInv'
  OBVIOUS
<1>1. [IndexP!Next]_(IndexP!vars) /\ [QueueP!Next]_(QueueP!queueVars)
  BY NextParts, SameSteps
<1>2. IndexP!IsFiniteSet(IndexP!Documents)
  BY SameSets, FiniteDocuments
<1>3. IndexP!Inv' /\ IndexP!PagesFit'
  BY <1>1, <1>2, IndexPConstants, IndexP!NextInv, IndexP!NextFit DEF LoopInv
<1>4. QueueP!Inv'
  BY <1>1, QueuePConstants, QueueP!NextInv DEF LoopInv
<1>5. QED BY <1>3, <1>4 DEF LoopInv

LEMMA LoopInvariance == Spec => []LoopInv
BY InitLoop, NextLoop, PTL DEF Spec

\* What the loop does to the queue is what PurgeQueue knows.
LEMMA ImplementsQueue == Spec => Queue!Spec
<1>1. Init => Queue!Init
  BY DEF Init
<1>2. LoopInv /\ [Next]_vars => [Queue!Next]_(Queue!queueVars)
  BY NextParts
<1>3. QED BY <1>1, <1>2, LoopInvariance, PTL DEF Spec, Queue!Spec

\* In the loop, too, a stored page only holds documents filed under its own terms, and one
\* version of each.
THEOREM LoopPagesWellFormed == Spec => []Index!PagesWellFormed
<1>1. LoopInv => Index!PagesWellFormed
  BY DEF LoopInv, IndexP!Inv, IndexP!WellFormed, IndexP!Good, IndexP!WellFiled,
     IndexP!OneCopy, IndexP!CopyOf, Index!PagesWellFormed, Index!WellFiled, Index!OneCopy,
     Index!CopyOf
<1>2. QED BY <1>1, LoopInvariance, PTL

\* In the loop the queue never exceeds MAX_QUEUE_SIZE by more than a page's documents for
\* every term a query can retrieve and for each request under way, torn reads and concurrent
\* rewrites of the pages included.
THEOREM LoopQueueBounded ==
    Spec => [](Cardinality(queue) <
                  MaxQueueSize + Cardinality(Searchers) * (MaxTerms * PageCapacity))
<1>1. QueueP!Spec => []QueueP!QueueBounded
  BY QueuePConstants, QueueP!QueueStaysBounded
<1>2. Queue!Spec => QueueP!Spec
  BY SameQueueSteps, SameSteps, PTL DEF Queue!Spec, QueueP!Spec
<1>3. QueueP!QueueBounded
          => Cardinality(queue) <
                MaxQueueSize + Cardinality(Searchers) * (MaxTerms * PageCapacity)
  BY SameSets DEF QueueP!QueueBounded
<1>4. QED BY <1>1, <1>2, <1>3, ImplementsQueue, PTL

-----------------------------------------------------------------------------
(* What a run of the purge achieves in the loop, with the history of         *)
(* PurgeEffect: the pages others were writing to since the run began.        *)

HistoryInit == Init /\ disturbed = {}

HistoryNext == (Purge /\ IndexP!Undisturbed) \/ (OtherStep /\ IndexP!Disturbs)

HistorySpec == HistoryInit /\ [][HistoryNext]_<<vars, disturbed>>

HistoryInv == LoopInv /\ IndexP!RunInv

LEMMA HistoryStep ==
    ASSUME HistoryInv, [HistoryNext]_<<vars, disturbed>>
    PROVE  [IndexP!HistoryNext]_<<IndexP!vars, disturbed>>
<1>1. CASE UNCHANGED <<vars, disturbed>>
  BY <1>1 DEF vars, indexVars, IndexP!vars, IndexP!curateVars, IndexP!purgeVars
<1>2. CASE Purge /\ IndexP!Undisturbed
  BY <1>2, PurgeSteps, SameIndexSteps DEF HistoryInv, IndexP!HistoryNext
<1>3. CASE OtherStep /\ IndexP!Disturbs
  <2>1. CASE Index!OtherStep
    BY <1>3, <2>1, SameIndexSteps DEF IndexP!HistoryNext
  <2>2. CASE UNCHANGED Index!vars
    <3>1. UNCHANGED IndexP!vars
      BY <2>2 DEF Index!vars, Index!curateVars, Index!purgeVars, IndexP!vars,
         IndexP!curateVars, IndexP!purgeVars
    <3>2. UNCHANGED IndexP!BeingWritten
      BY <3>1 DEF IndexP!vars, IndexP!BeingWritten
    <3>3. UNCHANGED disturbed
      BY <1>3, <3>2 DEF IndexP!Disturbs, HistoryInv, IndexP!RunInv
    <3>4. QED BY <3>1, <3>3
  <2>3. QED BY <1>3, <2>1, <2>2, OtherIndexStep
<1>4. QED BY <1>1, <1>2, <1>3 DEF HistoryNext

LEMMA HistoryInitLoop == HistoryInit => HistoryInv
<1> SUFFICES ASSUME HistoryInit PROVE HistoryInv
  OBVIOUS
<1>1. IndexP!HistoryInit
  BY SameIndexSteps DEF HistoryInit, Init, IndexP!HistoryInit
<1>2. IndexP!HistoryInv
  BY <1>1, IndexPConstants, IndexP!HistoryInitInv
<1>3. QED BY <1>2, InitLoop DEF HistoryInit, HistoryInv, IndexP!HistoryInv

LEMMA HistoryNextLoop == HistoryInv /\ [HistoryNext]_<<vars, disturbed>> => HistoryInv'
<1> SUFFICES ASSUME HistoryInv, [HistoryNext]_<<vars, disturbed>> PROVE HistoryInv'
  OBVIOUS
<1>1. LoopInv'
  BY NextLoop DEF HistoryInv, HistoryNext, Next, vars
<1>2. IndexP!HistoryInv'
  BY HistoryStep, IndexPConstants, IndexP!HistoryNextInv
  DEF HistoryInv, LoopInv, IndexP!HistoryInv
<1>3. QED BY <1>1, <1>2 DEF HistoryInv, IndexP!HistoryInv

\* In the loop: when purge_blacklisted_from_queue has gone through its pages, no copy it
\* drained and still found blacklisted is left on a page that nobody else was writing to
\* meanwhile, whatever retrieval queues and however stale the views of the others are.
THEOREM LoopPurgeReaches == HistorySpec => []IndexP!PurgeRemovesCopies
<1>1. HistoryInit => IndexP!HistoryInit
  BY SameIndexSteps DEF HistoryInit, Init, IndexP!HistoryInit
<1>2. HistoryInv /\ [HistoryNext]_<<vars, disturbed>>
          => [IndexP!HistoryNext]_<<IndexP!vars, disturbed>>
  BY HistoryStep
<1>3. HistorySpec => IndexP!HistorySpec
  BY <1>1, <1>2, HistoryInitLoop, HistoryNextLoop, PTL DEF HistorySpec, IndexP!HistorySpec
<1>4. IndexP!HistorySpec => []IndexP!PurgeRemovesCopies
  BY IndexPConstants, IndexP!PurgeReaches
<1>5. QED BY <1>3, <1>4, PTL
=============================================================================

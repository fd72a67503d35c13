--------------------------- MODULE CrawlerProofs ---------------------------
(***************************************************************************)
(* The crawler's safety properties for any number of processes, domains    *)
(* and URLs.  The queue's invariants speak of the processes that are       *)
(* between two commands: a domain that a process is about to add URLs to   *)
(* has a score or is known to have lost it (ComingScored), a process that  *)
(* is about to remove a score has seen an empty set or was overtaken       *)
(* (EmptyLook), and what is about to be queued counts as queued            *)
(* (CrawledCovered).                                                       *)
(***************************************************************************)
EXTENDS Crawler, FiniteSetTheorems, TLAPS

ProcState == [stage : Stages, todo : SUBSET Domains, at : Domains \cup {NoDomain}, low : Nat,
              batch : SUBSET Urls, found : SUBSET Urls]

EmptyLook ==
    \A c \in Crawlers :
        proc[c].stage = "rescore" /\ proc[c].low = 0 /\ c \notin overtaken
            => UrlsOf(proc[c].at, queued) = {}

ComingScored ==
    \A c \in Crawlers, d \in Domains : Adding(c, d) => score[d] > 0 \/ d \in orphaned

CrawledCovered ==
    Recent => \A u \in crawled :
        u \in queued \/ (\E c \in Crawlers : u \in proc[c].found) => u \in late

\* Where a process is tells what it has in hand.
StageOK ==
    \A c \in Crawlers :
        /\ proc[c].stage \in {"look", "rescore", "trim"} => proc[c].at \in Domains
        /\ proc[c].stage \in {"waiting", "pop", "look", "rescore"} => proc[c].found = {}

Accounted ==
    /\ batches + taken <= missing
    /\ indexer # "working" => taken = 0
    /\ LossBounded

QueueStep(c) == GetBatch(c) \/ Advance(c) \/ CrawlFails(c)

-----------------------------------------------------------------------------
\* Types.

LEMMA GoesTyped ==
    ASSUME QueueTypeOK, NEW c \in Crawlers, NEW new \in ProcState, Goes(c, new)
    PROVE  /\ proc' \in [Crawlers -> ProcState]
           /\ proc'[c] = new
           /\ \A b \in Crawlers : b # c => proc'[b] = proc[b]
BY DEF Goes, QueueTypeOK, ProcState

LEMMA WaitingTyped == Waiting \in ProcState
BY DEF Waiting, ProcState, Stages

LEMMA QueueTyped ==
    ASSUME QueueConstants, QueueTypeOK, StageOK, NEW c \in Crawlers, QueueStep(c)
    PROVE  QueueTypeOK' /\ StageOK'
<1> USE DEF ProcState, Stages
<1>0. proc \in [Crawlers -> ProcState] /\ Waiting \in ProcState /\ NoDomain \notin Domains
  BY WaitingTyped DEF QueueTypeOK, QueueConstants
<1>1. CASE GetBatch(c)
  <2>1. PICK sample \in SUBSET Scored, root \in {{}} \cup {{r} : r \in Roots} :
          Goes(c, [Waiting EXCEPT !.stage = "pop", !.batch = root,
                                  !.todo = (Polled \cup sample) \ Blacklisted])
    BY <1>1 DEF GetBatch, TopScoring
  <2> DEFINE todo == (Polled \cup sample) \ Blacklisted
             new == [Waiting EXCEPT !.stage = "pop", !.batch = root, !.todo = todo]
  <2>2. todo \in SUBSET Domains /\ root \in SUBSET Urls
    BY <2>1 DEF QueueConstants, Scored
  <2>8. new \in ProcState /\ new.stage = "pop" /\ new.found = {}
    BY <1>0, <2>2 DEF Waiting
  <2>3. proc' \in [Crawlers -> ProcState] /\ proc'[c] = new
        /\ \A b \in Crawlers : b # c => proc'[b] = proc[b]
    BY <2>1, <2>8, GoesTyped
  <2>4. started' \in Nat /\ UNCHANGED <<score, queued, crawled, faults, historyVars>>
    BY <1>1 DEF GetBatch, QueueTypeOK
  <2>5. QueueTypeOK'
    BY <2>3, <2>4 DEF QueueTypeOK, historyVars
  <2>6. StageOK'
    BY <2>3, <2>8 DEF StageOK
  <2>7. QED BY <2>5, <2>6
<1>2. CASE CrawlFails(c)
  <2>1. proc' \in [Crawlers -> ProcState] /\ proc'[c] = Waiting
        /\ \A b \in Crawlers : b # c => proc'[b] = proc[b]
    BY <1>0, <1>2, GoesTyped DEF CrawlFails
  <2>2. untrimmed' \subseteq Domains /\ overtaken' \subseteq Crawlers /\ unevicted' \in BOOLEAN
    BY <1>2 DEF CrawlFails, QueueTypeOK, StageOK
  <2>3. QED BY <1>2, <2>1, <2>2 DEF CrawlFails, QueueTypeOK, StageOK, Waiting
<1>3. ASSUME NEW d \in Domains, PopUrl(c, d) PROVE QueueTypeOK' /\ StageOK'
  <2>1. PICK popped \in SUBSET queued :
          /\ queued' = queued \ popped
          /\ Goes(c, [proc[c] EXCEPT !.stage = "look", !.at = d, !.batch = @ \cup popped])
    BY <1>3 DEF PopUrl, Highest, UrlsOf
  <2> DEFINE new == [proc[c] EXCEPT !.stage = "look", !.at = d, !.batch = @ \cup popped]
  <2>2. new \in ProcState /\ new.at = d /\ new.found = proc[c].found
    BY <1>0 DEF QueueTypeOK
  <2>3. proc' \in [Crawlers -> ProcState] /\ proc'[c] = new
        /\ \A b \in Crawlers : b # c => proc'[b] = proc[b]
    BY <2>1, <2>2, GoesTyped
  <2>4. QED BY <1>3, <2>1, <2>2, <2>3 DEF PopUrl, QueueTypeOK, StageOK, historyVars
<1>4. ASSUME NEW d \in Domains, AddUrls(c, d) PROVE QueueTypeOK' /\ StageOK'
  <2> DEFINE new == [proc[c] EXCEPT !.stage = "trim", !.at = d, !.found = @ \ UrlsOf(d, @)]
  <2>1. new \in ProcState /\ new.at = d /\ new.stage = "trim"
    BY <1>0
  <2>2. proc' \in [Crawlers -> ProcState] /\ proc'[c] = new
        /\ \A b \in Crawlers : b # c => proc'[b] = proc[b]
    BY <1>4, <2>1, GoesTyped DEF AddUrls
  <2>3. queued' \subseteq Urls /\ overtaken' \subseteq Crawlers
    BY <1>0, <1>4 DEF AddUrls, UrlsOf, QueueTypeOK
  <2>4. QED BY <1>4, <2>1, <2>2, <2>3 DEF AddUrls, QueueTypeOK, StageOK
<1>5. CASE LookAtDomain(c)
  <2>1. PICK low \in Lowest(UrlsOf(proc[c].at, queued)) :
          Goes(c, [proc[c] EXCEPT !.stage = "rescore", !.low = low])
    BY <1>5 DEF LookAtDomain
  <2>2. low \in Nat
    BY <2>1 DEF Lowest, LowestOf, UrlsOf, QueueConstants, QueueTypeOK
  <2> DEFINE new == [proc[c] EXCEPT !.stage = "rescore", !.low = low]
  <2>3. new \in ProcState /\ new.at = proc[c].at /\ new.found = proc[c].found
    BY <1>0, <2>2
  <2>4. proc' \in [Crawlers -> ProcState] /\ proc'[c] = new
        /\ \A b \in Crawlers : b # c => proc'[b] = proc[b]
    BY <2>1, <2>3, GoesTyped
  <2>5. QED BY <1>5, <2>3, <2>4 DEF LookAtDomain, QueueTypeOK, StageOK, historyVars
<1>6. CASE RescoreDomain(c)
  <2> DEFINE todo == IF Cardinality(proc[c].batch) >= BatchSize THEN {}
                     ELSE proc[c].todo \ {proc[c].at}
             new == [proc[c] EXCEPT !.stage = "pop", !.at = NoDomain, !.low = 0, !.todo = todo]
  <2>1. new \in ProcState /\ new.stage = "pop" /\ new.found = proc[c].found
    BY <1>0
  <2>2. Goes(c, new)
    BY <1>6 DEF RescoreDomain
  <2>3. proc' \in [Crawlers -> ProcState] /\ proc'[c] = new
        /\ \A b \in Crawlers : b # c => proc'[b] = proc[b]
    BY <2>1, <2>2, GoesTyped
  <2>4. proc[c].at \in Domains /\ proc[c].low \in Nat /\ proc[c].stage = "rescore"
    BY <1>0, <1>6 DEF RescoreDomain, StageOK
  <2>5. score' \in [Domains -> Nat] /\ orphaned' \subseteq Domains
    BY <1>6, <2>4 DEF RescoreDomain, QueueTypeOK, Higher
  <2>6. QED BY <1>6, <2>1, <2>3, <2>4, <2>5 DEF RescoreDomain, QueueTypeOK, StageOK
<1>7. CASE CrawlAndRecord(c)
  <2>1. PICK links \in SUBSET Urls :
          Goes(c, [Waiting EXCEPT !.stage = "score", !.found = ToQueue(c, LinksFound(links))])
    BY <1>7 DEF CrawlAndRecord
  <2> DEFINE new == [Waiting EXCEPT !.stage = "score", !.found = ToQueue(c, LinksFound(links))]
  <2>2. LinksFound(links) \subseteq Urls
    BY <2>1 DEF LinksFound, ProcessLink, QueueConstants
  <2>3. ToQueue(c, LinksFound(links)) \subseteq Urls
    BY <1>0, <2>2 DEF ToQueue
  <2>4. new \in ProcState /\ new.stage = "score"
    BY <1>0, <2>3 DEF Waiting
  <2>5. proc' \in [Crawlers -> ProcState] /\ proc'[c] = new
        /\ \A b \in Crawlers : b # c => proc'[b] = proc[b]
    BY <2>1, <2>4, GoesTyped
  <2>6. crawled' \subseteq Urls /\ late' \subseteq Urls
    BY <1>0, <1>7 DEF CrawlAndRecord, QueueTypeOK
  <2>7. QED BY <1>7, <2>4, <2>5, <2>6 DEF CrawlAndRecord, QueueTypeOK, StageOK
<1>8. CASE ScoreDomains(c)
  <2> DEFINE new == [proc[c] EXCEPT !.stage = "add"]
  <2>1. new \in ProcState /\ new.stage = "add"
    BY <1>0
  <2>2. proc' \in [Crawlers -> ProcState] /\ proc'[c] = new
        /\ \A b \in Crawlers : b # c => proc'[b] = proc[b]
    BY <1>8, <2>1, GoesTyped DEF ScoreDomains
  <2>3. PICK best \in [DomainsOf(proc[c].found) -> proc[c].found] :
          score' = [d \in Domains |->
                    IF d \in DomainsOf(proc[c].found)
                    THEN Higher(score[d], LinkScore[d] + UrlScore[best[d]]) ELSE score[d]]
    BY <1>8 DEF ScoreDomains
  <2>4. \A d \in DomainsOf(proc[c].found) : best[d] \in Urls
    BY <1>0, <2>3
  <2>5. score' \in [Domains -> Nat]
    BY <2>3, <2>4 DEF Higher, QueueConstants, QueueTypeOK
  <2>6. QED BY <1>8, <2>1, <2>2, <2>5 DEF ScoreDomains, QueueTypeOK, StageOK
<1>9. CASE TrimUrls(c)
  <2> DEFINE new == [proc[c] EXCEPT !.stage = "add", !.at = NoDomain]
  <2>1. new \in ProcState /\ new.stage = "add"
    BY <1>0
  <2>2. proc' \in [Crawlers -> ProcState] /\ proc'[c] = new
        /\ \A b \in Crawlers : b # c => proc'[b] = proc[b]
    BY <1>9, <2>1, GoesTyped DEF TrimUrls
  <2>3. queued' \subseteq queued
    BY <1>9 DEF TrimUrls, UrlsOf
  <2>4. QED BY <1>9, <2>1, <2>2, <2>3 DEF TrimUrls, QueueTypeOK, StageOK
<1>10. CASE CountDomains(c)
  <2>1. PICK stage \in {"evict", "push"} : Goes(c, [proc[c] EXCEPT !.stage = stage])
    BY <1>10 DEF CountDomains
  <2> DEFINE new == [proc[c] EXCEPT !.stage = stage]
  <2>2. new \in ProcState /\ new.stage = stage
    BY <1>0, <2>1
  <2>3. proc' \in [Crawlers -> ProcState] /\ proc'[c] = new
        /\ \A b \in Crawlers : b # c => proc'[b] = proc[b]
    BY <2>1, <2>2, GoesTyped
  <2>4. QED BY <1>10, <2>2, <2>3 DEF CountDomains, QueueTypeOK, StageOK
<1>11. CASE EvictDomain(c)
  <2> DEFINE new == [proc[c] EXCEPT !.stage = "count"]
  <2>1. new \in ProcState /\ new.stage = "count"
    BY <1>0
  <2>2. proc' \in [Crawlers -> ProcState] /\ proc'[c] = new
        /\ \A b \in Crawlers : b # c => proc'[b] = proc[b]
    BY <1>11, <2>1, GoesTyped DEF EvictDomain
  <2>3. PICK popped \in SUBSET Domains :
          /\ score' = [d \in Domains |-> IF d \in popped THEN 0 ELSE score[d]]
          /\ orphaned' = orphaned \cup popped
    <3>1. \A d \in LowestDomains : {d} \in SUBSET Domains
      BY DEF LowestDomains, Scored
    <3>2. {} \in SUBSET Domains
      OBVIOUS
    <3>3. QED BY <1>11, <3>1, <3>2 DEF EvictDomain
  <2>4. QED BY <1>11, <2>1, <2>2, <2>3 DEF EvictDomain, QueueTypeOK, StageOK
<1>12. QED BY <1>1, <1>2, <1>3, <1>4, <1>5, <1>6, <1>7, <1>8, <1>9, <1>10, <1>11
           DEF QueueStep, Advance

-----------------------------------------------------------------------------
\* UrlsBounded.

LEMMA GoesThere ==
    ASSUME QueueTypeOK, NEW c \in Crawlers, NEW new, Goes(c, new)
    PROVE  proc'[c] = new /\ \A b \in Crawlers : b # c => proc'[b] = proc[b]
BY DEF Goes, QueueTypeOK

LEMMA Fewer ==
    ASSUME QueueConstants, NEW d, NEW U \in SUBSET Urls, NEW V \in SUBSET U
    PROVE  /\ Cardinality(UrlsOf(d, U)) \in Nat /\ Cardinality(UrlsOf(d, V)) \in Nat
           /\ Cardinality(UrlsOf(d, V)) <= Cardinality(UrlsOf(d, U))
<1>1. UrlsOf(d, V) \subseteq UrlsOf(d, U) /\ UrlsOf(d, U) \subseteq Urls
  BY DEF UrlsOf
<1>2. IsFiniteSet(UrlsOf(d, U)) /\ IsFiniteSet(UrlsOf(d, V))
  BY <1>1, FS_Subset DEF QueueConstants
<1>3. QED BY <1>1, <1>2, FS_Subset, FS_CardinalityType

\* Where each command takes a process.
LEMMA Moves ==
    ASSUME QueueTypeOK, StageOK, NEW c \in Crawlers, QueueStep(c)
    PROVE  /\ \A b \in Crawlers : b # c => proc'[b] = proc[b]
           /\ GetBatch(c) => proc'[c].stage = "pop" /\ proc'[c].found = {}
           /\ CrawlFails(c) => proc'[c] = Waiting
           /\ \A d \in Domains :
                /\ PopUrl(c, d) => proc'[c].stage = "look" /\ proc'[c].found = proc[c].found
                /\ AddUrls(c, d) =>
                    /\ proc'[c].stage = "trim" /\ proc'[c].at = d
                    /\ proc'[c].found = proc[c].found \ UrlsOf(d, proc[c].found)
           /\ LookAtDomain(c) =>
                /\ proc'[c].stage = "rescore" /\ proc'[c].at = proc[c].at
                /\ proc'[c].low \in Lowest(UrlsOf(proc[c].at, queued))
                /\ proc'[c].found = proc[c].found
           /\ RescoreDomain(c) => proc'[c].stage = "pop" /\ proc'[c].found = proc[c].found
           /\ CrawlAndRecord(c) =>
                /\ proc'[c].stage = "score"
                /\ \E links \in SUBSET Urls : proc'[c].found = ToQueue(c, LinksFound(links))
           /\ ScoreDomains(c) \/ TrimUrls(c) =>
                proc'[c].stage = "add" /\ proc'[c].found = proc[c].found
           /\ CountDomains(c) => proc'[c].found = proc[c].found
                /\ proc'[c].stage = IF TooMany THEN "evict" ELSE "push"
           /\ EvictDomain(c) => proc'[c].stage = "count" /\ proc'[c].found = proc[c].found
<1> USE DEF QueueTypeOK
<1>1. \A b \in Crawlers : b # c => proc'[b] = proc[b]
  BY DEF QueueStep, Advance, GetBatch, CrawlFails, PopUrl, AddUrls, LookAtDomain,
         RescoreDomain, CrawlAndRecord, ScoreDomains, TrimUrls, CountDomains, EvictDomain, Goes
<1>2. GetBatch(c) => proc'[c].stage = "pop" /\ proc'[c].found = {}
  BY DEF GetBatch, Goes, Waiting
<1>3. CrawlFails(c) => proc'[c] = Waiting
  BY DEF CrawlFails, Goes
<1>4. ASSUME NEW d \in Domains, PopUrl(c, d)
      PROVE  proc'[c].stage = "look" /\ proc'[c].found = proc[c].found
  BY <1>4 DEF PopUrl, Goes
<1>5. ASSUME NEW d \in Domains, AddUrls(c, d)
      PROVE  /\ proc'[c].stage = "trim" /\ proc'[c].at = d
             /\ proc'[c].found = proc[c].found \ UrlsOf(d, proc[c].found)
  BY <1>5 DEF AddUrls, Goes
<1>6. ASSUME LookAtDomain(c)
      PROVE  /\ proc'[c].stage = "rescore" /\ proc'[c].at = proc[c].at
             /\ proc'[c].low \in Lowest(UrlsOf(proc[c].at, queued))
             /\ proc'[c].found = proc[c].found
  BY <1>6 DEF LookAtDomain, Goes
<1>7. RescoreDomain(c) => proc'[c].stage = "pop" /\ proc'[c].found = proc[c].found
  BY DEF RescoreDomain, Goes
<1>8. ASSUME CrawlAndRecord(c)
      PROVE  /\ proc'[c].stage = "score"
             /\ \E links \in SUBSET Urls : proc'[c].found = ToQueue(c, LinksFound(links))
  BY <1>8 DEF CrawlAndRecord, Goes, Waiting
<1>9. ScoreDomains(c) => proc'[c].stage = "add" /\ proc'[c].found = proc[c].found
  BY DEF ScoreDomains, Goes
<1>10. TrimUrls(c) => proc'[c].stage = "add" /\ proc'[c].found = proc[c].found
  BY DEF TrimUrls, Goes
<1>11. CountDomains(c) => proc'[c].found = proc[c].found
            /\ proc'[c].stage = IF TooMany THEN "evict" ELSE "push"
  BY DEF CountDomains, Goes
<1>12. EvictDomain(c) => proc'[c].stage = "count" /\ proc'[c].found = proc[c].found
  BY DEF EvictDomain, Goes
<1>13. QED BY <1>1, <1>2, <1>3, <1>4, <1>5, <1>6, <1>7, <1>8, <1>9, <1>10, <1>11, <1>12

\* Whatever only takes URLs away and leaves no set untrimmed unrecorded.
LEMMA BoundKept ==
    ASSUME QueueConstants, QueueTypeOK, UrlsBounded,
           queued' \subseteq queued, untrimmed \subseteq untrimmed',
           \A b \in Crawlers : proc[b].stage = "trim" =>
                proc'[b] = proc[b] \/ proc[b].at \in untrimmed'
    PROVE  UrlsBounded'
<1> SUFFICES ASSUME NEW d \in Domains
             PROVE  \/ Cardinality(UrlsOf(d, queued')) <= MaxUrls[d]
                    \/ d \in untrimmed'
                    \/ \E c \in Crawlers : proc'[c].stage = "trim" /\ proc'[c].at = d
  BY DEF UrlsBounded, UrlsOf
<1>1. CASE Cardinality(UrlsOf(d, queued)) <= MaxUrls[d]
  <2>1. Cardinality(UrlsOf(d, queued')) <= Cardinality(UrlsOf(d, queued))
        /\ Cardinality(UrlsOf(d, queued)) \in Nat /\ Cardinality(UrlsOf(d, queued')) \in Nat
    BY Fewer DEF QueueTypeOK
  <2>2. QED BY <1>1, <2>1 DEF QueueConstants
<1>2. QED BY <1>1 DEF UrlsBounded

LEMMA UrlsBoundedStep ==
    ASSUME QueueConstants, QueueTypeOK, StageOK, UrlsBounded,
           NEW c \in Crawlers, QueueStep(c)
    PROVE  UrlsBounded'
<1>0. \A b \in Crawlers : b # c => proc'[b] = proc[b]
  BY Moves
<1>1. CASE GetBatch(c)
  <2>1. proc[c].stage # "trim" /\ UNCHANGED <<queued, untrimmed>>
    BY <1>1 DEF GetBatch, Waiting, historyVars
  <2>3. QED BY <2>1, <1>0, BoundKept
<1>2. CASE CrawlFails(c)
  <2>1. queued' = queued /\ untrimmed \subseteq untrimmed'
        /\ (proc[c].stage = "trim" => proc[c].at \in untrimmed')
    BY <1>2 DEF CrawlFails
  <2>3. QED BY <2>1, <1>0, BoundKept
<1>3. ASSUME NEW d \in Domains, PopUrl(c, d) PROVE UrlsBounded'
  <2>1. proc[c].stage # "trim" /\ queued' \subseteq queued /\ untrimmed' = untrimmed
    BY <1>3 DEF PopUrl, historyVars
  <2>3. QED BY <2>1, <1>0, BoundKept
<1>4. ASSUME NEW d \in Domains, AddUrls(c, d) PROVE UrlsBounded'
  <2>1. proc'[c].stage = "trim" /\ proc'[c].at = d
    BY <1>4, Moves
  <2>3. proc[c].stage # "trim" /\ untrimmed' = untrimmed
    BY <1>4 DEF AddUrls
  <2>4. \A e \in Domains : e # d => UrlsOf(e, queued') = UrlsOf(e, queued)
    BY <1>4 DEF AddUrls, UrlsOf
  <2>5. QED BY <1>0, <2>1, <2>3, <2>4 DEF UrlsBounded, UrlsOf
<1>5. CASE TrimUrls(c)
  <2> DEFINE d == proc[c].at
  <2>1. PICK kept \in SUBSET UrlsOf(d, queued) :
          /\ Cardinality(kept) <= Kept(d)
          /\ queued' = (queued \ UrlsOf(d, queued)) \cup kept
    BY <1>5 DEF TrimUrls
  <2>2. UrlsOf(d, queued') = kept
    BY <2>1 DEF UrlsOf
  <2>3. \A e \in Domains : e # d => UrlsOf(e, queued') = UrlsOf(e, queued)
    BY <2>1 DEF UrlsOf
  <2>5. untrimmed' = untrimmed \ {d}
    BY <1>5 DEF TrimUrls
  <2>6. proc[c].stage = "trim"
    BY <1>5 DEF TrimUrls
  <2>7. Cardinality(UrlsOf(d, queued')) <= MaxUrls[d]
    BY <2>1, <2>2 DEF Kept
  <2>8. ASSUME NEW e \in Domains, e # d
        PROVE  \/ Cardinality(UrlsOf(e, queued')) <= MaxUrls[e]
               \/ e \in untrimmed'
               \/ \E b \in Crawlers : proc'[b].stage = "trim" /\ proc'[b].at = e
    <3>1. UrlsOf(e, queued') = UrlsOf(e, queued)
      BY <2>3, <2>8
    <3>2. QED BY <1>0, <2>5, <2>8, <3>1 DEF UrlsBounded
  <2>9. \A e \in Domains :
            \/ Cardinality(UrlsOf(e, queued')) <= MaxUrls[e]
            \/ e \in untrimmed'
            \/ \E b \in Crawlers : proc'[b].stage = "trim" /\ proc'[b].at = e
    BY <2>7, <2>8
  <2>10. QED BY <2>9 DEF UrlsBounded, UrlsOf
<1>6. CASE LookAtDomain(c) \/ RescoreDomain(c) \/ CrawlAndRecord(c) \/ ScoreDomains(c)
           \/ CountDomains(c) \/ EvictDomain(c)
  <2>1. proc[c].stage # "trim" /\ queued' = queued /\ untrimmed' = untrimmed
    BY <1>6 DEF LookAtDomain, RescoreDomain, CrawlAndRecord, ScoreDomains, CountDomains,
                EvictDomain, historyVars
  <2>4. QED BY <2>1, <1>0, BoundKept
<1>7. QED BY <1>1, <1>2, <1>3, <1>4, <1>5, <1>6 DEF QueueStep, Advance

-----------------------------------------------------------------------------
\* DomainsBounded.

LEMMA DomainsBoundedStep ==
    ASSUME QueueConstants, QueueTypeOK, StageOK, DomainsBounded, NEW c \in Crawlers, QueueStep(c)
    PROVE  DomainsBounded'
<1>1. CASE CrawlFails(c)
  <2>1. score' = score /\ (unevicted => unevicted')
        /\ (proc[c].stage \notin {"waiting", "push"} => unevicted')
    BY <1>1 DEF CrawlFails
  <2>2. \A b \in Crawlers : b # c => proc'[b] = proc[b]
    BY Moves
  <2>3. QED BY <2>1, <2>2 DEF DomainsBounded, Scored
<1>2. CASE CountDomains(c) /\ ~TooMany
  <2>1. Scored \subseteq Domains /\ IsFiniteSet(Domains)
    BY DEF Scored, QueueConstants
  <2>2. Cardinality(Scored) \in Nat
    BY <2>1, FS_Subset, FS_CardinalityType
  <2>3. Cardinality(Scored) <= MaxDomains
    BY <1>2, <2>2 DEF TooMany, QueueConstants
  <2>4. Scored' = Scored
    BY <1>2 DEF CountDomains, Scored
  <2>5. QED BY <2>3, <2>4 DEF DomainsBounded
<1>3. ASSUME proc'[c].stage \notin {"waiting", "push"} PROVE DomainsBounded'
  BY <1>3 DEF DomainsBounded
<1>4. CASE CountDomains(c) /\ TooMany
  BY <1>3, <1>4, Moves
<1>5. CASE GetBatch(c) \/ LookAtDomain(c) \/ RescoreDomain(c) \/ CrawlAndRecord(c)
           \/ ScoreDomains(c) \/ TrimUrls(c) \/ EvictDomain(c)
  BY <1>3, <1>5, Moves
<1>6. ASSUME NEW d \in Domains, PopUrl(c, d) \/ AddUrls(c, d) PROVE DomainsBounded'
  BY <1>3, <1>6, Moves
<1>7. QED BY <1>1, <1>2, <1>4, <1>5, <1>6 DEF QueueStep, Advance

-----------------------------------------------------------------------------
\* UrlsReachable.

Reachable == EmptyLook /\ ComingScored /\ UrlsReachable

\* Steps that add no URL and take no domain's score unrecorded.
LEMMA StillReachable ==
    ASSUME QueueTypeOK, Reachable, queued' \subseteq queued, overtaken \subseteq overtaken',
           \A d \in Domains : score[d] > 0 \/ d \in orphaned => score'[d] > 0 \/ d \in orphaned',
           \A b \in Crawlers : proc'[b].stage = "rescore" =>
                proc[b].stage = "rescore" /\ proc'[b].at = proc[b].at /\ proc'[b].low = proc[b].low,
           \A b \in Crawlers : proc'[b].stage \in {"add", "trim"} =>
                proc[b].stage \in {"add", "trim"} /\ proc'[b].found \subseteq proc[b].found,
           DomainOf \in [Urls -> Domains]
    PROVE  Reachable'
<1>1. EmptyLook'
  BY DEF Reachable, EmptyLook, UrlsOf
<1>2. ComingScored'
  BY DEF Reachable, ComingScored, Adding, DomainsOf
<1>3. UrlsReachable'
  BY DEF Reachable, UrlsReachable, QueueTypeOK
<1>4. QED BY <1>1, <1>2, <1>3 DEF Reachable

LEMMA ReachableStep ==
    ASSUME QueueConstants, QueueTypeOK, StageOK, Reachable, NEW c \in Crawlers, QueueStep(c)
    PROVE  Reachable'
<1> DomainOf \in [Urls -> Domains] /\ score \in [Domains -> Nat] /\ queued \subseteq Urls
  BY DEF QueueConstants, QueueTypeOK
<1>0. \A b \in Crawlers : b # c => proc'[b] = proc[b]
  BY Moves
<1>1. CASE GetBatch(c)
  <2>1. UNCHANGED <<queued, score, overtaken, orphaned>> /\ proc'[c].stage = "pop"
    BY <1>1, Moves DEF GetBatch, historyVars
  <2>2. QED BY <1>0, <2>1, StillReachable
<1>2. CASE CrawlFails(c)
  <2>0. proc'[c].stage = "waiting"
    BY <1>2, Moves DEF Waiting
  <2>1. UNCHANGED <<queued, score, orphaned>> /\ overtaken' = overtaken \ {c}
    BY <1>2 DEF CrawlFails
  <2>2. EmptyLook'
    BY <1>0, <2>0, <2>1 DEF Reachable, EmptyLook, UrlsOf
  <2>3. ComingScored'
    BY <1>0, <2>0, <2>1 DEF Reachable, ComingScored, Adding
  <2>4. UrlsReachable'
    BY <2>1 DEF Reachable, UrlsReachable
  <2>5. QED BY <2>2, <2>3, <2>4 DEF Reachable
<1>3. ASSUME NEW d \in Domains, PopUrl(c, d) PROVE Reachable'
  <2>1. UNCHANGED <<score, overtaken, orphaned>> /\ queued' \subseteq queued
    BY <1>3 DEF PopUrl, historyVars
  <2>2. proc'[c].stage = "look"
    BY <1>3, Moves
  <2>3. QED BY <1>0, <2>1, <2>2, StillReachable
<1>4. ASSUME NEW d \in Domains, AddUrls(c, d) PROVE Reachable'
  <2>1. /\ queued' = queued \cup UrlsOf(d, proc[c].found)
        /\ d \in DomainsOf(proc[c].found) /\ proc[c].stage = "add"
        /\ overtaken' = overtaken \cup
                {b \in Crawlers : proc[b].stage = "rescore" /\ proc[b].at = d}
        /\ UNCHANGED <<score, orphaned>>
    BY <1>4 DEF AddUrls
  <2>2. proc'[c].stage = "trim" /\ proc'[c].found \subseteq proc[c].found
    BY <1>4, Moves
  <2>3. EmptyLook'
    BY <1>0, <2>1, <2>2 DEF Reachable, EmptyLook, UrlsOf
  <2>4. ComingScored'
    BY <1>0, <2>1, <2>2 DEF Reachable, ComingScored, Adding, DomainsOf
  <2>5. score[d] > 0 \/ d \in orphaned
    BY <1>4, <2>1 DEF Reachable, ComingScored, Adding
  <2>6. UrlsReachable'
    BY <2>1, <2>5 DEF Reachable, UrlsReachable, UrlsOf
  <2>7. QED BY <2>3, <2>4, <2>6 DEF Reachable
<1>5. CASE LookAtDomain(c)
  <2>1. UNCHANGED <<queued, score, overtaken, orphaned>>
    BY <1>5 DEF LookAtDomain, historyVars
  <2>2. /\ proc'[c].stage = "rescore" /\ proc'[c].at = proc[c].at
        /\ proc'[c].low \in Lowest(UrlsOf(proc[c].at, queued))
    BY <1>5, Moves
  <2>3. proc'[c].low = 0 => UrlsOf(proc[c].at, queued) = {}
    <3>1. \A u \in Urls : UrlScore[u] # 0
      BY DEF QueueConstants
    <3>2. QED BY <2>2, <3>1 DEF Lowest, LowestOf, UrlsOf
  <2>4. EmptyLook'
    BY <1>0, <2>1, <2>2, <2>3 DEF Reachable, EmptyLook, UrlsOf
  <2>5. ComingScored'
    BY <1>0, <2>1, <2>2 DEF Reachable, ComingScored, Adding
  <2>6. UrlsReachable'
    BY <2>1 DEF Reachable, UrlsReachable
  <2>7. QED BY <2>4, <2>5, <2>6 DEF Reachable
<1>6. CASE RescoreDomain(c)
  <2> DEFINE d == proc[c].at
  <2>1. d \in Domains /\ proc[c].low \in Nat /\ proc[c].stage = "rescore"
    BY <1>6 DEF RescoreDomain, StageOK, QueueTypeOK
  <2>2. /\ score' = [score EXCEPT ![d] = IF proc[c].low = 0 THEN 0 ELSE Higher(@, proc[c].low)]
        /\ orphaned' =
            IF proc[c].low > 0 THEN orphaned \ {d}
            ELSE IF c \in overtaken \/ \E b \in Crawlers : Adding(b, d)
                 THEN orphaned \cup {d} ELSE orphaned
        /\ overtaken' = overtaken \ {c} /\ queued' = queued
    BY <1>6 DEF RescoreDomain
  <2>3. proc'[c].stage = "pop"
    BY <1>6, Moves
  <2>4. \A e \in Domains : e # d => score'[e] = score[e] /\ (e \in orphaned => e \in orphaned')
    BY <2>1, <2>2
  <2>5. proc[c].low > 0 => score'[d] > 0
    BY <2>1, <2>2 DEF Higher
  <2>6. EmptyLook'
    BY <1>0, <2>2, <2>3 DEF Reachable, EmptyLook, UrlsOf
  <2>7. ComingScored'
    <3> SUFFICES ASSUME NEW b \in Crawlers, NEW e \in Domains, Adding(b, e)'
                 PROVE  score'[e] > 0 \/ e \in orphaned'
      BY DEF ComingScored
    <3>1. Adding(b, e)
      BY <1>0, <2>3 DEF Adding
    <3>2. CASE e # d
      BY <2>4, <3>1, <3>2 DEF Reachable, ComingScored
    <3>3. CASE e = d
      BY <2>1, <2>2, <2>5, <3>1, <3>3
    <3>4. QED BY <3>2, <3>3
  <2>8. UrlsReachable'
    <3> SUFFICES ASSUME NEW u \in queued
                 PROVE  DomainOf[u] \in Polled \/ score'[DomainOf[u]] > 0
                        \/ DomainOf[u] \in orphaned'
      BY <2>2 DEF UrlsReachable
    <3>1. CASE DomainOf[u] # d
      BY <2>4, <3>1 DEF Reachable, UrlsReachable
    <3>2. CASE DomainOf[u] = d /\ proc[c].low = 0
      <4>1. c \in overtaken
        BY <2>1, <3>2 DEF Reachable, EmptyLook, UrlsOf
      <4>2. QED BY <2>2, <3>2, <4>1
    <3>3. CASE DomainOf[u] = d /\ proc[c].low # 0
      BY <2>1, <2>5, <3>3
    <3>4. QED BY <3>1, <3>2, <3>3
  <2>9. QED BY <2>6, <2>7, <2>8 DEF Reachable
<1>7. CASE CrawlAndRecord(c)
  <2>1. UNCHANGED <<queued, score, overtaken, orphaned>>
    BY <1>7 DEF CrawlAndRecord
  <2>2. proc'[c].stage = "score"
    BY <1>7, Moves
  <2>3. QED BY <1>0, <2>1, <2>2, StillReachable
<1>8. CASE ScoreDomains(c)
  <2> DEFINE F == proc[c].found
  <2>1. PICK best \in [DomainsOf(F) -> F] :
          score' = [d \in Domains |->
                    IF d \in DomainsOf(F)
                    THEN Higher(score[d], LinkScore[d] + UrlScore[best[d]]) ELSE score[d]]
    BY <1>8 DEF ScoreDomains
  <2>2. orphaned' = orphaned \ DomainsOf(F) /\ UNCHANGED <<queued, overtaken>>
    BY <1>8 DEF ScoreDomains
  <2>3. proc'[c].stage = "add" /\ proc'[c].found = F
    BY <1>8, Moves
  <2>4. ASSUME NEW d \in DomainsOf(F) PROVE d \in Domains /\ score'[d] > 0
    <3>1. F \subseteq Urls
      BY DEF QueueTypeOK
    <3>2. d \in Domains /\ best[d] \in Urls
      BY <2>1, <2>4, <3>1 DEF DomainsOf
    <3>3. LinkScore[d] \in Nat /\ UrlScore[best[d]] \in Nat \ {0} /\ score[d] \in Nat
      BY <3>2 DEF QueueConstants
    <3>4. QED BY <2>1, <2>4, <3>2, <3>3 DEF Higher
  <2>5. \A d \in Domains : d \notin DomainsOf(F) =>
            score'[d] = score[d] /\ (d \in orphaned => d \in orphaned')
    BY <2>1, <2>2
  <2>6. EmptyLook'
    BY <1>0, <2>2, <2>3 DEF Reachable, EmptyLook, UrlsOf
  <2>7. ComingScored'
    <3> SUFFICES ASSUME NEW b \in Crawlers, NEW d \in Domains, Adding(b, d)'
                 PROVE  score'[d] > 0 \/ d \in orphaned'
      BY DEF ComingScored
    <3>1. CASE d \in DomainsOf(F)
      BY <2>4, <3>1
    <3>2. CASE d \notin DomainsOf(F)
      <4>1. Adding(b, d)
        BY <1>0, <2>3, <3>2 DEF Adding
      <4>2. QED BY <2>5, <3>2, <4>1 DEF Reachable, ComingScored
    <3>3. QED BY <3>1, <3>2
  <2>8. UrlsReachable'
    BY <2>2, <2>4, <2>5 DEF Reachable, UrlsReachable
  <2>9. QED BY <2>6, <2>7, <2>8 DEF Reachable
<1>9. CASE TrimUrls(c)
  <2>1. UNCHANGED <<score, overtaken, orphaned>> /\ queued' \subseteq queued
        /\ proc[c].stage = "trim"
    BY <1>9 DEF TrimUrls, UrlsOf
  <2>2. proc'[c].stage = "add" /\ proc'[c].found = proc[c].found
    BY <1>9, Moves
  <2>3. QED BY <1>0, <2>1, <2>2, StillReachable
<1>10. CASE CountDomains(c)
  <2>1. UNCHANGED <<queued, score, overtaken, orphaned>>
    BY <1>10 DEF CountDomains
  <2>2. proc'[c].stage \in {"evict", "push"}
    BY <1>10, Moves
  <2>3. QED BY <1>0, <2>1, <2>2, StillReachable
<1>11. CASE EvictDomain(c)
  <2>1. PICK popped \in SUBSET Domains :
          /\ score' = [d \in Domains |-> IF d \in popped THEN 0 ELSE score[d]]
          /\ orphaned' = orphaned \cup popped
    <3>1. (IF Scored = {} THEN {{}} ELSE {{d} : d \in LowestDomains}) \subseteq SUBSET Domains
      BY DEF LowestDomains, Scored
    <3>2. QED BY <1>11, <3>1, ZenonT(30) DEF EvictDomain
  <2>2. UNCHANGED <<queued, overtaken>>
    BY <1>11 DEF EvictDomain
  <2>3. proc'[c].stage = "count"
    BY <1>11, Moves
  <2>4. QED BY <1>0, <2>1, <2>2, <2>3, StillReachable
<1>12. QED BY <1>1, <1>2, <1>3, <1>4, <1>5, <1>6, <1>7, <1>8, <1>9, <1>10, <1>11
           DEF QueueStep, Advance

-----------------------------------------------------------------------------
\* CrawledNotRequeued.

LEMMA CoveredStep ==
    ASSUME QueueConstants, QueueTypeOK, StageOK, CrawledCovered, NEW c \in Crawlers, QueueStep(c)
    PROVE  CrawledCovered'
<1> DEFINE coming(u) == u \in queued \/ \E b \in Crawlers : u \in proc[b].found
<1>0. \A b \in Crawlers : b # c => proc'[b] = proc[b]
  BY Moves
<1>1. ASSUME UNCHANGED <<crawled, late>>, \A u \in crawled : coming(u)' => coming(u)
      PROVE  CrawledCovered'
  BY <1>1 DEF CrawledCovered
<1>2. ASSUME UNCHANGED <<crawled, late>>, queued' \subseteq queued, proc'[c].found \subseteq proc[c].found
      PROVE  CrawledCovered'
  BY <1>0, <1>1, <1>2
<1>3. CASE GetBatch(c) \/ CrawlFails(c)
  <2>1. UNCHANGED <<crawled, late, queued>>
    BY <1>3 DEF GetBatch, CrawlFails, historyVars
  <2>2. proc'[c].found = {}
    BY <1>3, Moves DEF Waiting
  <2>3. QED BY <1>2, <2>1, <2>2
<1>4. ASSUME NEW d \in Domains, PopUrl(c, d) PROVE CrawledCovered'
  <2>1. UNCHANGED <<crawled, late>> /\ queued' \subseteq queued
    BY <1>4 DEF PopUrl, historyVars
  <2>2. QED BY <1>2, <1>4, <2>1, Moves
<1>5. ASSUME NEW d \in Domains, AddUrls(c, d) PROVE CrawledCovered'
  <2>1. UNCHANGED <<crawled, late>> /\ queued' = queued \cup UrlsOf(d, proc[c].found)
    BY <1>5 DEF AddUrls
  <2>2. proc'[c].found \subseteq proc[c].found
    BY <1>5, Moves
  <2>3. queued' \subseteq queued \cup proc[c].found
    BY <2>1 DEF UrlsOf
  <2>4. QED BY <1>0, <1>1, <2>1, <2>2, <2>3
<1>6. CASE LookAtDomain(c) \/ RescoreDomain(c) \/ ScoreDomains(c) \/ TrimUrls(c)
           \/ CountDomains(c) \/ EvictDomain(c)
  <2>1. UNCHANGED <<crawled, late>> /\ queued' \subseteq queued
    BY <1>6 DEF LookAtDomain, RescoreDomain, ScoreDomains, TrimUrls, CountDomains,
                EvictDomain, historyVars, UrlsOf
  <2>2. proc'[c].found = proc[c].found
    BY <1>6, Moves
  <2>3. QED BY <1>2, <2>1, <2>2
<1>7. CASE CrawlAndRecord(c)
  <2>1. /\ crawled' = crawled \cup proc[c].batch /\ queued' = queued
        /\ late' = late \cup (proc[c].batch \cap
                     (queued \cup UNION {proc[b].found : b \in Crawlers}))
    BY <1>7 DEF CrawlAndRecord
  <2>2. Recent => \A u \in proc'[c].found : u \notin crawled'
    BY <1>7, <2>1, Moves DEF ToQueue
  <2>3. ASSUME Recent, NEW u \in crawled',
               u \in queued' \/ \E b \in Crawlers : u \in proc'[b].found
        PROVE  u \in late'
    <3>1. coming(u)
      BY <1>0, <2>1, <2>2, <2>3
    <3>2. CASE u \in crawled
      BY <2>1, <2>3, <3>1, <3>2 DEF CrawledCovered
    <3>3. CASE u \in proc[c].batch
      BY <2>1, <3>1, <3>3
    <3>4. QED BY <2>1, <3>2, <3>3
  <2>4. QED BY <2>3 DEF CrawledCovered
<1>8. QED BY <1>3, <1>4, <1>5, <1>6, <1>7 DEF QueueStep, Advance

-----------------------------------------------------------------------------
\* The list of batches.

ListTypeOK ==
    /\ batches \in Nat /\ taken \in Nat /\ missing \in Nat
    /\ failures \in Nat /\ crashes \in Nat
    /\ indexer \in {"idle", "working", "dead"} /\ gaveUp \in BOOLEAN

\* A failure more makes up for a lpop's worth of batches.
LEMMA OneFailureMore ==
    ASSUME CrawlerConstants, NEW n \in Nat
    PROVE  (n + 1) * TakeSize = n * TakeSize + TakeSize /\ n * TakeSize \in Nat
BY DEF CrawlerConstants

ListInv == ListTypeOK /\ Accounted /\ taken <= TakeSize

LEMMA ListStep ==
    ASSUME CrawlerConstants, ListInv,
           \/ \E c \in Crawlers : PushBatch(c)
           \/ TakeBatches \/ IndexBatches \/ IndexFails \/ RespawnIndexer \/ HourPasses
    PROVE  ListInv'
<1> USE DEF ListInv, ListTypeOK, Accounted, LossBounded, CrawlerConstants
<1> DEFINE allowed == failures * TakeSize
<1>0. allowed \in Nat
  BY OneFailureMore
<1>1. ASSUME NEW c \in Crawlers, PushBatch(c) PROVE ListInv'
  <2>1. batches' = batches + 1 /\ missing' = missing + 1
        /\ UNCHANGED <<indexer, taken, failures, crashes, gaveUp>>
    BY <1>1 DEF PushBatch
  <2>2. QED BY <1>0, <2>1
<1>2. CASE TakeBatches
  <2>1. /\ indexer = "idle" /\ taken' = IF batches < TakeSize THEN batches ELSE TakeSize
        /\ batches' = batches - taken' /\ indexer' = "working"
        /\ UNCHANGED <<missing, failures, crashes, gaveUp>>
    BY <1>2 DEF TakeBatches
  <2>2. taken = 0 /\ taken' \in Nat /\ taken' <= batches /\ taken' <= TakeSize
    BY <2>1
  <2>3. batches' \in Nat /\ batches' + taken' = batches + taken
    BY <2>1, <2>2
  <2>4. QED BY <1>0, <2>1, <2>2, <2>3
<1>3. CASE IndexBatches
  <2>1. missing' = missing - taken /\ taken' = 0 /\ indexer' = "idle"
        /\ UNCHANGED <<batches, failures, crashes, gaveUp>>
    BY <1>3 DEF IndexBatches
  <2>2. QED BY <1>0, <2>1
<1>4. CASE IndexFails
  <2>1. failures' = failures + 1 /\ taken' = 0 /\ indexer' \in {"idle", "dead"}
        /\ UNCHANGED <<batches, missing, crashes, gaveUp>>
    BY <1>4 DEF IndexFails
  <2>2. failures' * TakeSize = allowed + TakeSize
    BY <2>1, OneFailureMore
  <2>3. missing <= batches + taken + allowed /\ taken <= TakeSize
    OBVIOUS
  <2>4. missing' <= batches' + taken' + failures' * TakeSize
    <3> HIDE DEF allowed
    <3>1. QED BY <1>0, <2>1, <2>2, <2>3
  <2>5. QED BY <2>1, <2>4
<1>5. CASE RespawnIndexer
  <2>1. crashes' = crashes + 1 /\ indexer = "dead" /\ indexer' \in {"dead", "idle"}
        /\ gaveUp' \in BOOLEAN /\ UNCHANGED <<batches, taken, missing, failures>>
    BY <1>5 DEF RespawnIndexer
  <2>2. QED BY <1>0, <2>1
<1>6. CASE HourPasses
  <2>1. crashes > 0 /\ crashes' = crashes - 1
        /\ UNCHANGED <<batches, indexer, taken, missing, failures, gaveUp>>
    BY <1>6 DEF HourPasses
  <2>2. QED BY <1>0, <2>1
<1>7. QED BY <1>1, <1>2, <1>3, <1>4, <1>5, <1>6

-----------------------------------------------------------------------------
\* The inductive invariant.

Inv ==
    /\ QueueTypeOK /\ StageOK
    /\ UrlsBounded /\ DomainsBounded /\ Reachable /\ CrawledCovered
    /\ ListInv

LEMMA InitInv == QueueConstants /\ CrawlerConstants /\ Init => Inv
<1> SUFFICES ASSUME QueueConstants, CrawlerConstants, Init PROVE Inv
  OBVIOUS
<1> USE DEF Init, QueueInit
<1>1. QueueTypeOK /\ StageOK
  BY WaitingTyped DEF QueueTypeOK, StageOK, ProcState, Stages, Waiting
<1>2. UrlsBounded
  <2>1. \A d \in Domains : UrlsOf(d, queued) = {} /\ 0 <= MaxUrls[d]
    BY DEF UrlsOf, QueueConstants
  <2>2. Cardinality({}) = 0
    BY FS_EmptySet
  <2>3. \A d \in Domains : Cardinality(UrlsOf(d, queued)) <= MaxUrls[d]
    BY <2>1, <2>2
  <2>4. QED BY <2>3 DEF UrlsBounded
<1>3. DomainsBounded
  <2>1. Scored = {} /\ MaxDomains \in Nat
    BY DEF Scored, QueueConstants
  <2>2. QED BY <2>1, FS_EmptySet DEF DomainsBounded
<1>4. Reachable
  BY DEF Reachable, EmptyLook, ComingScored, UrlsReachable, Adding, Waiting
<1>5. CrawledCovered
  BY DEF CrawledCovered
<1>6. ListInv
  <2>1. failures * TakeSize \in Nat
    BY OneFailureMore
  <2>2. missing <= batches + taken + failures * TakeSize
    BY <2>1
  <2>3. 0 <= TakeSize
    BY DEF CrawlerConstants
  <2>4. ListTypeOK
    BY DEF ListTypeOK
  <2>5. Accounted
    BY <2>2 DEF Accounted, LossBounded
  <2>6. QED BY <2>3, <2>4, <2>5 DEF ListInv
<1>7. QED BY <1>1, <1>2, <1>3, <1>4, <1>5, <1>6 DEF Inv

\* What a process that pushes its batch, and the index process, leave of the queue.
LEMMA PushKeeps ==
    ASSUME QueueConstants, Inv, NEW c \in Crawlers, PushBatch(c)
    PROVE  QueueTypeOK' /\ StageOK' /\ UrlsBounded' /\ DomainsBounded' /\ Reachable'
           /\ CrawledCovered'
<1>1. proc' \in [Crawlers -> ProcState] /\ proc'[c] = Waiting
      /\ \A b \in Crawlers : b # c => proc'[b] = proc[b]
  BY WaitingTyped, GoesTyped DEF PushBatch, Inv
<1>2. proc[c].stage = "push" /\ UNCHANGED <<score, queued, crawled, started, faults, historyVars>>
  BY DEF PushBatch
<1>3. UNCHANGED <<overtaken, orphaned, untrimmed, unevicted, late>>
  BY <1>2 DEF historyVars
<1>4. proc'[c].stage = "waiting" /\ proc'[c].found = {}
  BY <1>1 DEF Waiting
<1>5. QueueTypeOK' /\ StageOK'
  BY <1>1, <1>2, <1>3, <1>4 DEF Inv, QueueTypeOK, StageOK, ProcState
<1>6. UrlsBounded'
  BY <1>1, <1>2, <1>3, BoundKept DEF Inv
<1>7. DomainsBounded'
  BY <1>1, <1>2, <1>3 DEF Inv, DomainsBounded, Scored
<1>8. Reachable'
  BY <1>1, <1>2, <1>3, <1>4, StillReachable DEF Inv, QueueConstants
<1>9. CrawledCovered'
  BY <1>1, <1>2, <1>3, <1>4 DEF Inv, CrawledCovered
<1>10. QED BY <1>5, <1>6, <1>7, <1>8, <1>9

LEMMA QueueKept ==
    ASSUME Inv, UNCHANGED urlQueueVars
    PROVE  QueueTypeOK' /\ StageOK' /\ UrlsBounded' /\ DomainsBounded' /\ Reachable'
           /\ CrawledCovered'
BY DEF Inv, urlQueueVars, historyVars, QueueTypeOK, StageOK, UrlsBounded, DomainsBounded, Scored,
       Reachable, EmptyLook, ComingScored, Adding, UrlsReachable, CrawledCovered

LEMMA NextInv == QueueConstants /\ CrawlerConstants /\ Inv /\ [Next]_crawlerVars => Inv'
<1> SUFFICES ASSUME QueueConstants, CrawlerConstants, Inv, [Next]_crawlerVars PROVE Inv'
  OBVIOUS
<1>1. ASSUME NEW c \in Crawlers, QueueStep(c), UNCHANGED indexVars PROVE Inv'
  <2>1. QueueTypeOK /\ StageOK /\ UrlsBounded /\ DomainsBounded /\ Reachable /\ CrawledCovered
        /\ ListInv
    BY DEF Inv
  <2>2. QueueTypeOK' /\ StageOK'
    BY <1>1, <2>1, QueueTyped
  <2>3. UrlsBounded' /\ DomainsBounded'
    BY <1>1, <2>1, UrlsBoundedStep, DomainsBoundedStep
  <2>4. Reachable' /\ CrawledCovered'
    BY <1>1, <2>1, ReachableStep, CoveredStep
  <2>5. ListInv'
    BY <1>1, <2>1 DEF indexVars, ListInv, ListTypeOK, Accounted, LossBounded
  <2>6. QED BY <2>2, <2>3, <2>4, <2>5 DEF Inv
<1>2. ASSUME NEW c \in Crawlers, PushBatch(c) PROVE Inv'
  <2>1. ListInv'
    BY <1>2, ListStep DEF Inv
  <2>2. QED BY <1>2, <2>1, PushKeeps DEF Inv
<1>3. CASE TakeBatches \/ IndexBatches \/ RespawnIndexer \/ HourPasses
  <2>1. UNCHANGED urlQueueVars
    <3>1. TakeBatches => UNCHANGED urlQueueVars
      BY DEF TakeBatches
    <3>2. IndexBatches => UNCHANGED urlQueueVars
      BY DEF IndexBatches
    <3>3. RespawnIndexer => UNCHANGED urlQueueVars
      BY DEF RespawnIndexer
    <3>4. HourPasses => UNCHANGED urlQueueVars
      BY DEF HourPasses
    <3>5. QED BY <1>3, <3>1, <3>2, <3>3, <3>4
  <2>2. ListInv'
    BY <1>3, ListStep DEF Inv
  <2>3. QED BY <2>1, <2>2, QueueKept DEF Inv
<1>4. CASE IndexFails
  <2>1. UNCHANGED <<score, queued, crawled, proc, started, historyVars>> /\ faults' = faults + 1
    BY <1>4 DEF IndexFails
  <2>2. UNCHANGED <<overtaken, orphaned, untrimmed, unevicted, late>>
    BY <2>1 DEF historyVars
  <2>3. QueueTypeOK' /\ StageOK'
    BY <2>1, <2>2 DEF Inv, QueueTypeOK, StageOK
  <2>4. UrlsBounded' /\ DomainsBounded'
    BY <2>1, <2>2 DEF Inv, UrlsBounded, DomainsBounded, Scored
  <2>5. Reachable' /\ CrawledCovered'
    BY <2>1, <2>2 DEF Inv, Reachable, EmptyLook, ComingScored, Adding, UrlsReachable,
                      CrawledCovered
  <2>6. ListInv'
    BY <1>4, ListStep DEF Inv
  <2>7. QED BY <2>3, <2>4, <2>5, <2>6 DEF Inv
<1>5. CASE UNCHANGED crawlerVars
  <2>1. UNCHANGED urlQueueVars /\ UNCHANGED indexVars
    BY <1>5 DEF crawlerVars
  <2>2. ListInv'
    BY <2>1 DEF Inv, indexVars, ListInv, ListTypeOK, Accounted, LossBounded
  <2>3. QED BY <2>1, <2>2, QueueKept DEF Inv
<1>6. QED BY <1>1, <1>2, <1>3, <1>4, <1>5 DEF Next, QueueStep

-----------------------------------------------------------------------------

\* Inv holds of every reachable state.
LEMMA AlwaysInv == Spec => []Inv
<1>1. Init => Inv
  BY QueueConstants, CrawlerConstants, InitInv
<1>2. Inv /\ [Next]_crawlerVars => Inv'
  BY QueueConstants, CrawlerConstants, NextInv
<1>3. QED BY <1>1, <1>2, PTL DEF Spec

\* The types of crawl.py's variables; in particular the index process never takes more
\* batches off its list than are on it.
THEOREM TypeCorrect == Spec => []TypeOK
<1>1. Inv => TypeOK
  BY DEF Inv, TypeOK, ListInv, ListTypeOK
<1>2. QED BY <1>1, AlwaysInv, PTL

\* queue_urls: no domain keeps more URLs than get_domain_max_urls allows, however many
\* processes add and trim.
THEOREM UrlsStayBounded == Spec => []UrlsBounded
<1>1. Inv => UrlsBounded
  BY DEF Inv
<1>2. QED BY <1>1, AlwaysInv, PTL

\* queue_urls: no more than MAX_OTHER_DOMAINS domains have a score once every process has
\* gone through the eviction loop.
THEOREM DomainsStayBounded == Spec => []DomainsBounded
<1>1. Inv => DomainsBounded
  BY DEF Inv
<1>2. QED BY <1>1, AlwaysInv, PTL

\* get_batch and queue_urls: a queued URL can be handed out, but for evictions and for
\* scores removed after a look that was overtaken.
THEOREM QueuedCanBeCrawled == Spec => []UrlsReachable
<1>1. Inv => UrlsReachable
  BY DEF Inv, Reachable
<1>2. QED BY <1>1, AlwaysInv, PTL

\* update_found_urls: what was just crawled is not queued again.
THEOREM CrawledStayOut == Spec => []CrawledNotRequeued
<1>1. Inv => CrawledNotRequeued
  BY DEF Inv, CrawledCovered, CrawledNotRequeued
<1>2. QED BY <1>1, AlwaysInv, PTL

\* run_indexing: a failure loses at most the batches of one lpop.
THEOREM LossStaysBounded == Spec => []LossBounded
<1>1. Inv => LossBounded
  BY DEF Inv, ListInv, Accounted
<1>2. QED BY <1>1, AlwaysInv, PTL
-----------------------------------------------------------------------------
(* When the supervisor gives up. *)

\* It does so after more failures than it puts up with, and leaves the index process dead.
GivesUpWhenDue == gaveUp => failures > CrashThreshold /\ indexer = "dead"

\* Every entry of index_crash_history is a failure of its own, and so is a death that has
\* not been recorded yet.
DeathsCounted == crashes + (IF indexer = "dead" /\ ~gaveUp THEN 1 ELSE 0) <= failures

\* index_crash_history never counts a death twice, however deaths, exceptions, respawns and
\* the passing of the hour interleave (run): it ends the supervisor only after more failures
\* than the threshold.
THEOREM GivesUpOnlyWhenDue == Spec => []GivesUpWhenDue
<1> DEFINE I == TypeOK /\ DeathsCounted /\ GivesUpWhenDue
<1>1. Init => DeathsCounted /\ GivesUpWhenDue
  BY DEF Init, DeathsCounted, GivesUpWhenDue
<1>2. I /\ [Next]_crawlerVars => (DeathsCounted /\ GivesUpWhenDue)'
  <2> SUFFICES ASSUME I, [Next]_crawlerVars PROVE (DeathsCounted /\ GivesUpWhenDue)'
    OBVIOUS
  <2> USE CrawlerConstants DEF TypeOK, DeathsCounted, GivesUpWhenDue
  <2>1. CASE UNCHANGED <<indexer, failures, crashes, gaveUp>>
    BY <2>1
  <2>2. CASE TakeBatches \/ IndexBatches
    BY <2>2 DEF TakeBatches, IndexBatches
  <2>3. CASE IndexFails
    BY <2>3 DEF IndexFails
  <2>4. CASE RespawnIndexer
    BY <2>4 DEF RespawnIndexer
  <2>5. CASE HourPasses
    BY <2>5 DEF HourPasses
  <2> QED
    BY <2>1, <2>2, <2>3, <2>4, <2>5 DEF Next, crawlerVars, indexVars, PushBatch
<1> QED
  BY <1>1, <1>2, TypeCorrect, PTL DEF Spec
=============================================================================

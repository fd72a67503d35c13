------------------------------ MODULE UrlQueue ------------------------------
(***************************************************************************)
(* redis_url_queue.py and its use by the crawl processes (crawl.py,        *)
(* update_urls.py): a sorted set of domains by score and, for each domain, *)
(* one of URLs.  A process takes a batch (get_batch), crawls it, records   *)
(* what it crawled and found, and queues that (queue_urls).  Every Redis   *)
(* command is a step of its own; nothing ties two of them together.        *)
(*                                                                         *)
(* Scores are numbers; 0 stands for a domain that is not in the set.       *)
(***************************************************************************)
EXTENDS Naturals, FiniteSets

CONSTANTS
    Urls, Domains,
    DomainOf,     \* URL -> its domain
    RootOf,       \* URL -> the root URL of its domain
    UrlScore,     \* URL -> its score, higher for shorter ones
    LinkScore,    \* domain -> what the links to it are worth (get_domain_score)
    MaxUrls,      \* domain -> get_domain_max_urls
    MaxDomains,   \* MAX_OTHER_DOMAINS
    Polled,       \* CORE_DOMAINS and the curated ones, in every batch whatever their score
    Blacklisted,  \* domains on the crawlers' blacklist
    TopDomains,   \* how many of the domains with the highest scores get_batch looks at
    SampleSize,   \* NUM_TOP_DOMAIN_URLS_TO_INCLUDE + NUM_OTHER_URLS_TO_INCLUDE
    BatchSize,    \* BATCH_SIZE
    Roots,        \* root URLs of the top and the curated domains
    MaxFound,     \* bound on the links found by one batch
    Recent,       \* the month began less than 30 days ago
    Crawlers,     \* crawl processes
    MaxBatches,   \* bound on the batches taken
    MaxFaults,    \* bound on failures
    NoDomain

ASSUME QueueConstants ==
    /\ IsFiniteSet(Urls) /\ IsFiniteSet(Domains) /\ NoDomain \notin Domains
    /\ DomainOf \in [Urls -> Domains]
    /\ RootOf \in [Urls -> Urls]
    /\ UrlScore \in [Urls -> Nat \ {0}]
    /\ LinkScore \in [Domains -> Nat]
    /\ MaxUrls \in [Domains -> Nat]
    /\ MaxDomains \in Nat /\ TopDomains \in Nat /\ SampleSize \in Nat /\ BatchSize \in Nat /\ MaxFound \in Nat
    /\ Polled \subseteq Domains /\ Roots \subseteq Urls
    /\ Recent \in BOOLEAN
    /\ MaxBatches \in Nat /\ MaxFaults \in Nat

VARIABLES
    score,      \* DOMAIN_SCORE_KEY
    queued,     \* the members of all DOMAIN_URLS_KEY sets
    crawled,    \* this month's URL filter
    proc,       \* crawl process -> where it is, with what
    started,    \* counter for the bound
    faults,     \* counter for the bound
    overtaken,  \* history: processes that saw a domain's set empty before URLs were added
    orphaned,   \* history: domains evicted, or whose score went though URLs came after the look
    untrimmed,  \* history: domains whose set a process left untrimmed
    unevicted,  \* history: a process left the set of domains as it was
    late        \* history: URLs that were queued, or about to be, when they were recorded

historyVars == <<overtaken, orphaned, untrimmed, unevicted, late>>
urlQueueVars == <<score, queued, crawled, proc, started, faults, historyVars>>

\* todo: domains get_batch has to go; at: the one under way, whose lowest remaining score
\* is low; batch: the URLs to crawl; found: those queue_urls has to add.
Waiting == [stage |-> "waiting", todo |-> {}, at |-> NoDomain, low |-> 0,
            batch |-> {}, found |-> {}]

UrlsOf(d, U) == {u \in U : DomainOf[u] = d}
DomainsOf(U) == {DomainOf[u] : u \in U}
Scored == {d \in Domains : score[d] > 0}
LowestDomains == {d \in Scored : \A e \in Scored : score[d] <= score[e]}
Highest(U) == {u \in U : \A v \in U : UrlScore[v] <= UrlScore[u]}
LowestOf(U) == {u \in U : \A v \in U : UrlScore[u] <= UrlScore[v]}
Higher(m, n) == IF m < n THEN n ELSE m

\* Processes that will still add URLs of the domain.
Adding(c, d) == proc[c].stage \in {"add", "trim"} /\ d \in DomainsOf(proc[c].found)

Goes(c, new) == proc' = [proc EXCEPT ![c] = new]

-----------------------------------------------------------------------------
(* get_batch. *)

\* zrange with desc=True: the first TopDomains by score.
TopScoring ==
    {top \in SUBSET Scored :
        /\ IF Cardinality(Scored) <= TopDomains THEN top = Scored
           ELSE Cardinality(top) = TopDomains
        /\ \A d \in top, e \in Scored \ top : score[e] <= score[d]}

\* The domains to ask: all that are polled and a sample of those with the highest scores, but
\* none that is blacklisted; and the root URL of some well-known one, which may be none of Urls.
GetBatch(c) ==
    /\ proc[c] = Waiting
    /\ started < MaxBatches
    /\ \E top \in TopScoring : \E sample \in SUBSET top, root \in {{}} \cup {{r} : r \in Roots} :
        /\ IF Cardinality(top) <= SampleSize THEN sample = top
           ELSE Cardinality(sample) = SampleSize
        /\ Goes(c, [Waiting EXCEPT !.stage = "pop", !.batch = root,
                                   !.todo = (Polled \cup sample) \ Blacklisted])
    /\ started' = started + 1
    /\ UNCHANGED <<score, queued, crawled, faults, historyVars>>

\* zpopmax
PopUrl(c, d) ==
    /\ proc[c].stage = "pop" /\ d \in proc[c].todo
    /\ \E popped \in IF UrlsOf(d, queued) = {} THEN {{}}
                     ELSE {{u} : u \in Highest(UrlsOf(d, queued))} :
        /\ queued' = queued \ popped
        /\ Goes(c, [proc[c] EXCEPT !.stage = "look", !.at = d, !.batch = @ \cup popped])
    /\ UNCHANGED <<score, crawled, started, faults, historyVars>>

\* Mutant: no score without a second URL.
LowestButOne(U) ==
    IF Cardinality(U) < 2 THEN {0} ELSE {UrlScore[u] : u \in LowestOf(U)}

\* zrangebyscore with start=0, num=1: the score of the URL with the lowest one.
Lowest(U) == IF U = {} THEN {0} ELSE {UrlScore[u] : u \in LowestOf(U)}

LookAtDomain(c) ==
    /\ proc[c].stage = "look"
    /\ \E low \in Lowest(UrlsOf(proc[c].at, queued)) :
        Goes(c, [proc[c] EXCEPT !.stage = "rescore", !.low = low])
    /\ UNCHANGED <<score, queued, crawled, started, faults, historyVars>>

\* zadd with gt=True, which never lowers a score, or zrem.
RescoreDomain(c) ==
    LET d == proc[c].at
        full == Cardinality(proc[c].batch) >= BatchSize
    IN  /\ proc[c].stage = "rescore"
        /\ score' = [score EXCEPT ![d] = IF proc[c].low = 0 THEN 0 ELSE Higher(@, proc[c].low)]
        /\ orphaned' =
            IF proc[c].low > 0 THEN orphaned \ {d}
            ELSE IF c \in overtaken \/ \E b \in Crawlers : Adding(b, d)
                 THEN orphaned \cup {d} ELSE orphaned
        /\ overtaken' = overtaken \ {c}
        /\ Goes(c, [proc[c] EXCEPT !.stage = "pop", !.at = NoDomain, !.low = 0,
                                   !.todo = IF full THEN {} ELSE @ \ {d}])
        /\ UNCHANGED <<queued, crawled, started, faults, untrimmed, unevicted, late>>

-----------------------------------------------------------------------------
(* process_batch, up to the queueing of what it found. *)

\* process_link: a link is found with the root URL of its domain.
ProcessLink(u) == {u, RootOf[u]}

LinksFound(links) == UNION {ProcessLink(u) : u \in links}

\* Mutant: a URL just crawled counts as one that never was.
ToQueueWithCrawled(c, found) ==
    (found \cup proc[c].batch) \ IF Recent THEN crawled ELSE {}

\* queue_urls skips what update_found_urls dates to a month that began less than 30 days
\* ago; a URL that was just crawled is dated to this month.
ToQueue(c, found) ==
    (found \cup proc[c].batch) \ IF Recent THEN crawled \cup proc[c].batch ELSE {}

\* crawl_url for every URL of the batch, and update_found_urls.
CrawlAndRecord(c) ==
    /\ proc[c].stage = "pop" /\ proc[c].todo = {}
    /\ \E links \in SUBSET Urls :
        /\ Cardinality(links) <= MaxFound
        /\ Goes(c, [Waiting EXCEPT !.stage = "score", !.found = ToQueue(c, LinksFound(links))])
    /\ crawled' = crawled \cup proc[c].batch
    /\ late' = late \cup (proc[c].batch \cap
                 (queued \cup UNION {proc[b].found : b \in Crawlers}))
    /\ UNCHANGED <<score, queued, started, faults, overtaken, orphaned, untrimmed, unevicted>>

-----------------------------------------------------------------------------
(* queue_urls. *)

\* zadd of all domains found, with gt=True.
ScoreDomains(c) ==
    LET found == proc[c].found
    IN  /\ proc[c].stage = "score"
        /\ \E best \in [DomainsOf(found) -> found] :
            /\ \A d \in DomainsOf(found) : best[d] \in Highest(UrlsOf(d, found))
            /\ score' = [d \in Domains |->
                    IF d \in DomainsOf(found)
                    THEN Higher(score[d], LinkScore[d] + UrlScore[best[d]]) ELSE score[d]]
        /\ orphaned' = orphaned \ DomainsOf(found)
        /\ Goes(c, [proc[c] EXCEPT !.stage = "add"])
        /\ UNCHANGED <<queued, crawled, started, faults, untrimmed, unevicted, late, overtaken>>

\* zadd of the URLs of one of the domains
AddUrls(c, d) ==
    /\ proc[c].stage = "add" /\ d \in DomainsOf(proc[c].found)
    /\ queued' = queued \cup UrlsOf(d, proc[c].found)
    /\ overtaken' = overtaken \cup
            {b \in Crawlers : proc[b].stage = "rescore" /\ proc[b].at = d}
    /\ Goes(c, [proc[c] EXCEPT !.stage = "trim", !.at = d,
                                !.found = @ \ UrlsOf(d, @)])
    /\ UNCHANGED <<score, crawled, started, faults, orphaned, untrimmed, unevicted, late>>

\* Mutant: off by one, as zremrangebyrank with -(max_urls + 2).
KeptOneMore(d) == MaxUrls[d] + 1

\* How many URLs zremrangebyrank with 0, -(max_urls + 1) leaves.
Kept(d) == MaxUrls[d]

\* zremrangebyrank: the lowest scoring URLs go.
TrimUrls(c) ==
    LET d == proc[c].at
        urls == UrlsOf(d, queued)
    IN  /\ proc[c].stage = "trim"
        /\ \E kept \in SUBSET urls :
            /\ kept = urls \/ Cardinality(kept) = Kept(d)
            /\ Cardinality(kept) <= Kept(d)
            /\ \A u \in urls \ kept, v \in kept : UrlScore[u] <= UrlScore[v]
            /\ queued' = (queued \ urls) \cup kept
        /\ untrimmed' = untrimmed \ {d}
        /\ Goes(c, [proc[c] EXCEPT !.stage = "add", !.at = NoDomain])
        /\ UNCHANGED <<score, crawled, started, faults, orphaned, unevicted, late, overtaken>>

\* Mutant: off by one.
MoreThanOneTooMany == Cardinality(Scored) > MaxDomains + 1

TooMany == Cardinality(Scored) > MaxDomains

\* zcard
CountDomains(c) ==
    /\ \/ proc[c].stage = "add" /\ proc[c].found = {}
       \/ proc[c].stage = "count"
    /\ IF TooMany
       THEN Goes(c, [proc[c] EXCEPT !.stage = "evict"]) /\ UNCHANGED unevicted
       ELSE Goes(c, [proc[c] EXCEPT !.stage = "push"]) /\ unevicted' = FALSE
    /\ UNCHANGED <<score, queued, crawled, started, faults, orphaned, untrimmed, late, overtaken>>

\* zpopmin.  The key deleted next is made from the list of pairs it returns and is nobody's:
\* the URLs of the domain stay.
EvictDomain(c) ==
    /\ proc[c].stage = "evict"
    /\ \E popped \in IF Scored = {} THEN {{}} ELSE {{d} : d \in LowestDomains} :
        /\ score' = [d \in Domains |-> IF d \in popped THEN 0 ELSE score[d]]
        /\ orphaned' = orphaned \cup popped
    /\ Goes(c, [proc[c] EXCEPT !.stage = "count"])
    /\ UNCHANGED <<queued, crawled, started, faults, untrimmed, unevicted, late, overtaken>>

-----------------------------------------------------------------------------
\* An exception, or the death of the process; it starts again with another batch.
CrawlFails(c) ==
    /\ proc[c] # Waiting /\ faults < MaxFaults
    /\ faults' = faults + 1
    /\ overtaken' = overtaken \ {c}
    /\ untrimmed' = IF proc[c].stage = "trim" THEN untrimmed \cup {proc[c].at} ELSE untrimmed
    /\ unevicted' = (unevicted \/ proc[c].stage # "push")
    /\ Goes(c, Waiting)
    /\ UNCHANGED <<score, queued, crawled, started, orphaned, late>>

QueueInit ==
    /\ score = [d \in Domains |-> 0] /\ queued = {} /\ crawled = {}
    /\ proc = [c \in Crawlers |-> Waiting]
    /\ started = 0 /\ faults = 0
    /\ overtaken = {} /\ orphaned = {} /\ untrimmed = {} /\ unevicted = FALSE /\ late = {}

\* What a process does with the queue once it has taken a batch.
Advance(c) ==
    \/ \E d \in Domains : PopUrl(c, d) \/ AddUrls(c, d)
    \/ LookAtDomain(c) \/ RescoreDomain(c)
    \/ CrawlAndRecord(c)
    \/ ScoreDomains(c) \/ TrimUrls(c)
    \/ CountDomains(c) \/ EvictDomain(c)

-----------------------------------------------------------------------------
(* Properties. *)

Stages == {"waiting", "pop", "look", "rescore", "score", "add", "trim",
           "count", "evict", "push"}

\* Types of the variables.
QueueTypeOK ==
    /\ score \in [Domains -> Nat]
    /\ queued \subseteq Urls /\ crawled \subseteq Urls /\ late \subseteq Urls
    /\ proc \in [Crawlers -> [stage : Stages, todo : SUBSET Domains,
                              at : Domains \cup {NoDomain}, low : Nat,
                              batch : SUBSET Urls, found : SUBSET Urls]]
    /\ started \in Nat /\ faults \in Nat
    /\ overtaken \subseteq Crawlers
    /\ orphaned \subseteq Domains /\ untrimmed \subseteq Domains /\ unevicted \in BOOLEAN

\* No domain keeps more URLs than get_domain_max_urls allows: URLs are added and trimmed in
\* two commands, but every process trims after it has added, so only one that is between
\* the two, or that has died there, leaves more.
UrlsBounded ==
    \A d \in Domains :
        \/ Cardinality(UrlsOf(d, queued)) <= MaxUrls[d]
        \/ d \in untrimmed
        \/ \E c \in Crawlers : proc[c].stage = "trim" /\ proc[c].at = d

\* Nor are there more than MAX_OTHER_DOMAINS domains once all processes have gone through
\* the loop that evicts them, though scores are added back for domains already evicted.
DomainsBounded ==
    \/ Cardinality(Scored) <= MaxDomains
    \/ unevicted
    \/ \E c \in Crawlers : proc[c].stage \notin {"waiting", "push"}

\* A queued URL is not lost to get_batch, which asks for the domains that are polled and those
\* with the highest scores: its domain is polled or has a score, high enough or not.  The
\* exceptions are two: the domain was evicted, or zrem removed its score on the strength of
\* a look at its set that queue_urls had overtaken.  Processes may die anywhere.
UrlsReachable ==
    \A u \in queued : DomainOf[u] \in Polled \/ score[DomainOf[u]] > 0
                      \/ DomainOf[u] \in orphaned

\* "Mark it as crawled now so it isn't immediately re-queued" (update_found_urls): what was
\* crawled this month is in the queue only if it was, or another process was already about
\* to put it there, when it was recorded.
CrawledNotRequeued == Recent => crawled \cap queued \subseteq late
=============================================================================

----------------------------- MODULE IndexPages -----------------------------
(***************************************************************************)
(* The pages of the index file and everybody who rewrites them: the        *)
(* indexing paths (index_pages), curation (views.py) and the purge of      *)
(* blacklisted documents (purge_documents).                                *)
(*                                                                         *)
(* A page is rewritten whole: get_page, compute, store_in_page, with no    *)
(* lock between processes.  An actor therefore HOLDS the new content of a  *)
(* page between its read and its write, and the write itself (a memcpy     *)
(* into the shared mapping) is two steps, so that a reader can meet it     *)
(* half done.                                                              *)
(*                                                                         *)
(* A document is its URL, the term it is filed under and whether its state *)
(* is one of CURATED_STATES; scores, extracts, users and dates are left    *)
(* out, and the order of a page with them: every order the ranker could    *)
(* choose is a choice of which documents survive.                          *)
(***************************************************************************)
EXTENDS Naturals, FiniteSets

CONSTANTS
    Urls, Terms, Pages,
    PageOf,       \* term -> page: get_key_page_index
    Tokens,       \* url -> the terms tokenize_document derives from the document
    Words,        \* url -> the query terms whose words all occur in the document
    TitleOf,      \* url -> title
    PageCapacity, \* documents that fit on a page
    Writers,      \* threads running index_pages
    Purger,       \* the background process
    Curators,     \* threads handling curation requests
    MaxJobs,      \* bound on indexing jobs and curation requests
    MaxCrashes,   \* bound on crashes
    NoPage        \* "holds no page"

Actors == Writers \cup Curators \cup {Purger}
Copies == [url : Urls, term : Terms]
Documents == [url : Urls, term : Terms, curated : BOOLEAN]
CurationRows == [term : Terms, original : SUBSET Documents]

ASSUME IndexConstants ==
    /\ PageOf \in [Terms -> Pages]
    /\ Tokens \in [Urls -> SUBSET Terms]
    /\ Words \in [Urls -> SUBSET Terms]
    /\ DOMAIN TitleOf = Urls
    /\ PageCapacity \in Nat /\ MaxJobs \in Nat /\ MaxCrashes \in Nat
    /\ Purger \notin Writers \cup Curators /\ Writers \cap Curators = {}
    /\ NoPage \notin [page : Pages, new : SUBSET Documents, copying : BOOLEAN]

VARIABLES
    page,       \* page -> the documents stored there
    held,       \* actor -> the page it has read and will overwrite, or NoPage
    indexing,   \* writer -> copies index_pages has still to file
    curations,  \* Curation rows: a term and its original_index_results
    reverting,  \* curator -> the row it deletes when it has reverted it, if any
    purging,    \* documents the running purge is removing
    purgeTodo,  \* pages it has still to visit
    jobs, crashes   \* counters for the bounds

curateVars == <<curations, reverting>>
purgeVars  == <<purging, purgeTodo>>
vars == <<page, held, indexing, curateVars, purgeVars, jobs, crashes>>

-----------------------------------------------------------------------------
(* Documents and pages. *)

CopyOf(d) == [url |-> d.url, term |-> d.term]

\* preprocess_documents and index_results_against_query make documents with no state.
Fresh(copies) == {[url |-> c.url, term |-> c.term, curated |-> FALSE] : c \in copies}

Curated(docs) == {d \in docs : d.curated}
Conflict(d, e) == d.url = e.url \/ TitleOf[d.url] = TitleOf[e.url]

\* What keeping the first of each URL and title can leave of docs, over every order.
Deduplicated(docs) ==
    {R \in SUBSET docs :
        /\ \A d, e \in R : d # e => ~Conflict(d, e)
        /\ \A d \in docs \ R : \E e \in R : Conflict(d, e)}

\* combine_documents: the existing curated documents sort first, so they win.
Combined(existing, new) ==
    {R \in Deduplicated(existing \cup new) :
        R \cap Curated(existing) \in Deduplicated(Curated(existing))}

\* _write_page stores the longest prefix that fits; first is the part that comes first.
Trimmed(docs, first) ==
    {K \in SUBSET docs :
        /\ Cardinality(K) = IF Cardinality(docs) <= PageCapacity
                            THEN Cardinality(docs) ELSE PageCapacity
        /\ first \subseteq K \/ K \subseteq first}

Copying(x) == held[x] # NoPage /\ held[x].copying

\* _get_page_tuples: a read that overlaps a write may see either content, or bytes
\* that do not decompress, which it takes for an empty page.  (Bytes that decompress and are
\* not JSON raise: the reader is then where Crash leaves it.)
GetPage(p) ==
    LET torn == {x \in Actors : Copying(x) /\ held[x].page = p}
    IN  {page[p]} \cup (IF torn = {} THEN {} ELSE {{}} \cup {held[x].new : x \in torn})

Hold(x, p, new) ==
    held' = [held EXCEPT ![x] = [page |-> p, new |-> new, copying |-> FALSE]]

\* x is done with its page.  Of another copy to that page that has begun it may have
\* overwritten a part, and what that one leaves in the end then does not decompress.
Release(x) ==
    \E spoilt \in SUBSET {y \in Actors \ {x} :
                              Copying(x) /\ Copying(y) /\ held[y].page = held[x].page} :
        held' = [y \in Actors |->
                    IF y = x THEN NoPage
                    ELSE IF y \in spoilt THEN [held[y] EXCEPT !.new = {}] ELSE held[y]]

StartJob == jobs < MaxJobs /\ jobs' = jobs + 1

-----------------------------------------------------------------------------
(* store_in_page, for whichever actor holds a page. *)

StoreBegin(x) ==
    /\ held[x] # NoPage /\ ~held[x].copying
    /\ held' = [held EXCEPT ![x].copying = TRUE]
    /\ UNCHANGED <<page, indexing, curateVars, purgeVars, jobs, crashes>>

StoreEnd(x) ==
    /\ Copying(x)
    /\ page' = [page EXCEPT ![held[x].page] = held[x].new]
    /\ Release(x)
    /\ UNCHANGED <<indexing, curateVars, purgeVars, jobs, crashes>>

-----------------------------------------------------------------------------
(* Indexing.  us are the URLs that passed the blacklist filter of the path. *)

\* index_documents: a copy under each of the document's tokens.
IndexDocuments(w, us) ==
    /\ indexing[w] = {} /\ held[w] = NoPage
    /\ StartJob
    /\ indexing' = [indexing EXCEPT ![w] =
            {c \in Copies : c.url \in us /\ c.term \in Tokens[c.url]}]
    /\ UNCHANGED <<page, held, curateVars, purgeVars, crashes>>

\* index_results_against_query: a copy under each query term the document matches.
IndexResultsAgainstQuery(w, us, query) ==
    /\ indexing[w] = {} /\ held[w] = NoPage
    /\ StartJob
    /\ indexing' = [indexing EXCEPT ![w] =
            {c \in Copies : c.url \in us /\ c.term \in query \cap Words[c.url]}]
    /\ UNCHANGED <<page, held, curateVars, purgeVars, crashes>>

\* One round of the loop in index_pages: read a page and combine it with its new documents.
IndexPage(w, p) ==
    LET mine == {c \in indexing[w] : PageOf[c.term] = p}
    IN  /\ held[w] = NoPage
        /\ mine # {}
        /\ \E existing \in GetPage(p) :
           \E docs \in Combined(existing, Fresh(mine)) :
           \E new \in Trimmed(docs, docs \cap Curated(existing)) : Hold(w, p, new)
        /\ indexing' = [indexing EXCEPT ![w] = @ \ mine]
        /\ UNCHANGED <<page, curateVars, purgeVars, jobs, crashes>>

-----------------------------------------------------------------------------
(* Curation.  _get_curation makes a row that remembers the term's documents, *)
(* or updates the row the request names.  Rows that remember the same        *)
(* documents under the same term are one.                                    *)

\* Mutant: the row remembers the documents without their states.
RememberOriginalNoStates(t) ==
    \E docs \in GetPage(PageOf[t]) :
        curations' = curations \cup
            {[term |-> t, original |-> {CopyOf(d) : d \in {e \in docs : e.term = t}}]}

RememberOriginal(t) ==
    \/ \E docs \in GetPage(PageOf[t]) :
          curations' = curations \cup {[term |-> t, original |-> {d \in docs : d.term = t}]}
    \/ (\E c \in curations : c.term = t) /\ UNCHANGED curations

\* _save_to_index: the approved results first, then what else was on the page; a document
\* the request lists without approving it takes the state listed, whatever its term.
ApprovedDocuments(t, approved) ==
    {[url |-> u, term |-> t, curated |-> TRUE] : u \in approved}

\* Mutant: the approved results are not taken off the rest of the page.
OtherDocumentsAll(existing, approved, others) ==
    {[d EXCEPT !.curated = @ /\ d.url \notin others] : d \in existing}

OtherDocuments(existing, approved, others) ==
    {[d EXCEPT !.curated = @ /\ d.url \notin others] :
        d \in {e \in existing : e.url \notin approved}}

SaveToIndex(x, t, approved, others) ==
    LET first == ApprovedDocuments(t, approved)
    IN  /\ held[x] = NoPage /\ reverting[x] = {}
        /\ StartJob
        /\ RememberOriginal(t)
        /\ \E existing \in GetPage(PageOf[t]) :
           \E new \in Trimmed(first \cup OtherDocuments(existing, approved, others), first) :
              Hold(x, PageOf[t], new)
        /\ UNCHANGED <<page, indexing, reverting, purgeVars, crashes>>

\* _revert_curation: the remembered documents replace the term's.  Called by
\* revert_current_curation, which then deletes the row, and by flag_curation_update, which
\* keeps it (and is bounded, as it can be repeated).
RevertCuration(x, c) ==
    /\ held[x] = NoPage /\ reverting[x] = {}
    /\ c \in curations
    /\ \E existing \in GetPage(PageOf[c.term]) :
        LET rest == {d \in existing : d.term # c.term}
        IN  \E new \in Trimmed(c.original \cup rest, c.original) : Hold(x, PageOf[c.term], new)
    /\ \/ reverting' = [reverting EXCEPT ![x] = {c}] /\ UNCHANGED jobs
       \/ StartJob /\ UNCHANGED reverting
    /\ UNCHANGED <<page, indexing, curations, purgeVars, crashes>>

DeleteCuration(x) ==
    /\ held[x] = NoPage /\ reverting[x] # {}
    /\ curations' = curations \ reverting[x]
    /\ reverting' = [reverting EXCEPT ![x] = {}]
    /\ UNCHANGED <<page, held, indexing, purgeVars, jobs, crashes>>

-----------------------------------------------------------------------------
(* Purging. *)

\* Mutant: only the pages of the document's own tokens.
PagesForTokens(c) == {PageOf[t] : t \in Tokens[c.url]}

\* pages_for_document: the pages of the document's own tokens and of the term it is under.
PagesFor(c) == {PageOf[t] : t \in Tokens[c.url] \cup {c.term}}

UrlsToPurge(p) == {c.url : c \in {d \in purging : p \in PagesFor(d)}}

\* The head of purge_documents: which URLs to remove from which pages.
PurgeDocuments(targets) ==
    /\ purgeTodo = {} /\ held[Purger] = NoPage
    /\ purging' = targets
    /\ purgeTodo' = UNION {PagesFor(c) : c \in targets}
    /\ UNCHANGED <<page, held, indexing, curateVars, jobs, crashes>>

\* One round of its loop; a page without the URLs is not rewritten.
PurgePage(p) ==
    /\ held[Purger] = NoPage
    /\ p \in purgeTodo
    /\ \E docs \in GetPage(p) :
        LET kept == {d \in docs : d.url \notin UrlsToPurge(p)}
        IN  IF kept = docs THEN UNCHANGED held ELSE Hold(Purger, p, kept)
    /\ purgeTodo' = purgeTodo \ {p}
    /\ UNCHANGED <<page, indexing, curateVars, purging, jobs, crashes>>

-----------------------------------------------------------------------------
\* A process dies: what it was filing or purging is lost, and a page it was writing keeps
\* what the copy had got to.
Crash(x) ==
    /\ crashes < MaxCrashes
    /\ crashes' = crashes + 1
    /\ \/ held[x] # NoPage
       \/ x \in Writers /\ indexing[x] # {}
       \/ x \in Curators /\ reverting[x] # {}
       \/ x = Purger /\ purgeTodo # {}
    /\ IF Copying(x)
       THEN \E docs \in GetPage(held[x].page) : page' = [page EXCEPT ![held[x].page] = docs]
       ELSE UNCHANGED page
    /\ Release(x)
    /\ indexing' = [w \in Writers |-> IF w = x THEN {} ELSE indexing[w]]
    /\ reverting' = [y \in Curators |-> IF y = x THEN {} ELSE reverting[y]]
    /\ purging' = IF x = Purger THEN {} ELSE purging
    /\ purgeTodo' = IF x = Purger THEN {} ELSE purgeTodo
    /\ UNCHANGED <<curations, jobs>>

-----------------------------------------------------------------------------
Init ==
    /\ page = [p \in Pages |-> {}]
    /\ held = [x \in Actors |-> NoPage]
    /\ indexing = [w \in Writers |-> {}]
    /\ curations = {}
    /\ reverting = [x \in Curators |-> {}]
    /\ purging = {} /\ purgeTodo = {}
    /\ jobs = 0 /\ crashes = 0

Store == \E x \in Actors : StoreBegin(x) \/ StoreEnd(x)

Curate ==
    \E x \in Curators :
        \/ \E t \in Terms, approved \in SUBSET Urls : \E others \in SUBSET (Urls \ approved) :
              SaveToIndex(x, t, approved, others)
        \/ \E c \in curations : RevertCuration(x, c)
        \/ DeleteCuration(x)

Index ==
    \/ \E w \in Writers, us \in SUBSET Urls : IndexDocuments(w, us)
    \/ \E w \in Writers, us \in SUBSET Urls, query \in SUBSET Terms :
          IndexResultsAgainstQuery(w, us, query)
    \/ \E w \in Writers, p \in Pages : IndexPage(w, p)

Purge == \E targets \in SUBSET Copies : PurgeDocuments(targets)

OtherStep ==
    \/ Store \/ Index \/ Curate
    \/ \E p \in Pages : PurgePage(p)
    \/ \E x \in Actors : Crash(x)

Next == Purge \/ OtherStep

Spec == Init /\ [][Next]_vars

-----------------------------------------------------------------------------
(* Properties. *)

\* Types of the variables.
TypeOK ==
    /\ page \in [Pages -> SUBSET Documents]
    /\ held \in [Actors -> {NoPage} \cup
                    [page : Pages, new : SUBSET Documents, copying : BOOLEAN]]
    /\ indexing \in [Writers -> SUBSET Copies]
    /\ curations \subseteq CurationRows /\ reverting \in [Curators -> SUBSET CurationRows]
    /\ purging \subseteq Copies /\ purgeTodo \subseteq Pages
    /\ jobs \in Nat /\ crashes \in Nat

WellFiled(p, docs) == \A d \in docs : PageOf[d.term] = p
OneCopy(docs) == \A d, e \in docs : CopyOf(d) = CopyOf(e) => d = e

\* Whatever the writers, the curator and the purge do to each other's rewrites, a document
\* is only ever stored on the page retrieval looks in for its term, and a page never holds
\* two versions (curated and not) of one URL under one term.
PagesWellFormed ==
    \A p \in Pages : WellFiled(p, page[p]) /\ OneCopy(page[p])

=============================================================================

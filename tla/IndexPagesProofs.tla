-------------------------- MODULE IndexPagesProofs --------------------------
(***************************************************************************)
(* For every set of URLs, terms, pages and writers, every page capacity    *)
(* and every assignment of tokens, titles and pages: pages stay well       *)
(* formed, and a run of the purge removes every copy it was given, on      *)
(* every page that nobody else was writing to meanwhile.                   *)
(*                                                                         *)
(* PagesWellFormed speaks of the stored pages only; Inv adds the contents  *)
(* actors hold between a read and a write and the documents curations      *)
(* remember, which is what is stored next.  RunInv follows a run page by   *)
(* page: still to visit, being written without the URLs, or clean.         *)
(***************************************************************************)
EXTENDS PurgeEffect, FiniteSetTheorems, TLAPS

Good(p, docs) == docs \subseteq Documents /\ WellFiled(p, docs) /\ OneCopy(docs)

HeldPage == [page : Pages, new : SUBSET Documents, copying : BOOLEAN]

Remembered(c) == OneCopy(c.original) /\ \A d \in c.original : d.term = c.term

WellFormed ==
    /\ \A p \in Pages : Good(p, page[p])
    /\ \A x \in Actors : held[x] # NoPage => Good(held[x].page, held[x].new)
    /\ \A c \in curations : Remembered(c)

Inv == TypeOK /\ WellFormed

-----------------------------------------------------------------------------
(* What the helpers return. *)

LEMMA SubsetGood ==
    ASSUME NEW p, NEW docs, Good(p, docs), NEW some \in SUBSET docs
    PROVE  Good(p, some)
BY DEF Good, WellFiled, OneCopy

LEMMA TrimmedSubset ==
    ASSUME NEW docs, NEW first, NEW new \in Trimmed(docs, first)
    PROVE  new \subseteq docs
BY DEF Trimmed

\* A read sees a good page, even one that overlaps a write.
LEMMA GetPageGood ==
    ASSUME Inv, NEW p \in Pages, NEW docs \in GetPage(p)
    PROVE  Good(p, docs)
<1>1. CASE docs = page[p]
  BY <1>1 DEF Inv, WellFormed
<1>2. CASE docs = {}
  BY <1>2 DEF Good, WellFiled, OneCopy
<1>3. ASSUME NEW x \in Actors, held[x] # NoPage, held[x].page = p, docs = held[x].new
      PROVE  Good(p, docs)
  BY <1>3 DEF Inv, WellFormed
<1>4. QED BY <1>1, <1>2, <1>3 DEF GetPage, Copying

LEMMA FreshDocuments ==
    ASSUME NEW copies \in SUBSET Copies
    PROVE  /\ Fresh(copies) \subseteq Documents
           /\ \A d \in Fresh(copies) : CopyOf(d) \in copies
<1>1. ASSUME NEW c \in copies
      PROVE  LET d == [url |-> c.url, term |-> c.term, curated |-> FALSE]
             IN  d \in Documents /\ CopyOf(d) = c
  BY DEF Copies, Documents, CopyOf
<1>2. QED BY <1>1 DEF Fresh

\* Combining keeps one document per URL, so one copy.
LEMMA CombinedGood ==
    ASSUME NEW p, NEW existing, Good(p, existing),
           NEW copies \in SUBSET Copies, \A c \in copies : PageOf[c.term] = p,
           NEW docs \in Combined(existing, Fresh(copies))
    PROVE  Good(p, docs)
<1>1. docs \subseteq existing \cup Fresh(copies)
  BY DEF Combined, Deduplicated
<1>2. docs \subseteq Documents
  BY <1>1, FreshDocuments DEF Good
<1>3. WellFiled(p, docs)
  BY <1>1, FreshDocuments DEF Good, WellFiled, CopyOf
<1>4. OneCopy(docs)
  <2>1. \A d, e \in docs : d # e => d.url # e.url
    BY DEF Combined, Deduplicated, Conflict
  <2>2. QED BY <2>1 DEF OneCopy, CopyOf
<1>5. QED BY <1>2, <1>3, <1>4 DEF Good

-----------------------------------------------------------------------------
(* Actors that hold a page. *)

LEMMA HoldPage ==
    ASSUME Inv, NEW x \in Actors, NEW p \in Pages, NEW new, Good(p, new), Hold(x, p, new)
    PROVE  /\ held' \in [Actors -> {NoPage} \cup HeldPage]
           /\ \A y \in Actors : held'[y] # NoPage => Good(held'[y].page, held'[y].new)
<1> DEFINE h == [page |-> p, new |-> new, copying |-> FALSE]
<1>1. h \in HeldPage
  BY DEF HeldPage, Good
<1>2. held' = [held EXCEPT ![x] = h]
  BY DEF Hold
<1>3. held' \in [Actors -> {NoPage} \cup HeldPage]
  BY <1>1, <1>2 DEF Inv, TypeOK, HeldPage
<1>4. h.page = p /\ h.new = new
  OBVIOUS
<1>5. ASSUME NEW y \in Actors, held'[y] # NoPage PROVE Good(held'[y].page, held'[y].new)
  <2>1. CASE y = x
    <3>1. held'[y] = h
      BY <1>2, <2>1 DEF Inv, TypeOK
    <3>2. QED BY <1>4, <3>1
  <2>2. CASE y # x
    BY <1>2, <1>5, <2>2 DEF Inv, TypeOK, WellFormed
  <2>3. QED BY <2>1, <2>2
<1>6. QED BY <1>3, <1>5

\* What others hold when x lets its page go is what they held, or nothing if it was spoilt.
LEMMA ReleaseLeaves ==
    ASSUME Inv, IndexConstants, NEW x \in Actors, Release(x)
    PROVE  /\ held'[x] = NoPage
           /\ \A y \in Actors \ {x} :
                \/ held'[y] = held[y]
                \/ /\ held[y] # NoPage /\ held'[y] # NoPage /\ held'[y] \in HeldPage
                   /\ Copying(x) /\ Copying(y) /\ held[y].page = held[x].page
                   /\ held'[y].page = held[y].page /\ held'[y].new = {}
<1>1. PICK spoilt \in SUBSET {y \in Actors \ {x} :
                                 Copying(x) /\ Copying(y) /\ held[y].page = held[x].page} :
        held' = [y \in Actors |->
                    IF y = x THEN NoPage
                    ELSE IF y \in spoilt THEN [held[y] EXCEPT !.new = {}] ELSE held[y]]
  BY DEF Release
<1>2. held'[x] = NoPage
  BY <1>1
<1>3. ASSUME NEW y \in Actors \ {x}, y \in spoilt
      PROVE  /\ held[y] # NoPage /\ held'[y] # NoPage /\ held'[y] \in HeldPage
             /\ Copying(x) /\ Copying(y) /\ held[y].page = held[x].page
             /\ held'[y].page = held[y].page /\ held'[y].new = {}
  <2>1. Copying(x) /\ Copying(y) /\ held[y].page = held[x].page
    BY <1>1, <1>3
  <2>2. held[y] # NoPage /\ held[y] \in HeldPage
    BY <2>1 DEF Copying, Inv, TypeOK, HeldPage
  <2>3. held'[y] = [held[y] EXCEPT !.new = {}]
    BY <1>1, <1>3
  <2>4. held'[y] \in HeldPage /\ held'[y].page = held[y].page /\ held'[y].new = {}
    BY <2>2, <2>3 DEF HeldPage
  <2>5. QED BY <2>1, <2>2, <2>4 DEF IndexConstants, HeldPage
<1>4. ASSUME NEW y \in Actors \ {x}, y \notin spoilt PROVE held'[y] = held[y]
  BY <1>1, <1>4
<1>5. QED BY <1>2, <1>3, <1>4

LEMMA DropPage ==
    ASSUME Inv, IndexConstants, NEW x \in Actors, Release(x)
    PROVE  /\ held' \in [Actors -> {NoPage} \cup HeldPage]
           /\ \A y \in Actors : held'[y] # NoPage => Good(held'[y].page, held'[y].new)
<1>1. \A y \in Actors : held'[y] \in {NoPage} \cup HeldPage
  BY ReleaseLeaves DEF Inv, TypeOK, HeldPage
<1>2. held' \in [Actors -> {NoPage} \cup HeldPage]
  <2>1. PICK spoilt : held' = [y \in Actors |->
                    IF y = x THEN NoPage
                    ELSE IF y \in spoilt THEN [held[y] EXCEPT !.new = {}] ELSE held[y]]
    BY DEF Release
  <2>2. QED BY <1>1, <2>1
<1>3. ASSUME NEW y \in Actors, held'[y] # NoPage PROVE Good(held'[y].page, held'[y].new)
  <2>1. CASE held'[y] = held[y]
    BY <1>3, <2>1 DEF Inv, WellFormed
  <2>2. CASE held'[y].new = {}
    BY <2>2 DEF Good, WellFiled, OneCopy
  <2>3. QED BY <1>3, <2>1, <2>2, ReleaseLeaves
<1>4. QED BY <1>2, <1>3

\* A page is overwritten with a good content.
LEMMA StorePage ==
    ASSUME Inv, NEW p \in Pages, NEW docs, Good(p, docs), page' = [page EXCEPT ![p] = docs]
    PROVE  page' \in [Pages -> SUBSET Documents] /\ \A q \in Pages : Good(q, page'[q])
<1>1. \A q \in Pages : page'[q] = IF q = p THEN docs ELSE page[q]
  BY DEF Inv, TypeOK
<1>2. \A q \in Pages : Good(q, page'[q])
  BY <1>1 DEF Inv, WellFormed
<1>3. \A q \in Pages : page'[q] \in SUBSET Documents
  BY <1>2 DEF Good
<1>4. QED BY <1>2, <1>3 DEF Inv, TypeOK

LEMMA HeldType ==
    ASSUME Inv, NEW x \in Actors, held[x] # NoPage
    PROVE  held[x] \in HeldPage /\ held[x].page \in Pages /\ Good(held[x].page, held[x].new)
BY DEF Inv, TypeOK, HeldPage, WellFormed

-----------------------------------------------------------------------------
(* The steps. *)

LEMMA StoreInv ==
    ASSUME Inv, IndexConstants, NEW x \in Actors, StoreBegin(x) \/ StoreEnd(x) PROVE Inv'
<1>1. CASE StoreBegin(x)
  <2> DEFINE h == [held[x] EXCEPT !.copying = TRUE]
  <2>1. held[x] \in HeldPage /\ Good(held[x].page, held[x].new)
    BY <1>1, HeldType DEF StoreBegin
  <2>2. h \in HeldPage /\ h.page = held[x].page /\ h.new = held[x].new
    BY <2>1 DEF HeldPage
  <2>3. held' = [held EXCEPT ![x] = h]
    BY <1>1 DEF StoreBegin
  <2>4. held' \in [Actors -> {NoPage} \cup HeldPage]
    BY <2>2, <2>3 DEF Inv, TypeOK, HeldPage
  <2>5. \A y \in Actors : held'[y] # NoPage => Good(held'[y].page, held'[y].new)
    BY <2>1, <2>2, <2>3 DEF Inv, TypeOK, WellFormed
  <2>6. QED
    BY <1>1, <2>4, <2>5 DEF StoreBegin, Inv, TypeOK, WellFormed, HeldPage, curateVars, purgeVars
<1>2. CASE StoreEnd(x)
  <2>1. held[x].page \in Pages /\ Good(held[x].page, held[x].new)
    BY <1>2, HeldType DEF StoreEnd, Copying
  <2>2. page' \in [Pages -> SUBSET Documents] /\ \A q \in Pages : Good(q, page'[q])
    BY <1>2, <2>1, StorePage DEF StoreEnd
  <2>3. QED
    BY <1>2, <2>2, DropPage
    DEF StoreEnd, Inv, TypeOK, WellFormed, HeldPage, curateVars, purgeVars
<1>3. QED BY <1>1, <1>2

LEMMA IndexInv == ASSUME Inv, Index PROVE Inv'
<1>1. ASSUME NEW w \in Writers, NEW us \in SUBSET Urls, NEW query \in SUBSET Terms,
             IndexDocuments(w, us) \/ IndexResultsAgainstQuery(w, us, query)
      PROVE  Inv'
  <2>1. indexing' \in [Writers -> SUBSET Copies] /\ jobs' \in Nat
    BY <1>1 DEF IndexDocuments, IndexResultsAgainstQuery, StartJob, Inv, TypeOK
  <2>2. UNCHANGED <<page, held, curations, reverting, purging, purgeTodo, crashes>>
    BY <1>1 DEF IndexDocuments, IndexResultsAgainstQuery, curateVars, purgeVars
  <2>3. QED BY <2>1, <2>2 DEF Inv, TypeOK, WellFormed
<1>2. ASSUME NEW w \in Writers, NEW p \in Pages, IndexPage(w, p) PROVE Inv'
  <2> DEFINE mine == {c \in indexing[w] : PageOf[c.term] = p}
  <2>1. mine \in SUBSET Copies
    BY DEF Inv, TypeOK
  <2>2. PICK existing \in GetPage(p) : \E docs \in Combined(existing, Fresh(mine)) :
            \E new \in Trimmed(docs, docs \cap Curated(existing)) : Hold(w, p, new)
    BY <1>2 DEF IndexPage
  <2>3. PICK docs \in Combined(existing, Fresh(mine)) :
            \E new \in Trimmed(docs, docs \cap Curated(existing)) : Hold(w, p, new)
    BY <2>2
  <2>4. PICK new \in Trimmed(docs, docs \cap Curated(existing)) : Hold(w, p, new)
    BY <2>3
  <2>5. Good(p, docs)
    <3>1. \A c \in mine : PageOf[c.term] = p
      OBVIOUS
    <3>2. QED BY <2>1, <3>1, GetPageGood, CombinedGood
  <2>6. Good(p, new)
    BY <2>5, TrimmedSubset, SubsetGood
  <2>7. indexing' \in [Writers -> SUBSET Copies]
    BY <1>2 DEF IndexPage, Inv, TypeOK
  <2>8. UNCHANGED <<page, curations, reverting, purging, purgeTodo, jobs, crashes>>
    BY <1>2 DEF IndexPage, curateVars, purgeVars
  <2>9. w \in Actors
    BY DEF Actors
  <2>10. QED
    BY <2>4, <2>6, <2>7, <2>8, <2>9, HoldPage DEF Inv, TypeOK, WellFormed, HeldPage
<1>3. QED BY <1>1, <1>2 DEF Index

\* Remembering the documents a term has now, or leaving the rows alone.
LEMMA RememberInv ==
    ASSUME Inv, IndexConstants, NEW t \in Terms, RememberOriginal(t)
    PROVE  curations' \subseteq CurationRows /\ \A c \in curations' : Remembered(c)
<1>1. ASSUME NEW docs \in GetPage(PageOf[t]),
             curations' = curations \cup {[term |-> t, original |-> {d \in docs : d.term = t}]}
      PROVE  curations' \subseteq CurationRows /\ \A c \in curations' : Remembered(c)
  <2> DEFINE mine == {d \in docs : d.term = t}
             row == [term |-> t, original |-> mine]
  <2>1. Good(PageOf[t], docs)
    BY GetPageGood DEF IndexConstants
  <2>2. mine \in SUBSET Documents /\ OneCopy(mine) /\ \A d \in mine : d.term = t
    BY <2>1 DEF Good, OneCopy
  <2>3. curations' = curations \cup {row}
    BY <1>1
  <2> HIDE DEF mine
  <2>4. row \in CurationRows /\ Remembered(row)
    BY <2>2 DEF CurationRows, Remembered
  <2> HIDE DEF row
  <2>5. QED BY <2>3, <2>4 DEF Inv, TypeOK, WellFormed
<1>2. CASE UNCHANGED curations
  BY <1>2 DEF Inv, TypeOK, WellFormed
<1>3. QED BY <1>1, <1>2 DEF RememberOriginal

\* The approved documents and what else was on the page share no URL.
LEMMA SavedPageGood ==
    ASSUME NEW p, NEW existing, Good(p, existing), NEW t \in Terms, PageOf[t] = p,
           NEW approved \in SUBSET Urls, NEW others \in SUBSET Urls
    PROVE  Good(p, ApprovedDocuments(t, approved) \cup OtherDocuments(existing, approved, others))
<1> DEFINE first == ApprovedDocuments(t, approved)
           other(d) == [d EXCEPT !.curated = @ /\ d.url \notin others]
           rest == OtherDocuments(existing, approved, others)
<1>0. rest = {other(d) : d \in {e \in existing : e.url \notin approved}}
  BY DEF OtherDocuments
<1>1. \A d \in existing : /\ other(d) \in Documents
                         /\ other(d).url = d.url /\ other(d).term = d.term
  BY DEF Good, Documents
<1> HIDE DEF other, rest
<1>2. \A d \in first : d \in Documents /\ d.url \in approved /\ d.term = t /\ d.curated
  <2>1. ASSUME NEW u \in approved
        PROVE  LET d == [url |-> u, term |-> t, curated |-> TRUE]
               IN  d \in Documents /\ d.url \in approved /\ d.term = t /\ d.curated
    BY DEF Documents
  <2>2. QED BY <2>1 DEF ApprovedDocuments
<1>3. \A d, e \in first : d.url = e.url => d = e
  <2>1. \A d \in first : d = [url |-> d.url, term |-> t, curated |-> TRUE]
    BY DEF ApprovedDocuments
  <2>2. QED BY <2>1
<1>4. \A d \in rest : d \in Documents /\ d.url \notin approved /\ PageOf[d.term] = p
  BY <1>0, <1>1 DEF Good, WellFiled
<1>5. \A d, e \in rest : CopyOf(d) = CopyOf(e) => d = e
  <2>1. \A d, e \in existing : CopyOf(other(d)) = CopyOf(other(e)) => d = e
    BY <1>1 DEF Good, OneCopy, CopyOf
  <2>2. QED BY <1>0, <2>1
<1> HIDE DEF first
<1>6. \A d, e \in first \cup rest : CopyOf(d) = CopyOf(e) => d = e
  BY <1>2, <1>3, <1>4, <1>5 DEF CopyOf
<1>7. Good(p, first \cup rest)
  BY <1>2, <1>4, <1>6 DEF Good, WellFiled, OneCopy
<1>8. QED BY <1>7 DEF first, rest

\* The remembered documents are the term's, the rest are not.
LEMMA RevertedPageGood ==
    ASSUME NEW p, NEW existing, Good(p, existing), NEW t \in Terms, PageOf[t] = p,
           NEW original \in SUBSET Documents, OneCopy(original), \A d \in original : d.term = t
    PROVE  Good(p, original \cup {d \in existing : d.term # t})
BY DEF Good, WellFiled, OneCopy, CopyOf

LEMMA SaveInv ==
    ASSUME Inv, IndexConstants, NEW x \in Curators, NEW t \in Terms,
           NEW approved \in SUBSET Urls, NEW others \in SUBSET Urls,
           SaveToIndex(x, t, approved, others)
    PROVE  Inv'
<1> DEFINE p == PageOf[t]
           first == ApprovedDocuments(t, approved)
           all(existing) == first \cup OtherDocuments(existing, approved, others)
<1>1. p \in Pages /\ x \in Actors
  BY DEF IndexConstants, Actors
<1>2. PICK existing \in GetPage(p) :
          \E new \in Trimmed(all(existing), first) : Hold(x, p, new)
  BY DEF SaveToIndex
<1>3. PICK new \in Trimmed(all(existing), first) : Hold(x, p, new)
  BY <1>2
<1>4. Good(p, all(existing))
  BY <1>1, GetPageGood, SavedPageGood
<1> HIDE DEF first, all
<1>5. Good(p, new)
  BY <1>4, TrimmedSubset, SubsetGood
<1>6. RememberOriginal(t) /\ jobs' \in Nat
      /\ UNCHANGED <<page, indexing, reverting, purging, purgeTodo, crashes>>
  BY DEF SaveToIndex, StartJob, purgeVars, Inv, TypeOK
<1>7. QED
  BY <1>1, <1>3, <1>5, <1>6, HoldPage, RememberInv DEF Inv, TypeOK, WellFormed, HeldPage

LEMMA RevertInv ==
    ASSUME Inv, IndexConstants, NEW x \in Curators, NEW c \in curations, RevertCuration(x, c)
    PROVE  Inv'
<1> DEFINE p == PageOf[c.term]
           reverted(existing) == c.original \cup {d \in existing : d.term # c.term}
<1>0. c \in CurationRows /\ c.term \in Terms /\ c.original \in SUBSET Documents
  BY DEF Inv, TypeOK, CurationRows
<1>1. p \in Pages /\ x \in Actors
  BY <1>0 DEF IndexConstants, Actors
<1>2. PICK existing \in GetPage(p) :
          \E new \in Trimmed(reverted(existing), c.original) : Hold(x, p, new)
  BY DEF RevertCuration
<1>3. PICK new \in Trimmed(reverted(existing), c.original) : Hold(x, p, new)
  BY <1>2
<1>4. Good(p, reverted(existing))
  <2>1. OneCopy(c.original) /\ \A d \in c.original : d.term = c.term
    BY DEF Inv, WellFormed, Remembered
  <2>2. QED BY <1>0, <1>1, <2>1, GetPageGood, RevertedPageGood
<1> HIDE DEF reverted
<1>5. Good(p, new)
  BY <1>4, TrimmedSubset, SubsetGood
<1>6. jobs' \in Nat /\ UNCHANGED <<page, indexing, curations, purging, purgeTodo, crashes>>
  BY DEF RevertCuration, StartJob, purgeVars, Inv, TypeOK
<1>7. reverting' \in [Curators -> SUBSET CurationRows]
  BY <1>0 DEF RevertCuration, Inv, TypeOK
<1>8. QED
  BY <1>1, <1>3, <1>5, <1>6, <1>7, HoldPage DEF Inv, TypeOK, WellFormed, HeldPage

LEMMA DeleteInv == ASSUME Inv, NEW x \in Curators, DeleteCuration(x) PROVE Inv'
BY DEF DeleteCuration, purgeVars, Inv, TypeOK, WellFormed

LEMMA CurateInv == ASSUME Inv, IndexConstants, Curate PROVE Inv'
BY SaveInv, RevertInv, DeleteInv DEF Curate

LEMMA PurgeInv ==
    ASSUME Inv, IndexConstants, Purge \/ \E p \in Pages : PurgePage(p)
    PROVE  Inv'
<1>1. ASSUME NEW targets \in SUBSET Copies, PurgeDocuments(targets) PROVE Inv'
  <2>1. UNION {PagesFor(c) : c \in targets} \subseteq Pages
    BY DEF PagesFor, IndexConstants, Copies
  <2>2. QED
    BY <1>1, <2>1 DEF PurgeDocuments, curateVars, Inv, TypeOK, WellFormed
<1>2. ASSUME NEW p \in Pages, PurgePage(p) PROVE Inv'
  <2> DEFINE kept(docs) == {d \in docs : d.url \notin UrlsToPurge(p)}
  <2>1. UNCHANGED <<page, indexing, curations, reverting, purging, jobs, crashes>>
        /\ purgeTodo' \subseteq Pages
    BY <1>2 DEF PurgePage, curateVars, Inv, TypeOK
  <2>2. CASE UNCHANGED held
    BY <2>1, <2>2 DEF Inv, TypeOK, WellFormed
  <2>3. ASSUME NEW docs \in GetPage(p), Hold(Purger, p, kept(docs)) PROVE Inv'
    <3>1. Good(p, kept(docs))
      <4>1. kept(docs) \in SUBSET docs
        OBVIOUS
      <4>2. QED BY <4>1, GetPageGood, SubsetGood
    <3>2. Purger \in Actors
      BY DEF Actors
    <3> HIDE DEF kept
    <3>3. QED BY <2>1, <2>3, <3>1, <3>2, HoldPage DEF Inv, TypeOK, WellFormed, HeldPage
  <2>4. QED BY <1>2, <2>2, <2>3 DEF PurgePage
<1>3. QED BY <1>1, <1>2 DEF Purge

LEMMA CrashInv == ASSUME Inv, IndexConstants, NEW x \in Actors, Crash(x) PROVE Inv'
<1>1. page' \in [Pages -> SUBSET Documents] /\ \A q \in Pages : Good(q, page'[q])
  <2>1. CASE UNCHANGED page
    BY <2>1 DEF Inv, TypeOK, WellFormed
  <2>2. ASSUME held[x] # NoPage, NEW docs \in GetPage(held[x].page),
               page' = [page EXCEPT ![held[x].page] = docs]
        PROVE  page' \in [Pages -> SUBSET Documents] /\ \A q \in Pages : Good(q, page'[q])
    BY <2>2, HeldType, GetPageGood, StorePage
  <2>3. QED BY <2>1, <2>2 DEF Crash, Copying
<1>2. /\ Release(x) /\ crashes' \in Nat
      /\ indexing' \in [Writers -> SUBSET Copies]
      /\ purging' \subseteq Copies /\ purgeTodo' \subseteq Pages
      /\ reverting' \in [Curators -> SUBSET CurationRows]
      /\ UNCHANGED <<curations, jobs>>
  BY DEF Crash, curateVars, Inv, TypeOK
<1>3. QED BY <1>1, <1>2, DropPage DEF Inv, TypeOK, WellFormed, HeldPage

-----------------------------------------------------------------------------
(* The theorems. *)

LEMMA InitInv == IndexConstants /\ Init => Inv
BY DEF Init, Inv, TypeOK, WellFormed, Good, WellFiled, OneCopy

LEMMA NextInv == IndexConstants /\ Inv /\ [Next]_vars => Inv'
<1> SUFFICES ASSUME IndexConstants, Inv, [Next]_vars PROVE Inv'
  OBVIOUS
<1>1. CASE UNCHANGED vars
  BY <1>1 DEF vars, curateVars, purgeVars, Inv, TypeOK, WellFormed
<1>2. CASE Next
  BY <1>2, StoreInv, IndexInv, CurateInv, PurgeInv, CrashInv DEF Next, OtherStep, Store
<1>3. QED BY <1>1, <1>2

\* The inductive invariant: stored pages, the pages actors hold and the documents curations
\* remember are well formed together, as each is what another is rewritten from.
THEOREM Invariance == Spec => []Inv
BY IndexConstants, InitInv, NextInv, PTL DEF Spec

\* Every variable keeps its type: in particular nobody holds or stores anything but
\* documents of the index.
THEOREM TypeCorrect == Spec => []TypeOK
<1>1. Inv => TypeOK
  BY DEF Inv
<1>2. QED BY <1>1, Invariance, PTL

\* Whatever the unlocked read-compute-write cycles of indexing, curation and the purge do to
\* each other's pages, torn reads and crashes included, a stored page only holds documents
\* filed under its own terms, and one version of each.
THEOREM PagesStayWellFormed == Spec => []PagesWellFormed
<1>1. Inv => PagesWellFormed
  BY DEF Inv, WellFormed, Good, PagesWellFormed
<1>2. QED BY <1>1, Invariance, PTL

-----------------------------------------------------------------------------
(* No page outgrows its capacity, whoever writes it: what is written has been *)
(* trimmed, or is part of what was read.                                     *)

Fits(docs) == IsFiniteSet(docs) /\ Cardinality(docs) <= PageCapacity

PagesFit ==
    /\ \A p \in Pages : Fits(page[p])
    /\ \A x \in Actors : held[x] # NoPage => Fits(held[x].new)

LEMMA SubsetFits ==
    ASSUME IndexConstants, NEW docs, Fits(docs), NEW some \in SUBSET docs
    PROVE  Fits(some)
<1>1. /\ IsFiniteSet(some) /\ Cardinality(some) <= Cardinality(docs)
      /\ Cardinality(some) \in Nat /\ Cardinality(docs) \in Nat
  BY FS_Subset, FS_CardinalityType DEF Fits
<1>2. QED BY <1>1 DEF Fits, IndexConstants

LEMMA TrimmedFits ==
    ASSUME IndexConstants, NEW docs, IsFiniteSet(docs), NEW first, NEW new \in Trimmed(docs, first)
    PROVE  Fits(new)
<1>1. IsFiniteSet(new) /\ Cardinality(docs) \in Nat
  BY TrimmedSubset, FS_Subset, FS_CardinalityType
<1>2. QED BY <1>1 DEF Trimmed, Fits, IndexConstants

LEMMA GetPageFits ==
    ASSUME IndexConstants, PagesFit, NEW p \in Pages, NEW docs \in GetPage(p)
    PROVE  Fits(docs)
<1>1. Fits({})
  BY FS_EmptySet DEF Fits, IndexConstants
<1>2. QED BY <1>1 DEF GetPage, Copying, PagesFit

LEMMA HoldFit ==
    ASSUME Inv, IndexConstants, PagesFit, NEW x \in Actors, NEW p \in Pages,
           NEW new \in SUBSET Documents, Fits(new), Hold(x, p, new), UNCHANGED page
    PROVE  PagesFit'
<1> DEFINE h == [page |-> p, new |-> new, copying |-> FALSE]
<1>1. h.new = new
  OBVIOUS
<1>2. \A y \in Actors : held'[y] = IF y = x THEN h ELSE held[y]
  BY DEF Hold, Inv, TypeOK
<1> HIDE DEF h
<1>3. QED BY <1>1, <1>2 DEF PagesFit, Fits

\* Indexing, curation and its reversal hold what _write_page has trimmed.
LEMMA TrimmedFit ==
    ASSUME Inv, IndexConstants, PagesFit, IsFiniteSet(Documents), NEW x \in Actors,
           NEW p \in Pages, NEW docs, Good(p, docs), NEW first,
           NEW new \in Trimmed(docs, first), Hold(x, p, new), UNCHANGED page
    PROVE  PagesFit'
<1>1. IsFiniteSet(docs) /\ new \in SUBSET Documents
  BY TrimmedSubset, FS_Subset DEF Good
<1>2. QED BY <1>1, TrimmedFits, HoldFit

LEMMA IndexFit ==
    ASSUME Inv, IndexConstants, PagesFit, IsFiniteSet(Documents),
           NEW w \in Writers, NEW p \in Pages, IndexPage(w, p)
    PROVE  PagesFit'
<1> DEFINE mine == {c \in indexing[w] : PageOf[c.term] = p}
<1>1. PICK existing \in GetPage(p) : \E docs \in Combined(existing, Fresh(mine)) :
          \E new \in Trimmed(docs, docs \cap Curated(existing)) : Hold(w, p, new)
  BY DEF IndexPage
<1>2. PICK docs \in Combined(existing, Fresh(mine)) :
          \E new \in Trimmed(docs, docs \cap Curated(existing)) : Hold(w, p, new)
  BY <1>1
<1>3. mine \in SUBSET Copies /\ \A c \in mine : PageOf[c.term] = p
  BY DEF Inv, TypeOK
<1>4. Good(p, docs)
  BY <1>3, GetPageGood, CombinedGood
<1>5. UNCHANGED page /\ w \in Actors
  BY DEF IndexPage, Actors
<1>6. QED BY <1>2, <1>4, <1>5, TrimmedFit

LEMMA CurateFit ==
    ASSUME Inv, IndexConstants, PagesFit, IsFiniteSet(Documents), Curate PROVE PagesFit'
<1>1. ASSUME NEW x \in Curators, NEW t \in Terms, NEW approved \in SUBSET Urls,
             NEW others \in SUBSET Urls, SaveToIndex(x, t, approved, others)
      PROVE  PagesFit'
  <2> DEFINE first == ApprovedDocuments(t, approved)
             all(existing) == first \cup OtherDocuments(existing, approved, others)
  <2>1. UNCHANGED page /\ x \in Actors /\ PageOf[t] \in Pages
    BY <1>1 DEF SaveToIndex, Actors, IndexConstants
  <2>2. PICK existing \in GetPage(PageOf[t]) :
            \E new \in Trimmed(all(existing), first) : Hold(x, PageOf[t], new)
    BY <1>1 DEF SaveToIndex
  <2>3. Good(PageOf[t], all(existing))
    BY <2>1, GetPageGood, SavedPageGood
  <2> HIDE DEF first, all
  <2>4. QED BY <2>1, <2>2, <2>3, TrimmedFit
<1>2. ASSUME NEW x \in Curators, NEW c \in curations, RevertCuration(x, c) PROVE PagesFit'
  <2> DEFINE reverted(existing) == c.original \cup {d \in existing : d.term # c.term}
  <2>1. c.term \in Terms /\ c.original \in SUBSET Documents
        /\ OneCopy(c.original) /\ \A d \in c.original : d.term = c.term
    BY DEF Inv, TypeOK, CurationRows, WellFormed, Remembered
  <2>2. UNCHANGED page /\ x \in Actors /\ PageOf[c.term] \in Pages
    BY <1>2, <2>1 DEF RevertCuration, Actors, IndexConstants
  <2>3. PICK existing \in GetPage(PageOf[c.term]) :
            \E new \in Trimmed(reverted(existing), c.original) : Hold(x, PageOf[c.term], new)
    BY <1>2 DEF RevertCuration
  <2>4. Good(PageOf[c.term], reverted(existing))
    BY <2>1, <2>2, GetPageGood, RevertedPageGood
  <2> HIDE DEF reverted
  <2>5. QED BY <2>2, <2>3, <2>4, TrimmedFit
<1>3. ASSUME NEW x \in Curators, DeleteCuration(x) PROVE PagesFit'
  BY <1>3 DEF DeleteCuration, PagesFit, Fits
<1>4. QED BY <1>1, <1>2, <1>3 DEF Curate

LEMMA PurgeFit ==
    ASSUME Inv, IndexConstants, PagesFit, NEW p \in Pages, PurgePage(p) PROVE PagesFit'
<1> DEFINE kept(docs) == {d \in docs : d.url \notin UrlsToPurge(p)}
<1>1. UNCHANGED page /\ Purger \in Actors
  BY DEF PurgePage, Actors
<1>2. CASE UNCHANGED held
  BY <1>1, <1>2 DEF PagesFit, Fits
<1>3. ASSUME NEW docs \in GetPage(p), Hold(Purger, p, kept(docs)) PROVE PagesFit'
  <2>1. kept(docs) \in SUBSET docs /\ docs \in SUBSET Documents
    BY GetPageGood DEF Good
  <2> HIDE DEF kept
  <2>2. Fits(kept(docs)) /\ kept(docs) \in SUBSET Documents
    BY <2>1, GetPageFits, SubsetFits
  <2>3. QED BY <1>1, <1>3, <2>2, HoldFit
<1>4. QED BY <1>2, <1>3 DEF PurgePage

LEMMA ReleaseFit ==
    ASSUME Inv, IndexConstants, PagesFit, NEW x \in Actors, Release(x)
    PROVE  \A y \in Actors : held'[y] # NoPage => Fits(held'[y].new)
<1>1. Fits({})
  BY FS_EmptySet DEF Fits, IndexConstants
<1>2. QED BY <1>1, ReleaseLeaves DEF PagesFit

LEMMA StoreFit ==
    ASSUME Inv, IndexConstants, PagesFit, NEW x \in Actors, StoreBegin(x) \/ StoreEnd(x)
    PROVE  PagesFit'
<1>1. held[x] \in HeldPage /\ held[x].page \in Pages /\ held[x] # NoPage
  BY HeldType DEF StoreBegin, StoreEnd, Copying
<1>2. CASE StoreBegin(x)
  <2> DEFINE h == [held[x] EXCEPT !.copying = TRUE]
  <2>1. h.new = held[x].new
    BY <1>1 DEF HeldPage
  <2>2. \A y \in Actors : held'[y] = IF y = x THEN h ELSE held[y]
    BY <1>2 DEF StoreBegin, Inv, TypeOK
  <2>3. UNCHANGED page
    BY <1>2 DEF StoreBegin
  <2> HIDE DEF h
  <2>4. QED BY <1>1, <2>1, <2>2, <2>3 DEF PagesFit, Fits
<1>3. CASE StoreEnd(x)
  <2>1. \A p \in Pages : page'[p] = IF p = held[x].page THEN held[x].new ELSE page[p]
    BY <1>3 DEF StoreEnd, Inv, TypeOK
  <2>2. \A y \in Actors : held'[y] # NoPage => Fits(held'[y].new)
    BY <1>3, ReleaseFit DEF StoreEnd
  <2>3. QED BY <1>1, <2>1, <2>2 DEF PagesFit, Fits
<1>4. QED BY <1>2, <1>3

LEMMA CrashFit ==
    ASSUME Inv, IndexConstants, PagesFit, NEW x \in Actors, Crash(x) PROVE PagesFit'
<1>1. \A y \in Actors : held'[y] # NoPage => Fits(held'[y].new)
  BY ReleaseFit DEF Crash
<1>2. \A p \in Pages : Fits(page'[p])
  <2>1. CASE UNCHANGED page
    BY <2>1 DEF PagesFit
  <2>2. ASSUME held[x] # NoPage, NEW docs \in GetPage(held[x].page),
               page' = [page EXCEPT ![held[x].page] = docs]
        PROVE  \A p \in Pages : Fits(page'[p])
    <3>1. held[x].page \in Pages
      BY <2>2, HeldType
    <3>2. Fits(docs)
      BY <3>1, GetPageFits
    <3>3. QED BY <2>2, <3>2 DEF PagesFit, Inv, TypeOK
  <2>3. QED BY <2>1, <2>2 DEF Crash, Copying
<1>3. QED BY <1>1, <1>2 DEF PagesFit, Fits

LEMMA InitFit == IndexConstants /\ Init => PagesFit
BY FS_EmptySet DEF Init, PagesFit, Fits, IndexConstants

LEMMA NextFit == IndexConstants /\ IsFiniteSet(Documents) /\ Inv /\ PagesFit /\ [Next]_vars => PagesFit'
<1> SUFFICES ASSUME IndexConstants, IsFiniteSet(Documents), Inv, PagesFit, [Next]_vars
             PROVE  PagesFit'
  OBVIOUS
<1>1. CASE UNCHANGED <<page, held>>
  BY <1>1 DEF PagesFit, Fits
<1>2. CASE Index
  <2>1. ASSUME NEW w \in Writers, NEW us, NEW query,
               IndexDocuments(w, us) \/ IndexResultsAgainstQuery(w, us, query)
        PROVE  UNCHANGED <<page, held>>
    BY <2>1 DEF IndexDocuments, IndexResultsAgainstQuery
  <2>2. QED BY <1>1, <1>2, <2>1, IndexFit DEF Index
<1>3. CASE Purge
  BY <1>1, <1>3 DEF Purge, PurgeDocuments
<1>4. CASE OtherStep
  BY <1>2, <1>4, StoreFit, CurateFit, PurgeFit, CrashFit DEF OtherStep, Store
<1>5. QED BY <1>1, <1>3, <1>4 DEF Next, vars

-----------------------------------------------------------------------------
(* A run of the purge. *)

Holds(x, p) == held[x] # NoPage /\ held[x].page = p

Clean(p, docs) == \A d \in docs : d.url \notin UrlsToPurge(p)

RunInv ==
    /\ \A p \in (Pages \ disturbed) \ purgeTodo : Holds(Purger, p) \/ Clean(p, page[p])
    /\ held[Purger] # NoPage => Clean(held[Purger].page, held[Purger].new)
    /\ BeingWritten \subseteq disturbed

HistoryInv == Inv /\ RunInv

PurgerKeeps ==
    \/ held'[Purger] = held[Purger]
    \/ /\ held[Purger] # NoPage /\ held'[Purger] # NoPage
       /\ held'[Purger].page = held[Purger].page /\ held'[Purger].new = {}

-----------------------------------------------------------------------------
LEMMA HistoryNextIsNext == HistoryNext => Next
BY DEF HistoryNext, Next

\* When the purge does not step, it holds the page it held, with what it is writing there
\* or nothing, and the pages it has dealt with can only change where somebody else was
\* writing.
LEMMA OthersRunInv ==
    ASSUME RunInv, BeingWritten' \subseteq disturbed', disturbed \subseteq disturbed',
           UNCHANGED <<purging, purgeTodo>>, PurgerKeeps,
           \A p \in Pages \ disturbed' : page'[p] = page[p]
    PROVE  RunInv'
BY DEF RunInv, Holds, Clean, UrlsToPurge, PurgerKeeps

LEMMA WriterDisturbs ==
    ASSUME RunInv, NEW x \in Actors \ {Purger}, held[x] # NoPage, held[x].copying
    PROVE  held[x].page \in disturbed
BY DEF RunInv, BeingWritten

LEMMA StoreRun ==
    ASSUME Inv, IndexConstants, RunInv, NEW x \in Actors, StoreBegin(x) \/ StoreEnd(x),
           disturbed' = disturbed \cup BeingWritten'
    PROVE  RunInv'
<1>1. CASE x # Purger
  <2>1. UNCHANGED <<purging, purgeTodo>> /\ PurgerKeeps
    <3>1. CASE StoreBegin(x)
      BY <1>1, <3>1 DEF StoreBegin, purgeVars, Inv, TypeOK, Actors, PurgerKeeps
    <3>2. CASE StoreEnd(x)
      BY <1>1, <3>2, ReleaseLeaves DEF StoreEnd, purgeVars, Actors, PurgerKeeps
    <3>3. QED BY <3>1, <3>2
  <2>2. \A p \in Pages \ disturbed' : page'[p] = page[p]
    BY <1>1, WriterDisturbs DEF StoreBegin, StoreEnd, Copying, Inv, TypeOK
  <2>3. QED BY <2>1, <2>2, OthersRunInv
<1>2. CASE x = Purger /\ StoreBegin(x)
  <2>1. held[Purger] \in HeldPage
    BY <1>2, HeldType DEF StoreBegin
  <2>2. /\ held'[Purger] # NoPage => held'[Purger].page = held[Purger].page
                                    /\ held'[Purger].new = held[Purger].new
        /\ Holds(Purger, held[Purger].page)'
    <3>1. held'[Purger] = [held[Purger] EXCEPT !.copying = TRUE]
      BY <1>2 DEF StoreBegin, Inv, TypeOK
    <3>2. held'[Purger] \in HeldPage /\ held'[Purger].page = held[Purger].page
          /\ held'[Purger].new = held[Purger].new
      BY <2>1, <3>1 DEF HeldPage
    <3>3. QED BY <3>2 DEF Holds, HeldPage, IndexConstants
  <2>3. UNCHANGED <<page, purging, purgeTodo>> /\ held[Purger] # NoPage
    BY <1>2 DEF StoreBegin, purgeVars
  <2>4. QED BY <2>2, <2>3 DEF RunInv, Holds, Clean, UrlsToPurge
<1>3. CASE x = Purger /\ StoreEnd(x)
  <2>1. held'[Purger] = NoPage
    BY <1>3, ReleaseLeaves DEF StoreEnd
  <2>2. UNCHANGED <<purging, purgeTodo>> /\ held[Purger] # NoPage
    BY <1>3 DEF StoreEnd, Copying, purgeVars
  <2>3. \A p \in Pages : page'[p] = IF Holds(Purger, p) THEN held[Purger].new ELSE page[p]
    BY <1>3, <2>2 DEF StoreEnd, Holds, Inv, TypeOK
  <2>4. \A p \in (Pages \ disturbed) \ purgeTodo : Clean(p, page'[p])
    BY <2>2, <2>3 DEF RunInv, Holds
  <2>5. QED BY <2>1, <2>2, <2>4 DEF RunInv, Clean, UrlsToPurge
<1>4. QED BY <1>1, <1>2, <1>3

\* Writers and the curator read and compute; only their stores touch a page.
LEMMA HoldRun ==
    ASSUME Inv, IndexConstants, RunInv, Index \/ Curate, disturbed' = disturbed \cup BeingWritten'
    PROVE  RunInv'
<1>1. UNCHANGED <<page, purging, purgeTodo>>
  BY DEF Index, IndexDocuments, IndexResultsAgainstQuery, IndexPage, Curate, SaveToIndex,
         RevertCuration, DeleteCuration, purgeVars
<1>2. UNCHANGED held[Purger]
  <2>1. \A x \in Writers \cup Curators : x # Purger
    BY DEF IndexConstants
  <2>2. ASSUME NEW x, x # Purger, NEW p, NEW new, Hold(x, p, new) PROVE UNCHANGED held[Purger]
    BY <2>2 DEF Hold, Inv, TypeOK, Actors
  <2>3. CASE Index
    BY <2>1, <2>2, <2>3 DEF Index, IndexDocuments, IndexResultsAgainstQuery, IndexPage
  <2>4. CASE Curate
    BY <2>1, <2>2, <2>4 DEF Curate, SaveToIndex, RevertCuration, DeleteCuration
  <2>5. QED BY <2>3, <2>4
<1>3. QED BY <1>1, <1>2, OthersRunInv DEF PurgerKeeps

\* A run begins: a page that it will not visit has none of the URLs to lose.
LEMMA StartRun ==
    ASSUME Inv, RunInv, Purge, disturbed' = BeingWritten' PROVE RunInv'
<1>1. PICK targets \in SUBSET Copies : PurgeDocuments(targets)
  BY DEF Purge
<1>2. held'[Purger] = NoPage /\ purging' = targets
  BY <1>1 DEF PurgeDocuments
<1>3. \A p \in Pages : p \notin purgeTodo' => UrlsToPurge(p)' = {}
  BY <1>1, <1>2 DEF PurgeDocuments, UrlsToPurge
<1>4. QED BY <1>2, <1>3 DEF RunInv, Clean, UrlsToPurge

LEMMA PageRun ==
    ASSUME Inv, IndexConstants, RunInv, NEW p \in Pages, PurgePage(p),
           disturbed' = disturbed \cup BeingWritten'
    PROVE  RunInv'
<1> DEFINE kept(docs) == {d \in docs : d.url \notin UrlsToPurge(p)}
<1>1. /\ UNCHANGED <<page, purging>> /\ held[Purger] = NoPage
      /\ purgeTodo' = purgeTodo \ {p}
  BY DEF PurgePage
<1>2. PICK docs \in GetPage(p) : IF kept(docs) = docs THEN UNCHANGED held
                                 ELSE Hold(Purger, p, kept(docs))
  BY DEF PurgePage
<1>3. p \notin disturbed => docs = page[p]
  BY <1>1, WriterDisturbs DEF GetPage, Copying
<1>4. \A q : Clean(q, {})' /\ (\A ds : Clean(q, ds)' <=> Clean(q, ds))
  BY <1>1 DEF Clean, UrlsToPurge
<1>5. CASE UNCHANGED held /\ kept(docs) = docs
  <2>1. p \notin disturbed => Clean(p, page[p])
    BY <1>3, <1>5 DEF Clean
  <2>2. QED BY <1>1, <1>4, <1>5, <2>1 DEF RunInv, Holds
<1>6. CASE Hold(Purger, p, kept(docs))
  <2>1. Clean(p, kept(docs))
    BY DEF Clean
  <2>2. held'[Purger] = [page |-> p, new |-> kept(docs), copying |-> FALSE]
    BY <1>6 DEF Hold, Inv, TypeOK, Actors
  <2>3. held'[Purger] # NoPage
    <3>1. Good(p, docs)
      BY GetPageGood
    <3>2. kept(docs) \in SUBSET Documents
      BY <3>1 DEF Good
    <3> HIDE DEF kept
    <3>3. held'[Purger] \in HeldPage
      BY <2>2, <3>2 DEF HeldPage
    <3>4. QED BY <3>3 DEF IndexConstants, HeldPage
  <2> HIDE DEF kept
  <2>4. held'[Purger].page = p /\ held'[Purger].new = kept(docs)
    BY <2>2
  <2>5. QED BY <1>1, <1>4, <2>1, <2>3, <2>4 DEF RunInv, Holds
<1>7. QED BY <1>2, <1>5, <1>6

LEMMA CrashRun ==
    ASSUME Inv, IndexConstants, RunInv, NEW x \in Actors, Crash(x),
           disturbed' = disturbed \cup BeingWritten'
    PROVE  RunInv'
<1>1. CASE x = Purger
  <2>1. purging' = {} /\ held'[Purger] = NoPage
    BY <1>1, ReleaseLeaves DEF Crash
  <2>2. QED BY <2>1 DEF RunInv, Clean, UrlsToPurge
<1>2. CASE x # Purger
  <2>1. UNCHANGED <<purging, purgeTodo>> /\ PurgerKeeps
    BY <1>2, ReleaseLeaves DEF Crash, Actors, PurgerKeeps
  <2>2. \A p \in Pages \ disturbed' : page'[p] = page[p]
    BY <1>2, WriterDisturbs DEF Crash, Copying, Inv, TypeOK
  <2>3. QED BY <2>1, <2>2, OthersRunInv
<1>3. QED BY <1>1, <1>2

-----------------------------------------------------------------------------
LEMMA HistoryInitInv == IndexConstants /\ HistoryInit => HistoryInv
BY InitInv DEF HistoryInit, HistoryInv, RunInv, Init, Clean, BeingWritten, Actors, Holds

LEMMA HistoryNextInv ==
    IndexConstants /\ HistoryInv /\ [HistoryNext]_<<vars, disturbed>> => HistoryInv'
<1> SUFFICES ASSUME IndexConstants, Inv, RunInv, [HistoryNext]_<<vars, disturbed>>
             PROVE  HistoryInv'
  BY DEF HistoryInv
<1> SUFFICES RunInv'
  <2>1. [Next]_vars
    BY HistoryNextIsNext
  <2>2. Inv'
    BY <2>1, NextInv
  <2>3. QED BY <2>2 DEF HistoryInv
<1>1. CASE UNCHANGED <<vars, disturbed>>
  BY <1>1 DEF vars, curateVars, purgeVars, RunInv, Holds, Clean, UrlsToPurge, BeingWritten
<1>2. CASE Purge /\ disturbed' = BeingWritten'
  BY <1>2, StartRun
<1>3. CASE OtherStep /\ disturbed' = disturbed \cup BeingWritten'
  BY <1>3, StoreRun, HoldRun, PageRun, CrashRun DEF OtherStep, Store
<1>4. QED BY <1>1, <1>2, <1>3 DEF HistoryNext, Undisturbed, Disturbs

\* A run of purge_documents that has ended leaves no copy it was given on a page that nobody
\* else was writing to during the run, whatever page and term the copy is filed under.
THEOREM PurgeReaches == HistorySpec => []PurgeRemovesCopies
<1>1. IndexConstants /\ HistoryInv => PurgeRemovesCopies
  <2> SUFFICES ASSUME IndexConstants, HistoryInv, purgeTodo = {}, held[Purger] = NoPage,
                      NEW p \in Pages \ disturbed, NEW d \in page[p], CopyOf(d) \in purging
               PROVE  FALSE
    BY DEF PurgeRemovesCopies
  <2>1. PageOf[CopyOf(d).term] = p
    BY DEF HistoryInv, Inv, WellFormed, Good, WellFiled, CopyOf
  <2>2. CopyOf(d).url \in UrlsToPurge(p)
    BY <2>1 DEF UrlsToPurge, PagesFor
  <2>3. Clean(p, page[p])
    BY DEF HistoryInv, RunInv, Holds
  <2>4. QED BY <2>2, <2>3 DEF Clean, CopyOf
<1>2. QED BY IndexConstants, HistoryInitInv, HistoryNextInv, <1>1, PTL DEF HistorySpec
=============================================================================

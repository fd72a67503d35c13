SPECIFICATION MCSpec
CONSTANTS
    bad = bad  good = good  t1 = t1  t2 = t2  p1 = p1  p2 = p2
    Urls = {bad, good}  Terms = {t1, t2}  Pages = {p1, p2}
    PageOf <- MCPageOf  Tokens <- MCTokens  Words <- MCWords  TitleOf <- MCTitleOf
    PageCapacity = 2
    Writers = {w1}  Purger = purger  Curators = {c1}
    MaxJobs = 2  MaxCrashes = 1
    NoPage = NoPage
INVARIANTS TypeOK PagesWellFormed PurgeRemovesCopies
CHECK_DEADLOCK FALSE

SPECIFICATION FairSpec
CONSTANTS
    bad = bad  q1 = q1  t1 = t1  t2 = t2  t3 = t3  p1 = p1  p2 = p2
    Urls = {bad}  Terms = {t1, t2, t3}  Pages = {p1, p2}
    PageOf <- MCPageOf  Tokens <- MCTokens  Words <- MCWords  TitleOf <- MCTitleOf
    PageCapacity = 1
    Writers = {w1}  Purger = purger  Curators = {c1}  NoPage = NoPage
    Queries = {q1}  TermsOf <- MCTermsOf  MaxTerms = 2  RawTerms = {t2}
    Searchers = {s1}  ProcessOf <- MCProcessOf
    s1 = s1  w1 = w1  purger = purger  worker = worker  background = background
    MaxQueueSize = 1  BatchSize = 1
    MaxJobs = 2  MaxFaults = 1  MaxPublish = 1
PROPERTIES SelfHealing
CHECK_DEADLOCK FALSE

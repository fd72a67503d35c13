SPECIFICATION FairSpec
CONSTANTS
    a1 = a1  a2 = a2  b1 = b1  A = A  B = B
    Urls <- MCUrls
    Domains <- MCDomains
    DomainOf <- MCDomainOf
    RootOf <- MCRootOf
    UrlScore <- MCUrlScore
    LinkScore <- MCLinkScore
    MaxUrls <- MCMaxUrls
    MaxDomains = 1
    Polled = {}
    Blacklisted = {}
    TopDomains = 2
    SampleSize = 2
    BatchSize = 2
    Roots = {}
    MaxFound = 1
    Recent = TRUE
    Crawlers = {c1, c2}
    MaxBatches = 3
    MaxFaults = 2
    NoDomain = NoDomain
    TakeSize = 2
    CrashThreshold = 1
INVARIANTS TypeOK UrlsBounded DomainsBounded UrlsReachable CrawledNotRequeued LossBounded
PROPERTIES BatchesAreTaken
CHECK_DEADLOCK FALSE

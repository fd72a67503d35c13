SPECIFICATION MCSpec
CONSTANTS
    a = a  b = b  c = c  d = d
    Requests = {r1, r2, r3, r4}
    Limit = 1
    MaxFaults = 2
    Missing = Missing
    Sources = {s1, s2}
    Docs <- MCDocs
    Lists <- MCLists
    Relevant = {a, b, d}
    TopK = 2
    FinalLimit = 2
    MaxLinks = 1
    Watched = r1
    Pipe = Pipe
    Prod = Prod
    NoTask = NoTask
INVARIANTS QuotaTypeOK QuotaHolds RejectedRefunded StreamTypeOK CompleteShowsAll TopKLive
PROPERTIES ResultsGrow StreamEnds
CHECK_DEADLOCK FALSE

SPECIFICATION FairSpec
CONSTANTS
    Workers = {w1}
    Requests = {r1, r2}
    Boot = boot
    MaxUpstream = 3
    ContentOf <- MCContentOf
    MaxFaults = 2
INVARIANTS TypeOK SingleLoader NotOlderThanVersion
PROPERTIES FeedSpec Converges
CHECK_DEADLOCK FALSE

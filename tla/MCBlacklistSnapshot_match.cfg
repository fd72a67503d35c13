SPECIFICATION Spec
CONSTANTS
    Workers = {w1}
    Requests = {r1}
    Boot = boot
    MaxUpstream = 2
    ContentOf <- MCContentOf
    MaxFaults = 0
INVARIANTS LoadedMatchesVersion
CHECK_DEADLOCK FALSE

SPECIFICATION Spec
CONSTANTS
    Payloads = {d1, d2, d3, d4, d5}
    Searchers = {s1, s2}
    MaxFound = 2  MaxQueueSize = 1  BatchSize = 2  MaxFaults = 1
SYMMETRY Symmetry
INVARIANTS TypeOK QueueBounded
CHECK_DEADLOCK FALSE

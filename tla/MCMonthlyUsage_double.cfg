SPECIFICATION Spec
CONSTANTS
    Requests = {r1, r2}
    Free = 1  Cap = 3
    KeysPrefixed = FALSE
    MaxFaults = 1
    Missing = Missing
INVARIANTS NeverDoubleBilled
CHECK_DEADLOCK FALSE

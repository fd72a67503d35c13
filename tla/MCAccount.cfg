SPECIFICATION FairSpec
CONSTANTS
    Keys = {k1}
    Requests = {r1}
    Revokers = {v1}
    CacheTTL = 2
    NoKey = NoKey
    Handlers = {h1, h2}
    Subs = {s1}
    Limits <- MCLimits
    NoSub = NoSub
    Missing = Missing
    MaxCalls = 3
    MaxFaults = 1
INVARIANTS KeysTypeOK BillingTypeOK RevokedWithinTTL PaidNeedsSubscription LimitStands
PROPERTIES EndForgotten EndAcknowledged
CHECK_DEADLOCK FALSE

SPECIFICATION FairSpec
CONSTANTS
    Worker = {w1, w2}
    Lease = 4
    Interval = 1
    Timeout = 1
    ClaimLatency = 1
    MaxTime = 7
    MaxClaims = 2
INVARIANTS
    TypeOK
    ExclusiveWork
    RenewalInTime
    NoRenewalAfterWork
PROPERTIES
    RunReturns
CHECK_DEADLOCK FALSE

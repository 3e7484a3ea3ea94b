SPECIFICATION Spec
CONSTANTS
    Worker = {w1, w2}
    Lease = 5
    Interval = 2
    Timeout = 2
    ClaimLatency = 0
    MaxTime = 9
    MaxClaims = 1
INVARIANTS
    RenewalInTime
CHECK_DEADLOCK FALSE

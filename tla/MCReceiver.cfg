SPECIFICATION FairSpec
CONSTANTS
    Request = {q1, q2, q3}
    NoRequest = NoRequest
    Key = {k1, k2}
    MaxEntries = 1
    ReplayTTL = 1
    MaxTime = 2
INVARIANTS
    TypeOK
    ClaimOwnership
    SuccessMeansHandled
PROPERTIES
    NoReplayWithinTTL
    EveryRequestEnds
CHECK_DEADLOCK FALSE

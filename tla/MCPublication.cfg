SPECIFICATION FairSpec
CONSTANTS
    Call = {c1, c2, c3}
    CallerTx = {c1, c2}
    NoCall = NoCall
    ExplicitID = {m1}
    NoID = NoID
    Key = {k1}
    NoKey = NoKey
    Content = {b1, b2}
    NoContent = NoContent
    Target = {u1, u2}
    NoTarget = NoTarget
    DeliveryRetention = 1
    OrphanRetention = 1
    MaxTime = 2
    Early = {c2}
CONSTRAINT Bound
INVARIANTS
    TypeOK
    KeyMeansOnePublication
    PublishedAsRequested
PROPERTIES
    NoUnsentMessage
    PendingIsKept
    EveryCallEnds
CHECK_DEADLOCK FALSE

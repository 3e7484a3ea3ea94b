SPECIFICATION Spec
CONSTANTS
    Call = {c1, c2, c3}
    CallerTx = {}
    NoCall = NoCall
    ExplicitID = {m1}
    NoID = NoID
    Key = {}
    NoKey = NoKey
    Content = {b1, b2}
    NoContent = NoContent
    Target = {u1}
    NoTarget = NoTarget
    DeliveryRetention = 1
    OrphanRetention = 1
    MaxTime = 2
    Early = {}
SYMMETRY Symmetry
INVARIANTS
    IDsProtectContent
CHECK_DEADLOCK FALSE

SPECIFICATION Spec
CONSTANTS
    Call = {c1, c2}
    CallerTx = {}
    NoCall = NoCall
    ExplicitID = {m1}
    NoID = NoID
    Key = {k1}
    NoKey = NoKey
    Content = {b1, b2}
    NoContent = NoContent
    Target = {u1}
    NoTarget = NoTarget
    DeliveryRetention = 1
    OrphanRetention = 1
    MaxTime = 3
    Early = {}
SYMMETRY Symmetry
PROPERTIES
    ActiveNeverRemoved
CHECK_DEADLOCK FALSE

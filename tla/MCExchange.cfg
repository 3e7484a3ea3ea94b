SPECIFICATION ExchangeSpec
SYMMETRY Symmetry
CONSTANTS
    Request = {q1, q2}
    NoRequest = NoRequest
    Key = {k1, k2}
    MaxEntries = 2
    ReplayTTL = 2
    MaxTime = 3
    OldKey = OldKey
    NewKey = NewKey
    Pairing <- MCPairing
    Second = 2
    Tolerance = 1
    DurationLimit = 20
    NoPacket = NoPacket
    MaxSends = 2
INVARIANTS
    HandledAsSent
    GenuineIsAccepted
    AnsweredIsHandled
PROPERTIES
    OncePerWindow
CHECK_DEADLOCK FALSE

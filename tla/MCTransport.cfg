SPECIFICATION Spec
SYMMETRY Symmetry
CONSTANTS
    Sends = {s1, s2}
    name = name
    public = public
    private = private
    Address = {public, private}
    Reserved = {private}
    Name = {name}
    URL <- MCURL
    Policies <- MCPolicies
    NoURL = NoURL
    NoConn = NoConn
INVARIANTS
    SentWithinPolicy
    MixedAnswersRefused
CHECK_DEADLOCK FALSE

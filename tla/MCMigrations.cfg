SPECIFICATION FairSpec
CONSTANTS
    Process = {p1, p2, p3}
    NoProcess = NoProcess
    NoContents = NoContents
    init = init
    initChanged = initChanged
    keys = keys
    indexes = indexes
    Contents <- MCContents
    Name = {1, 2, 3}
    Releases <- MCReleases
    Statements <- MCStatements
INVARIANTS
    TypeOK
    LedgerIsTrue
    AppliedInOrder
    DoneMeansMigrated
PROPERTIES
    EveryCallEnds
CHECK_DEADLOCK FALSE

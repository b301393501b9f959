SPECIFICATION BothSpec
CONSTANTS
    Requests = {r1, r2}
    Paths = {p1, p2}
    Private = {p1}
    Identities = {alice, anonymous}
    Trusted = {alice}
    NoEntry = NoEntry
    TTL = 1
    MaxEntries = 2
    MaxBytes = 2
    MaxFetch = 1
    MaxVersion = 3
    MaxTime = 2
    Writers = {w1, w2}
    None = None
    Sizes = {4, 7}
    MaxDisk = 10
    MaxFiles = 5
    Clears = TRUE
    StaleParts = TRUE
    RemoveFails = TRUE
SYMMETRY Symmetry
INVARIANTS
    StalenessBounded
    NoLeak
    MapWithinLimits
    NeverOvercounts

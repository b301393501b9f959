SPECIFICATION BothSpec
CONSTANTS
    Writers = {w1, w2}
    NoWriter = NoWriter
    Domains = {d1, d2}
    BadDomain = BadDomain
    None = None
    PortBodies = {443, 65536, 65537}
    SourceLists = {s0, s1}
    FallbackList = s0
    MaxRestarts = 1
    DnsCalls = {a1, a2, a3}
    NumNames = 4
SYMMETRY Symmetry
INVARIANTS
    PoolIsSaved
    NoPatchLost
    PortUsable
    OkMeansAll
    NoDuplicates

SPECIFICATION BothSpec
CONSTANTS
    Requests = {r1, r2}
    Digests = {d1, d2, d3}
    Locks = {l1, l2, l3}
    None = None
    Cap = 0
    U64Max = 6
    Buffer = 2
    MaxSize = 5
    Components = {"docker.io", "ghcr.io", "localhost:5000", "library", "app", "blobs", "manifests", ".."}
    HostLike = {"docker.io", "ghcr.io", "localhost:5000"}
    WithPort = {"localhost:5000"}
    Tags = {"latest", "blobs"}
    ImageDigests = {d1}
    NoRef = NoRef
    MaxName = 4
INVARIANTS
    OneFlight
    MapBounded
    
    PullComesHome
    ScopeMatchesRoute
PROPERTIES
    ImplementsFlight
    Answered

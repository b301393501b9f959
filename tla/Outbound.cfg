SPECIFICATION AllSpec
CONSTANTS
    Requests = {q1, q2}
    Sources = {hub, reg}
    Anonymous = {reg}
    Registries = {reg}
    RegistryHosts = {reg, cdn}
    GithubHosts = {git}
    Strangers = {other}
    NoHost = NoHost
    Lifetimes = {2, 5}
    Unstated = {3}
    DefaultLife = 5
    Margin = 2
    Floor = 2
    MaxFetch = 1
    MaxConnect = 1
    Cap = 0
    ChunkHops = 2
    ProxyHops = 2
    MaxRetries = 1
    MaxTime = 6
    Digests = {d1, d2}
    MaxHandles = 3
    First = hub
    Reachable = {hub}
    Reporters = {r1}
    MaxCount = 1
    MaxOutages = 1
    Aborts = TRUE
INVARIANTS
    ListedWhileRunning
    StaysInBounds
    TokenAlive
    WeightsFollowStats
PROPERTIES
    FetchEnds
    EntriesGo
    SourceRecovers
    ProberEnds

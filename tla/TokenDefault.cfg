SPECIFICATION Spec
CONSTANTS
    Requests = {q1}
    Sources = {hub}
    Anonymous = {}
    Registries = {}
    RegistryHosts = {cdn}
    GithubHosts = {}
    Strangers = {}
    NoHost = NoHost
    Lifetimes = {20}
    Unstated = {4}
    DefaultLife = 20
    Margin = 2
    Floor = 2
    MaxFetch = 1
    MaxConnect = 1
    Cap = 4096
    ChunkHops = 5
    ProxyHops = 8
    MaxRetries = 3
    MaxTime = 30
INVARIANT CachedUntilExpiry

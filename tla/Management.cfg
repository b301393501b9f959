SPECIFICATION Spec
CONSTANTS
    Callers = {c1, c2}
    Images = {i1, i2}
    Retagged = {i1}
    None = None
    MaxActive = 2
    MaxFinished = 1
    MaxJobs = 4
    Requests = {r1, r2}
    MaxIssues = 3
    MaxRestarts = 2
    Conns = {n1, n2, n3}
    MaxSignals = 2
INVARIANTS
    OvershootBounded
    OneJob
    DeploysFinished
    DoneIsDeployed
PROPERTIES
    JobsEnd
    JobEnds
    StopsInTime

SPECIFICATION Spec
CONSTANTS
    Requests = {r1}
    MaxIssues = 1
    MaxRestarts = 1
INVARIANT DeploysIssued

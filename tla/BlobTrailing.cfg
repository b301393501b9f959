SPECIFICATION Spec
CONSTANTS
    Total = 2
    PlanSizes = {1, 2}
    MaxConcurrent = 2
    MaxRetries = 1
    Depth = 1
    MaxFaults = 1
INVARIANT OnlyVerified

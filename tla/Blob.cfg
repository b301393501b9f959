SPECIFICATION FairSpec
CONSTANTS
    Total = 3
    PlanSizes = {2, 3}
    MaxConcurrent = 2
    MaxRetries = 1
    Depth = 1
    MaxFaults = 3
INVARIANTS
    TypeOK
    BlobIntegrity
    FreshChunksWritten
PROPERTIES
    EmittedNeverRewritten
    ImplementsSlot
    AttemptEnds
    EventuallyCached

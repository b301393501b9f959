SPECIFICATION FairSpec
CONSTANTS
    Conns = {c1, c2}
    MaxSignals = 1
PROPERTY DrainCompletes
CHECK_DEADLOCK FALSE

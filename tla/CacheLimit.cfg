SPECIFICATION Spec
CONSTANTS
    Writers = {w1, w2}
    None = None
    Sizes = {4, 7}
    MaxBytes = 10
    MaxFiles = 5
    Clears = FALSE
    StaleParts = FALSE
    RemoveFails = FALSE
SYMMETRY Symmetry
INVARIANT LimitKept

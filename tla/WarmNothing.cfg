SPECIFICATION Spec
CONSTANTS
    Blobs = {b1, b2, b3}
    Children = {m1, m2}
    MaxWarm = 4
INVARIANT BlobsConsidered

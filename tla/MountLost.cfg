CONSTANTS
    Paths = {p1}
    Blobs = {b1, b2}
    None = None
    Flushes = {f1}
    Readers = {r1}
    MaxRevisions = 3
    MaxWrites = 2
    MaxFaults = 0
SPECIFICATION Spec
INVARIANT
    NoWriteLost
CHECK_DEADLOCK FALSE

CONSTANTS
    Paths = {"a", "b"}
    Pack = {"a", "b"}
    Texts = {"x", "y"}
    Governed = {"y"}
    None = None
    MaxFaults = 1
    MaxCommits = 4
    MaxRewrites = 0
SPECIFICATION Spec
INVARIANT
    DeletionsAreWithdrawn
CHECK_DEADLOCK FALSE

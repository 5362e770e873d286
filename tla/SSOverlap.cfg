CONSTANTS
    r1 = r1
    r2 = r2
    r3 = r3
    i1 = i1
    i2 = i2
    None = None
    Runs = {i1, i2}
    Records = {r1, r2}
    Sweeps = 1
    Listing0 <- Sorted
    Stamp0 <- Increasing
    TextOf <- FixedWidth
    Incremental = TRUE
    Ascending = TRUE
    Paged = FALSE
    PageSize = 2
    ParentPages = 0
    Budgets <- Tight
    BatchSize = 1
    MaxDigests = 2
    MaxTouches = 1
    MaxFaults = 1
SYMMETRY Symmetry
SPECIFICATION Spec
INVARIANTS
    TypeOK
    DigestWasAccepted
    WatermarkCovers
    WithinBudget
PROPERTY
    CursorOnlyForward
CHECK_DEADLOCK FALSE

CONSTANTS
    r1 = r1
    r2 = r2
    r3 = r3
    i1 = i1
    i2 = i2
    None = None
    Runs = {i1}
    Records = {r1, r2}
    Sweeps = 2
    Listing0 <- TwoSweeps
    Stamp0 <- Decreasing
    TextOf <- FixedWidth
    Incremental = TRUE
    Ascending = FALSE
    Paged = FALSE
    PageSize = 2
    ParentPages = 1
    Budgets <- Ample
    BatchSize = 2
    MaxDigests = 2
    MaxTouches = 0
    MaxFaults = 0
SPECIFICATION Spec
INVARIANT
    WatermarkCovers
CHECK_DEADLOCK FALSE

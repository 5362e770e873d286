CONSTANTS
    r1 = r1
    r2 = r2
    r3 = r3
    i1 = i1
    i2 = i2
    None = None
    Runs = {i1}
    Records = {r1, r2}
    Sweeps = 1
    Listing0 <- Sorted
    Stamp0 <- Increasing
    TextOf <- FixedWidth
    Incremental = TRUE
    Ascending = TRUE
    Paged = TRUE
    PageSize = 1
    ParentPages = 0
    Budgets <- Short
    BatchSize = 1
    MaxDigests = 2
    MaxTouches = 0
    MaxFaults = 0
SPECIFICATION FairSpec
PROPERTY
    EventuallyAccepted
CHECK_DEADLOCK FALSE

CONSTANTS
    cs1 = cs1
    cs2 = cs2
    k1 = k1
    c1 = c1
    c2 = c2
    t1 = t1
    t2 = t2
    g1 = g1
    g2 = g2
    w1 = w1
    p1 = p1
    p2 = p2
    None = None
    Nobody = Nobody
    ChangeSets = {cs1, cs2}
    Keys = {k1}
    KeyOf <- ReusedKey
    BaseOf <- Bases
    Connectors = {c1, c2}
    Callers = {t1, t2}
    HomeOf <- TwoInstances
    SplitCommit = FALSE
    MaxVersion = 1
    MaxCalls = 3
    MaxCrashes = 1
    Pagers = {g1, g2}
    Writers = {w1}
    Procs = {p1, p2}
    ProcOf <- Together
    Pages = 3
    LastEmpty = TRUE
    Loops = TRUE
    Submissions = 2
    MaxPages = 4
    Resume = {TRUE}
    Attempts = 2
    MaxWrites = 1
    MaxFaults = 1
SPECIFICATION CoreSpec
INVARIANTS
    TypeOK
    OneEffectPerKey
    AppliedReceiptIsTrue
    ReportedIsDurable
    StreamTypeOK
    CursorCovers
    LockServes
PROPERTIES
    LapsedAuthorityHasNoEffect
    KeepsPromise
    OnlyPagesMoveCursor
CHECK_DEADLOCK FALSE

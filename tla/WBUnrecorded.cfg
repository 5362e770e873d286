CONSTANTS
    cs1 = cs1
    cs2 = cs2
    k1 = k1
    c1 = c1
    c2 = c2
    t1 = t1
    t2 = t2
    None = None
    ChangeSets = {cs1, cs2}
    Keys = {k1}
    KeyOf <- ReusedKey
    BaseOf <- Bases
    Connectors = {c1}
    Callers = {t1, t2}
    HomeOf <- OneInstance
    SplitCommit = FALSE
    MaxVersion = 1
    MaxCalls = 4
    MaxCrashes = 1
SPECIFICATION Spec
INVARIANT
    NoDecisionOnlyInMemory
CHECK_DEADLOCK FALSE

CONSTANTS
    cs1 = cs1
    cs2 = cs2
    k1 = k1
    c1 = c1
    c2 = c2
    t1 = t1
    t2 = t2
    t3 = t3
    m1 = m1
    m2 = m2
    m3 = m3
    h1 = h1
    h2 = h2
    p1 = p1
    p2 = p2
    b1 = b1
    b2 = b2
    None = None
SPECIFICATION Spec
INVARIANTS
    TypeOK
    ReceiptsAreExplained
    WritesAreKept
    CredentialsAreCurrent
PROPERTIES
    UncertainIsHeld
    CallsAreEarned
    ExecutionsAccounted
    ServedCallsAreSound
    SinkWritesAccounted
CHECK_DEADLOCK FALSE

CONSTANTS
    n1 = n1
    d1 = d1
    d2 = d2
    r1 = r1
    r2 = r2
    i1 = i1
    g1 = g1
    w1 = w1
    p1 = p1
    p2 = p2
    None = None
    Nobody = Nobody
    Connectors = {n1}
    Descriptors = {d1, d2}
    Presets = {1, 2}
    OwnerOf <- Single
    Mapped = {1}
    Slots = {1, 2}
    Capacity = 1
    MaxPages = 2
    Data0 <- First
    MaxData <- Lengths
    MaxEdits = 1
    MaxFaults = 1
SPECIFICATION LiveSpec
INVARIANTS
    TypeOK
    OneWorker
    PlacesAreHeld
    ReadyIsEarned
PROPERTIES
    PagesInOrder
    EventuallySynced
    EverythingAccepted
    EventuallyWalked
CHECK_DEADLOCK FALSE

CONSTANTS
    r1 = r1
    r2 = r2
    r3 = r3
    i1 = i1
    None = None
SPECIFICATION Spec
INVARIANTS
    TypeOK
    CursorsHideNothing
    SnapshotIsExact
    ListedIsEmitted
    FetchesAreApproved
    CompletedRunCovers
    EventsAreKept
PROPERTIES
    SweepCovers
CHECK_DEADLOCK FALSE

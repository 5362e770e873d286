CONSTANTS
    g1 = g1
    g2 = g2
    p1 = p1
    p2 = p2
    Nobody = Nobody
    Pagers = {g1, g2}
    Writers = {}
    Procs = {p1, p2}
    ProcOf <- TwoPagers
    Pages = 3
    LastEmpty = FALSE
    Loops = FALSE
    Submissions = 1
    MaxPages = 3
    Resume = {TRUE}
    Attempts = 2
    MaxWrites = 0
    MaxFaults = 0
SPECIFICATION StreamSpec
INVARIANT
    PassCovers
CHECK_DEADLOCK FALSE

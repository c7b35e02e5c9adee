SPECIFICATION ServicesSpec
CONSTANTS
    t1 = t1
    t2 = t2
    t3 = t3
    p1 = p1
    p2 = p2
    f1 = f1
    f2 = f2
    e1 = e1
    e2 = e2
    Tournaments = {t1, t2, t3}
    Cloud = {t1}
    Workloads = {{t1, t2}, {t2, t3}}
    Pollers = {p1, p2}
    Files = {f1, f2}
    DedupLimit = 3
    Evidence = {e1, e2}
    Parts = {f1, f2}
    SyncOverlaps = FALSE
INVARIANTS
    RecordsAreConsistent

    
    
CHECK_DEADLOCK FALSE

SPECIFICATION TriageSpec
CONSTANTS
    o1 = o1
    Orders = {o1}
    a1 = a1
    Assignees = {a1}
    t1 = t1
    t2 = t2
    Triages = {t1, t2}
    p1 = p1
    p2 = p2
    Procs = {p1, p2}
    None = None
    MaxEvents = 3
    MaxCopies = 2
    MaxFailures = 0
INVARIANTS
    TriagedOnce
CHECK_DEADLOCK FALSE

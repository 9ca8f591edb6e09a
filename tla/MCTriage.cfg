SPECIFICATION SerialTriageSpec
CONSTANTS
    o1 = o1
    Orders = {o1}
    a1 = a1
    Assignees = {a1}
    t1 = t1
    t2 = t2
    Triages = {t1, t2}
    p1 = p1
    p2 = p2
    Procs = {p1, p2}
    None = None
    MaxEvents = 5
    MaxCopies = 2
    MaxFailures = 2
INVARIANTS
    TriageTypeOK
    LastEventIsTheRow
    WorkHasAssignee
    NoTriageIsLost
PROPERTIES
    ImplementsLifecycle
    EveryOrderIsTriaged
\* Once every order is closed and triaged the service has nothing left to do.
CHECK_DEADLOCK FALSE

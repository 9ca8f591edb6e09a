SPECIFICATION Spec
CONSTANTS
    o1 = o1
    Orders = {o1}
    a1 = a1
    Assignees = {a1}
    Triages = {}
    p1 = p1
    p2 = p2
    p3 = p3
    Procs = {p1, p2, p3}
    None = None
    MaxEvents = 5
SYMMETRY Symmetry
INVARIANTS
    TypeOK
    AssignedHasAssignee
    CreatedComesFirst
PROPERTIES
    AtomicChangeAndEvent
    SavesCommitInIdOrder
\* Once every order is closed the service has nothing left to do.
CHECK_DEADLOCK FALSE

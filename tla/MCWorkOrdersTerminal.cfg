SPECIFICATION Spec
CONSTANTS
    o1 = o1
    Orders = {o1}
    a1 = a1
    Assignees = {a1}
    t1 = t1
    Triages = {t1}
    p1 = p1
    p2 = p2
    Procs = {p1, p2}
    None = None
    MaxEvents = 5
SYMMETRY Symmetry
PROPERTIES
    TerminalIsFinal
\* Once every order is closed and triaged the service has nothing left to do.
CHECK_DEADLOCK FALSE

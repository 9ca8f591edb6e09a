SPECIFICATION CauseSpec
CONSTANTS
    e1 = e1
    h1 = h1
    h2 = h2
    Events = {e1}
    Handlers = {h1, h2}
    MaxAttempts = 3
    StoreSize = 2
    Prefetch = 2
    Rejections = {}
    FaultKinds = {"relay"}
    MaxCopies = 2
    MaxFaults = 1
    MaxCount = 4
INVARIANTS
    NotifiedOnce
\* Once every message is acknowledged or parked there is nothing left to do.
CHECK_DEADLOCK FALSE

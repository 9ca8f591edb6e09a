SPECIFICATION FairCauseSpec
CONSTANTS
    e1 = e1
    e2 = e2
    h1 = h1
    h2 = h2
    Events = {e1, e2}
    Handlers = {h1, h2}
    MaxAttempts = 2
    StoreSize = 1
    Prefetch = 2
    Rejections = {0, 1}
    FaultKinds = {"relay", "crash", "channel", "publish"}
    MaxCopies = 2
    MaxFaults = 1
    MaxCount = 2
INVARIANTS
    TypeOK
    NothingIsLost
    ParkedAfterAllAttempts
    RepeatsAreAccountedFor
PROPERTIES
    EverythingSettles
\* Once every message is acknowledged or parked there is nothing left to do.
CHECK_DEADLOCK FALSE

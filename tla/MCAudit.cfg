SPECIFICATION FairSpec
CONSTANTS
    e1 = e1
    e2 = e2
    e3 = e3
    bad = bad
    Events = {e1, e2, e3, bad}
    Poison = {bad}
    w1 = w1
    Partitions = {w1}
    r1 = r1
    r2 = r2
    Replicas = {r1, r2}
    Limit = 1
    None = None
    FirstOwners <- MCFirstOwners
    Filters = {None}
    FaultKinds = {"crash", "database", "rebalance", "replay"}
    MaxRecords = 3
    MaxFaults = 1
INVARIANTS
    TypeOK
    NothingIsSkipped
    FeedKeepsTopicOrder
    FeedNeverRepeats
    FeedIsComplete
PROPERTIES
    ImplementsProjection
    EverythingIsRecorded
\* Once the topic is recorded and read there is nothing left to do.
CHECK_DEADLOCK FALSE

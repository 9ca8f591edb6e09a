SPECIFICATION FairSpec
CONSTANTS
    o1 = o1
    r1 = r1
    r2 = r2
    Orders = {o1}
    None = None
    Relays = {r1, r2}
    BatchSize = 2
    BootOutcomes = {TRUE}
    MaxId = 3
    MaxFaults = 2
INVARIANTS
    TypeOK
    ClaimsAreExclusive
    StampedReachedBoth
    AuditedWasAnnounced
    DuplicatesHaveACause
PROPERTIES
    ImplementsAtLeastOnce
    EverythingIsRelayed
\* When every id is used and published the relays have nothing left to do.
CHECK_DEADLOCK FALSE

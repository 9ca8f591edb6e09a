SPECIFICATION Spec
CONSTANTS
    o1 = o1
    r1 = r1
    r2 = r2
    Orders = {o1}
    None = None
    Relays = {r1, r2}
    BatchSize = 1
    BootOutcomes = {TRUE}
    MaxId = 2
    MaxFaults = 0
INVARIANTS
    KafkaKeepsOrder
\* When every id is used and published the relays have nothing left to do.
CHECK_DEADLOCK FALSE

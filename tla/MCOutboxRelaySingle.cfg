SPECIFICATION Spec
CONSTANTS
    o1 = o1
    o2 = o2
    r1 = r1
    Orders = {o1, o2}
    None = None
    Relays = {r1}
    BatchSize = 2
    BootOutcomes = {TRUE, FALSE}
    MaxId = 3
    MaxFaults = 2
SYMMETRY Symmetry
INVARIANTS
    KafkaKeepsOrder
\* When every id is used and published the relays have nothing left to do.
CHECK_DEADLOCK FALSE

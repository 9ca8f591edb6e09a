SPECIFICATION FairSpec
CONSTANTS
    o1 = o1
    r1 = r1
    Orders = {o1}
    None = None
    Relays = {r1}
    BatchSize = 2
    BootOutcomes = {TRUE, FALSE}
    MaxId = 2
    MaxFaults = 0
PROPERTIES
    AnnouncedWithoutKafka
\* When every id is used and published the relays have nothing left to do.
CHECK_DEADLOCK FALSE

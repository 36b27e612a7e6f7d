SPECIFICATION FairSpec
CONSTANTS
    c1 = c1
    c2 = c2
    p1 = p1
    p2 = p2
    e1 = e1
    e2 = e2
    e3 = e3
    Consumers = {c1, c2}
    Partitions = {p1, p2}
    LogEnd <- PoisonLogEnd
    EventId <- PoisonEventId
    Verdict <- PoisonVerdict
    Directory <- PoisonDirectory
    BatchMax = 2
    DlqOutage = TRUE
    MaxIncidents = 1
    MaxStops = 0
INVARIANTS
    NoEventLost
PROPERTIES
    EventuallyDrained
CHECK_DEADLOCK FALSE

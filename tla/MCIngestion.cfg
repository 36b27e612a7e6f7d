SPECIFICATION Spec
CONSTANTS
    c1 = c1
    c2 = c2
    p1 = p1
    p2 = p2
    e1 = e1
    e2 = e2
    e3 = e3
    Consumers = {c1, c2}
    Partitions = {p1}
    LogEnd <- OneLogEnd
    EventId <- OneEventId
    Verdict <- OneVerdict
    Directory <- OneDirectory
    BatchMax = 2
    DlqOutage = FALSE
    MaxIncidents = 2
    MaxStops = 1
SYMMETRY MCSymmetry
INVARIANTS
    Inv
    CommittedAccounted
    ReconcilesAtReturn
    GracefulStopCommits
    DuplicatesBounded
PROPERTIES
    Delivery
CHECK_DEADLOCK FALSE

SPECIFICATION FairSpec
CONSTANTS
    Events <- Healing
    Marts <- TripsEvents
    Lookback = 1
    MaxStall = 1
    RunBound = 0
    BackfillSlack = 0
    ExpiryHorizon = 1
    BackfillRanges <- NoBackfill
    MaxClock = 3
    MaxCopies = 1
PROPERTIES
    LeavesQuarantine
    ImplementsTripView
    ImplementsEventView

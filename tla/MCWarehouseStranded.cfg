SPECIFICATION Spec
CONSTANTS
    Events <- TwoRequests
    Marts <- OnlyTrips
    Lookback = 2
    MaxStall = 1
    RunBound = 1
    BackfillSlack = 3
    ExpiryHorizon = 1
    BackfillRanges <- OneBackfill
    MaxClock = 6
    MaxCopies = 1
INVARIANTS
    NothingStranded

SPECIFICATION Spec
CONSTANTS
    Events <- TwoRequests
    Marts <- OnlyTrips
    Lookback = 2
    MaxStall = 1
    RunBound = 1
    BackfillSlack = 0
    ExpiryHorizon = 1
    BackfillRanges <- NoBackfill
    MaxClock = 6
    MaxCopies = 1
INVARIANTS
    RefreshWouldAgree

SPECIFICATION Spec
CONSTANTS
    Events <- Paid
    Marts <- AllMarts
    Lookback = 1
    MaxStall = 1
    RunBound = 0
    BackfillSlack = 0
    ExpiryHorizon = 1
    BackfillRanges <- OneBackfill
    MaxClock = 4
    MaxCopies = 1
INVARIANTS
    Inv
    NothingStranded
    OneRowPerKey
    QuietRunPassesGate
PROPERTIES
    TripsNeverRegress

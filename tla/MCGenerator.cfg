SPECIFICATION GeneratorSpec
CONSTANTS
    Trips = 3
    Window = 900
    RequestTimes = {0, 200, 700}
    Types = {"PREMIUM"}
    MinRating <- MCRating
    Fleet <- MCFleet
    Onlines <- MCOnlines
    Shifts = {1800}
    Extensions = {300}
    MatchingDelays = {8}
    Etas = {60, 600}
    ArrivalDelays <- MCDelays
    Waits = {5}
    Durations = {605}
    PaymentLags = {3}
    CancelDelays <- MCCancelDelays
    Quotes <- MCQuotes
    Tariff <- MCTariff
    Floor = 10
    Ceiling = 40
    MinDemand = 3
    Counts = {1, 3, 6, 20}
    Supplies = {0, 2, 9}
    Weather = 70
    Buckets = 3
INVARIANTS
    TypeOK
    NoDoubleBooking
    RefusedOnlyWhenBusy
    ChainIsLawful
    OutcomeIsInferred
    FareReconciles
    RunBalances
    SurgeInGrid
    SurgeTracksScarcity
    SurgeIsMonotone
CHECK_DEADLOCK FALSE

SPECIFICATION Spec
CONSTANTS
    Runs = 2
    Marts = {"fct_trips", "fct_payments"}
    Retries <- MCRetries
    MaxLandings = 1
INVARIANTS
    TypeOK
    NothingUntestedServed
    FailureIsAlerted
    QuietRunPublishes
PROPERTIES
    MarkerVouches
    EveryRunEnds
CHECK_DEADLOCK FALSE

SPECIFICATION ProducerSpec
CONSTANTS
    Chain <- MCChain
    Lags = {1}
    LateDelays = {5400}
    DisorderDelays = {20}
    SkewLeads = {280}
    DuplicateDelays = {2}
    MaxAnomalies = 2
    PartitionFor <- MCPartitionFor
    FlushEvery = 3
    QueueMax = 3
INVARIANTS
    ProducerTypeOK
    OnlyMalformedRejected
    UnlabelledIsUntouched
    CopyFollowsOriginal
    CleanReportIsComplete
    ReportIsHonest
    DirectLandsTheRest
PROPERTIES
    WriteReturns
CHECK_DEADLOCK FALSE

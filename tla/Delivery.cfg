SPECIFICATION FairSpec
CONSTANTS
    d1 = d1
    d2 = d2
    Deliveries <- TwoDeliveries
    MaxRetries = 4
    RetryDelays <- ShortDelays
    Faults = {"receiver", "network", "db", "kill"}
INVARIANTS
    TrailIsComplete
    HeardIsRecorded
PROPERTIES
    NoRepeatAfterSuccess
    EveryTaskEnds

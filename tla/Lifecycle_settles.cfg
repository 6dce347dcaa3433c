SPECIFICATION FairSpec
CONSTANTS
    c1 = c1
    c2 = c2
    None = None
    Cancellers = {c1, c2}
    Faults = {"storage", "redis", "stage", "timeout"}
PROPERTIES
    AcceptedSettles
    FlaggedStops
    ScheduledIsSent

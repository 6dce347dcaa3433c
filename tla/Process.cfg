SPECIFICATION Spec
CONSTANTS
    Inner <- InnerLimits
    Outer <- OuterLimits
    JobSlack = 1
    Grace = 1
    Interval = 1
    Percents <- SomePercents
    MaxLines = 2
    PipeCap = 1
    MaxFaults = 1
    MaxTime = 6
INVARIANTS
    ChosenIsDead
    FileFitsOutcome
    EndsInTime
    CancelStopsInTime
PROPERTIES
    ProgressForward

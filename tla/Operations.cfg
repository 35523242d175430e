SPECIFICATION Spec
CONSTANTS
    Occurrences = {1, 3, 5}
    Jobs <- MCJobs
    InitialLookback = 3
    MaxLookback = 4
    Fallback = 3
    Settings <- MCSettings
    DelayLimit = 0
    BacklogLimit = 1
    Day = 1
    Required = 2
    Horizon = 3
    MaxRuns = 3
    MaxFaults = 1
CHECK_DEADLOCK FALSE
INVARIANTS
    TypeOK
    AttemptsAreMeasured
    AlertsFollowReports
    EligibleWeeksDiffer
    WeeksAreConsecutive

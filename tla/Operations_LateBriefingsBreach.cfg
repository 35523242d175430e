SPECIFICATION Spec
CONSTANTS
    Occurrences = {2, 4}
    Jobs <- MCJobs
    InitialLookback = 3
    MaxLookback = 4
    Fallback = 3
    Settings <- MCAhead
    DelayLimit = 0
    BacklogLimit = 1
    Day = 1
    Required = 1
    Horizon = 3
    MaxRuns = 3
    MaxFaults = 1
CHECK_DEADLOCK FALSE
INVARIANTS
    LateBriefingsBreach

SPECIFICATION Spec
CONSTANTS
    Candidates = {1, 2}
    Cited = {1, 2}
    Occurrences = {2, 4, 6}
    Triggers = {"scheduled"}
    InitialLookback = 2
    MaxLookback = 3
    MaxItems = 1
    Policies = {FALSE}
    Horizon = 6
INVARIANTS
    QueueKept

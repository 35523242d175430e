SPECIFICATION FairSpec
CONSTANTS
    Versions = {v1, v2}
    Candidates = {c1, c2}
    Reviewers = {r1}
    Policies = {TRUE, FALSE}
    MaxCycles = 2
    None = None
INVARIANTS
    TypeOK
    RoutedVersionsAreCited
    CandidateOwnersValidated
    OneCandidatePerVersion
    MidwayWereNeverCalled
    OneCallPerVersion
    SuccessIsComplete
PROPERTIES
    CommittedVersionsClimb
    CommittedRowsAreKept
    ManualCyclesDecideNothing
    CyclesEnd

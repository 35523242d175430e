SPECIFICATION FairSpec
CONSTANTS
    a = a
    b = b
    Sources <- MCSources
    Paired <- MCPaired
    Rules <- MCRules
    Urls <- MCUrls
    Interval <- MCInterval
    Burst <- MCBurst
    MaxRedirects = 1
    MaxWaits = 2
    Early = 1
    MaxRetries = 3
    BaseBackoff = 2
    MaxBackoff = 3
    MaxCalls = 3
    Horizon = 2
INVARIANTS
    TypeOK
    RateKept
    OneSleepSuffices
    ExhaustedAreAlerted
    RequestsBounded
PROPERTIES
    RetriesWait
    CallsEnd

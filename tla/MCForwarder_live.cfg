SPECIFICATION FairSpec
CONSTANTS
    r1 = r1
    r2 = r2
    r3 = r3
    Requests <- Three
    Job <- PoolPinnedTest
    NumKeys = 1
    DailyQuota <- NoQuota
    TicksPerSec = 1
    TotalAttempts = 2
    SelectionTries = 2
    MaxConcurrent = 1
    RateLimited = TRUE
    BadKeys <- NoKeys
    Answers <- OkOrTimeout
    RetryAfters <- NoHeader
    CooldownSeconds = 1
    FailedCooldownSeconds = 1
    FailureThreshold = 1
    FailureWindowSeconds = 1
    CountMode = "attempt"
    ClientCounted = TRUE
    CreditCost = 0
    InitCredits <- NoCredits
    SharedStore = FALSE
    DbFaults = FALSE
    AdminActs = TRUE
    MaxNow = 0
    MaxDay = 0
PROPERTIES
    AllEnd
    NeverReactivated

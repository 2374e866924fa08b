SPECIFICATION Spec
CONSTANTS
    r1 = r1
    r2 = r2
    r3 = r3
    Requests <- Two
    Job <- PoolPinned
    NumKeys = 2
    DailyQuota <- QuotaOfTwo
    TicksPerSec = 1
    TotalAttempts = 2
    SelectionTries = 3
    MaxConcurrent = 1
    RateLimited = FALSE
    BadKeys <- KeyOne
    Answers <- AllAnswers
    RetryAfters <- OneSecond
    CooldownSeconds = 1
    FailedCooldownSeconds = 1
    FailureThreshold = 2
    FailureWindowSeconds = 1
    CountMode = "success"
    ClientCounted = TRUE
    CreditCost = 2
    InitCredits = 3
    SharedStore = TRUE
    DbFaults = TRUE
    AdminActs = FALSE
    MaxNow = 1
    MaxDay = 2
INVARIANTS
    TypeOK
    CallsWithinLimit
    SlotsHeld
    GivesUpWhenSpent
    NoOvercharge
    CreditsNotOvercharged
PROPERTIES
    ImplementsSemaphore

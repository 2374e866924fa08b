CONSTANTS
    r1 = r1
    r2 = r2
    r3 = r3
    Requests = {r1, r2, r3}
    RedisModes = {TRUE, FALSE}
    MaxConcurrent = 2
    LeaseTtl = 1
    Quota = 2
    InitUsage = 1
    Faults = TRUE
    MaxDay = 1
SPECIFICATION FairSpec
INVARIANTS
    TypeOK
    LeakExplained
    RefusalJustified
PROPERTIES
    Settles

SPECIFICATION RotationSpec
CONSTANTS
    t1 = t1
    t2 = t2
    Threads <- MCThreads
    NumKeys = 3
    DailyQuota <- MCQuota
    TicksPerSec = 1
    RowChoices <- MCRows
    DbFaults = TRUE
    MaxWrites = 1
    MaxNow = 1
SYMMETRY Symmetry
INVARIANTS
    FairChain
    NoStarvation
PROPERTIES
    HandedOutInService

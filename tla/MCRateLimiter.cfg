SPECIFICATION Spec
CONSTANTS
    k1 = k1
    t1 = t1
    t2 = t2
    Keys <- MCKeys
    Threads <- MCThreads
    Rates <- MCRates
    MaxRate = 3
    Minute = 4
    MaxNow = 5
SYMMETRY Symmetry
INVARIANTS
    TypeOK
    GrantBound
    BurstBounded
PROPERTIES
    RetrySound

SPECIFICATION FairSpec
CONSTANTS
    r1 = r1
    r2 = r2
    r3 = r3
    r4 = r4
    a = a
    b = b
    Requests <- Four
    IdemKeys <- MCKeys
    NoKey = NoKey
    Key <- SameKey
    Payload <- TwoBodies
    Required <- OnlyR4
    Attempts = 2
    Ttl = 1
    ReuseIds = FALSE
    Faults = TRUE
    MaxNow = 2
INVARIANTS
    TypeOK
    ExclusiveWithinTtl
    ReplayFaithful
PROPERTIES
    StoredAnswerFinal
    AllEnd

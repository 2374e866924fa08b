SPECIFICATION Spec
CONSTANTS
    r1 = r1
    r2 = r2
    r3 = r3
    r4 = r4
    a = a
    b = b
    Requests <- Three
    IdemKeys <- MCKeys
    NoKey = NoKey
    Key <- TwoKeys
    Payload <- TwoBodies
    Required <- Nobody
    Attempts = 2
    Ttl = 1
    ReuseIds = TRUE
    Faults = FALSE
    MaxNow = 4
INVARIANTS
    ReplayFaithful

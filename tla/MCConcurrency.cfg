SPECIFICATION Spec
CONSTANTS
    k1 = k1
    k2 = k2
    l1 = l1
    l2 = l2
    l3 = l3
    l4 = l4
    Keys <- MCKeys
    Leases <- MCLeases
    Limits <- MCLimits
SYMMETRY Symmetry
INVARIANTS
    TypeOK
    CountIsHeld
PROPERTIES
    GrantBelowLimit
    ImplementsSemaphore

CONSTANTS
    a1 = a1
    a2 = a2
    a3 = a3
    k1 = k1
    k2 = k2
    k3 = k3
    c1 = c1
    c2 = c2
    Sessions = {a1, a2}
    Keys = {k1, k2, k3}
    Clients = {c1, c2}
    InitKeys = {k1, k2}
    Ops <- AllOps
    Bound = {k2}
    ForeignKeys = TRUE
    Faults = TRUE
SPECIFICATION AdminSpec
SYMMETRY Symmetry
INVARIANTS
    AdminTypeOK
    OwnCommitOnly
PROPERTIES
    OnlyEnablingRevives

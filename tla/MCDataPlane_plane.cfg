CONSTANTS
    r1 = r1
    r2 = r2
    r3 = r3
    k1 = k1
    k2 = k2
    Requests = {r1, r2, r3}
    Offered <- AskOrCreate
    Keys = {k1, k2}
    MaxTasks = 2
    TotalAttempts = 2
    Faults = TRUE
    AdminActs = TRUE
SPECIFICATION Spec
SYMMETRY Symmetry
INVARIANTS
    TypeOK
    ToldIsFound

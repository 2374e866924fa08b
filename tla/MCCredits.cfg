CONSTANTS
    NumKeys = 3
    BadKeys = {1}
    BatchSize = 2
    RetryTicks = 2
    HighTicks = 1
    LowTicks = 1
    SpentTicks = 2
    MinTicks = 1
    Faults = TRUE
    MaxActs = 1
SPECIFICATION Spec
INVARIANTS
    TypeOK
PROPERTIES
    RetryDelayed
    NoKeyForgotten

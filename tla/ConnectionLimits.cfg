CONSTANTS
    Vhosts = {v1, v2}
    Limits = {0, 2}
    Window = 2
    MaxTime = 3
    MaxCommands = 3
    Null = Null
SPECIFICATION Spec
SYMMETRY Symmetry
INVARIANTS
    LimitInForce
    AverageKept
    RefusedOnlyWhenFull

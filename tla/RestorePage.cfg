SPECIFICATION CtlSpec
CONSTANTS
    Runs = {r1, r2}
    None = None
    Replicas = 1
    TLS = FALSE
    MaxSecond = 3
    MaxFaults = 0
    PageSize = 1
    MaxRestores = 1
INVARIANT NewestListed
CHECK_DEADLOCK FALSE
SYMMETRY RunSymmetry

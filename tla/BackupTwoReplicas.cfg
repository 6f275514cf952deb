SPECIFICATION Spec
CONSTANTS
    Runs = {r1, r2}
    Replicas = 2
    TLS = TRUE
    MaxSecond = 2
    MaxFaults = 0
INVARIANT SnapshotsCleaned
CHECK_DEADLOCK FALSE

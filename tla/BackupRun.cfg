SPECIFICATION CtlSpec
CONSTANTS
    Runs = {r1, r2, r3}
    None = None
    Replicas = 2
    TLS = TRUE
    MaxSecond = 3
    MaxFaults = 1
    PageSize = 2
    MaxRestores = 1
INVARIANTS OwnSnapshotKept SuccessHasObject TarredReplicaCleaned RestoreCurrent
PROPERTY LastBackupHonest
CHECK_DEADLOCK FALSE
SYMMETRY RunSymmetry

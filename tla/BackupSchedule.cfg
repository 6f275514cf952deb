SPECIFICATION Spec
CONSTANTS
    c1 = c1
    c2 = c2
    Clusters <- TwoClusters
    Schedules = {"hourly"}
    Bogus = "bogus"
    None = None
    Ids <- FewIds
    MaxRuns = 1
    MaxBudget = 3
INVARIANTS TypeOK OneEntryPerCluster RegisteredAtRest
PROPERTY KeepsRunning
CHECK_DEADLOCK FALSE

CONSTANTS
    None = None
    Specs <- GoodAndBad
    EnableWebhook = {TRUE, FALSE}
    MaxUid = 1
    MaxBudget = 1
SPECIFICATION Spec
CHECK_DEADLOCK FALSE
INVARIANTS
    TypeOK
    SeriesFollowsCluster
PROPERTIES
    ChildrenOnlyUnderFinalizer
    ImplementsLifecycle
    Converges
    DeletionCompletes

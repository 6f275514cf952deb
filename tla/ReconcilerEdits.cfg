CONSTANTS
    None = None
    Specs <- TwoSpecs
    EnableWebhook = {FALSE}
    MaxUid = 1
    MaxBudget = 2
SPECIFICATION Spec
CHECK_DEADLOCK FALSE
INVARIANT
    RestsInSync
PROPERTY
    NoLostStatus

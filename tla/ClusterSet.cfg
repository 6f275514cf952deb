CONSTANTS
    None = None
    Clusters = {1, 2}
    Found <- Fleets
    s1 = s1
    s2 = s2
    na = na
    nb = nb
    Namespaces = {na, nb}
    NsOf <- TwoNs
    Sets = {s1, s2}
    Templates = {"gold", "iron", "lead"}
    BadTemplates = {"lead"}
    Webhook = TRUE
    ClusterSpecs <- Users
    SetSpecs <- ManySpecs
    Phases = {"Active"}
    MaxBudget = 1
SPECIFICATION Spec
CHECK_DEADLOCK FALSE
INVARIANT
    TypeOK
    StatusAtRest
    OverlaidAtRest
PROPERTY
    MemberWins
    NoIdleWrites
    Converges

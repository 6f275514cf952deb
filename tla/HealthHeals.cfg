SPECIFICATION Spec
CONSTANTS
    Pods = {p1, p2}
    StartTicks = 0
    MaxFaults = 3
INVARIANT FailoversStamped
PROPERTY SelfHeals
CHECK_DEADLOCK FALSE

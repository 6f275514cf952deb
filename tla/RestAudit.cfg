CONSTANTS
    None = None
    Requests = {1, 2, 3}
    Plans <- Mixed
    RetentionDays = 1
    Day = 1
    Half = 4
    Limit = 1
    MaxTime = 2
    MaxFaults = 1
SPECIFICATION Spec
CHECK_DEADLOCK FALSE
INVARIANTS
    TypeOK
    RowsTrue
    AnswersHonest
    Recorded
    RealTimeOrder
    ReadYourWrites
PROPERTY PrunesOld

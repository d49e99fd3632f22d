SPECIFICATION Spec
SYMMETRY Symmetry
CONSTANTS
    u1 = u1
    u2 = u2
    User = {u1, u2}
    Owner = {u1}
    Call = {c1, c2}
    MaxJobs = 1
    None = None
INVARIANTS
    TypeOK
    SilencedStaysOff
    MissedIsNotHeard
    RemovedStaysRemoved
    GoneIsForgotten
PROPERTIES
    FloorNeverMovesBack
    AdminRemains
CHECK_DEADLOCK FALSE

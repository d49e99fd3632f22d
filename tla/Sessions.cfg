SPECIFICATION Spec
SYMMETRY Symmetry
CONSTANTS
    User = {u1}
    Call = {c1, c2}
    MaxTokens = 2
    MaxChanges = 2
    Grace = 1
    MaxTime = 2
    None = None
INVARIANTS
    TypeOK
    SignedOutStaysOut
    GraceIsNotExtended
    OldSessionsEnd
CHECK_DEADLOCK FALSE

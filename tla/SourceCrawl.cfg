SPECIFICATION Spec
SYMMETRY Symmetry
CONSTANTS
    Source = {"OCSC", "DOL"}
    Provider = {"memory", "upstash"}
    Endpoints = 2
    ListingPages = 3
    PageSize = 1
    MaxAttempts = 2
    Reader = {r1, r2}
    MaxIds = 4
    MaxLabels = 1
    None = None
INVARIANTS
    TypeOK
    StaleOnlyIfOvertaken
    SweepMissesNothing

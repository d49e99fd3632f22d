SPECIFICATION FairSpec
CONSTANTS
    Source = {ocsc, unsupported}
    Registered = {ocsc}
    Caller = {c1, c2}
    Cron = c1
    RunId = {r1, r2, r3}
    None = None
    StaleAfter = 1
INVARIANTS
    TypeOK
    OneActivePerSource
    OverlapOnlyPastLimit
PROPERTIES
    EndedStaysEnded
    OrphanIsReleased

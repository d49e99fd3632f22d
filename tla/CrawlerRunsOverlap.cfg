SPECIFICATION Spec
CONSTANTS
    Source = {ocsc}
    Registered = {ocsc}
    Caller = {c1, c2}
    Cron = c1
    RunId = {r1, r2}
    None = None
    StaleAfter = 1
INVARIANT
    OneCrawlPerSource

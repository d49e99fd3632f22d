SPECIFICATION Spec
CONSTANTS
    Ann = {a1}
    u1 = u1
    u2 = u2
    hA = hA
    hB = hB
    Url = {u1, u2}
    Edition <- MCEdition
    Crawl = {c1}
    None = None
    BatchSize = 1
    MaxCrawls = 3
INVARIANT
    StoredIsMatched

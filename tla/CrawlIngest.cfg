SPECIFICATION Spec
SYMMETRY Symmetry
CONSTANTS
    Ann = {a1}
    u1 = u1
    u2 = u2
    hA = hA
    hB = hB
    Url = {u1, u2}
    Edition <- MCEdition
    Crawl = {c1, c2}
    None = None
    BatchSize = 1
    MaxCrawls = 2
INVARIANTS
    TypeOK
    UnmatchedOnlyAfterFailure
    AttachmentsFitContent
PROPERTIES
    FirstSeenNeverMoves
    ReadingSurvives

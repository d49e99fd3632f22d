SPECIFICATION Spec
CONSTANTS
    MaxAtt = 2
    exact = exact
    scan = scan
    large = large
    File = {exact, scan, large}
    Served <- MCServed
    Size <- MCSize
    Verdict <- MCVerdict
    InitialBuffer = 1
    MaxBytes = 3
    BatchSize = 1
    Attempts = 1
    MaxStalled = 1
    MaxFaults = 1
    MaxResets = 1
    None = None
INVARIANTS
    TypeOK
    BufferHolds
    TextFitsFile
    FailureIsOwn
    StuckOnlyIfAbandoned
    ReadIsMatched
PROPERTIES
    PendingIsRead
CHECK_DEADLOCK FALSE

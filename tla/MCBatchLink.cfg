\* Up to three attempts over two processes, each of which may lose an answer once.
SPECIFICATION FairSpec
CONSTANTS
    primary = primary
    standby = standby
    head = head
    spare = spare
    None = None
    Endpoints <- TwoEndpoints
    ProcessOf <- Processing
    MaxAttempts = 3
    MaxEpoch = 1
CHECK_DEADLOCK FALSE
INVARIANTS
    OncePerProcess
    AtMostOnce
    CautiousSafeHidesNoRun
PROPERTY
    CallReturns

\* A request of the dispatcher, one of the coordinator, and a thread that closes the pool.
SPECIFICATION FairSpec
CONSTANTS
    a = a
    b = b
    Callers = {a, b}
    Closer = closer
    None = None
    Droppers = {a}
    Rounds <- OneAndOne
    MaxSockets = 2
CHECK_DEADLOCK FALSE
INVARIANTS
    OwnReply
    WaiterReachable
    SequentialLeavesNothing
PROPERTY
    LossIsTold

\* Two uses of one key, and a request for a foreign expert, alone on its token.
SPECIFICATION FairSpec
CONSTANTS
    first = first
    second = second
    alone = alone
    own = own
    foreign = foreign
    t1 = t1
    t2 = t2
    None = None
    Requests <- ReusedKey
    KeyOf <- KeyOfRequest
    Own = own
    InOrder = FALSE
CHECK_DEADLOCK FALSE
INVARIANTS
    OwnReply
    WaiterReachable
PROPERTY
    WaiterServed

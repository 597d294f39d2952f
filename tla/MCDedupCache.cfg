\* Three calls, three ids, two slots, two bytes, a clock that can outrun the ttl.
SPECIFICATION Spec
CONSTANTS
    c1 = c1
    c2 = c2
    c3 = c3
    large = large
    small = small
    other = other
    f1 = f1
    f2 = f2
    None = None
    Calls <- ThreeCalls
    Ids <- ThreeIds
    Requests <- MixedRequests
    SizesOf <- SmallSizes
    MaxEntries = 2
    MaxBytes = 2
    Ttl = 1
    MaxTime = 2
CHECK_DEADLOCK FALSE
SYMMETRY Symmetry
INVARIANTS
    FittingInFlightTracked
    FittingBytesCovered
    WaiterHasWorker
PROPERTIES
    NoStaleReplay
    SingleFlightPromise

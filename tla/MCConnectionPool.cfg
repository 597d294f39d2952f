\* Three calls, with either key, over a pool of two.
SPECIFICATION Spec
CONSTANTS
    c1 = c1
    c2 = c2
    c3 = c3
    k1 = k1
    k2 = k2
    primary = primary
    standby = standby
    None = None
    Calls <- ThreeCalls
    Keys <- TwoKeys
    EndpointList <- TwoEndpoints
    MaxConns = 2
CHECK_DEADLOCK FALSE
SYMMETRY Symmetry
INVARIANTS
    NoSocketLeak
    EveryEndpointTried

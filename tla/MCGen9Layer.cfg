\* Two tokens, two consoles, one loss, one retry, FAST replies.
SPECIFICATION FairSpec
CONSTANTS
    a = a
    b = b
    u1 = u1
    u2 = u2
    e1 = e1
    e2 = e2
    Tokens = {a, b}
    Units = {u1, u2}
    Named <- InOrder
    Layers <- TwoLayers
    DenseLayers = 1
    Host <- OneHost
    Placement <- Held
    Routed <- Chosen
    MaxRetries = 1
    Fast = TRUE
    MaxFaults = 1
CHECK_DEADLOCK FALSE
INVARIANTS
    SumComplete
    HoldersAsked
    NoFailureWithoutFault
PROPERTY
    TokenEnds

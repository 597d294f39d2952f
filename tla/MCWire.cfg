\* Every kind of message, every length.
SPECIFICATION Spec
CONSTANTS
    Garbage = Garbage
    NoId = NoId
    MaxPayload = 9
    MaxFrame = 90
    MaxEntries = 2
    MaxString = 2
    MaxRequestId = 7
    Messages <- All
CHECK_DEADLOCK FALSE
INVARIANTS
    RoundTrip
    ResizedRejected
    OneOwner
    AddressesDistinct

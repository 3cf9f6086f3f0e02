SPECIFICATION Spec
CONSTANTS
    MaxNodes = 1
    MaxByte = 2
    Infinity = 5
    LocalMip = 1
    Peers = {0, 2}
    TagByte = 1
    FaultFrom = 2
    Triples = 2
    MaxUnread = 1
    Now = 31
    TimeoutInterval = 30
INVARIANT LostRouteHasBoth
CHECK_DEADLOCK FALSE

SPECIFICATION Spec
CONSTANTS
    MaxNodes = 2
    MaxByte = 3
    Infinity = 7
    LocalMip = 0
    Peers = {1, 3}
    TagByte = 2
    FaultFrom = 3
    Triples = 2
    MaxUnread = 1
    Now = 31
    TimeoutInterval = 30
INVARIANTS
    TypeOK
    HopsSpoke
    NoHoplessRoute
PROPERTIES
    RoutesGetShorter
    ImplementsTable
    HandlersRunDown
    HandlersReturn
    SilentAreDropped
CHECK_DEADLOCK FALSE

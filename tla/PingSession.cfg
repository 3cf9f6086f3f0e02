SPECIFICATION Spec
CONSTANTS
    Clients = {c1, c2}
    Server = server
    MaxForeign = 2
INVARIANTS
    TypeOK
    PongsAreOwn
PROPERTIES
    ImplementsPlace
    ClientsEnd
    AcceptReturns
CHECK_DEADLOCK FALSE

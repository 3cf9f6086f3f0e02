SPECIFICATION Spec
CONSTANTS
    LocalMip = 1
    Mips = {1, 2}
    Macs = {m1, m2}
    Chunks = {c1, c2, c3}
    MaxFd = 7
    CacheSize = 2
    QueueSize = 2
    MaxPings = 1
SYMMETRY Interchangeable
INVARIANTS
    TypeOK
    ForwardQueueSound
    ResponsePairing
PROPERTIES
    FirstBindingWins
    RequestsLeak
CHECK_DEADLOCK FALSE

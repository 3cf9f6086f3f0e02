SPECIFICATION Spec
CONSTANTS
    Packets = {p1, p2}
    Nodes = {n1, n2, n3, n4}
    NULL = NULL
INVARIANTS
    TypeOK
    ListSound
PROPERTY ImplementsFifo

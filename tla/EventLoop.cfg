SPECIFICATION Spec
CONSTANTS
    MaxFd = 8
    Budget = 6
INVARIANTS
    TypeOK
    NothingForgotten
PROPERTIES
    WaitingIsServed
CHECK_DEADLOCK FALSE

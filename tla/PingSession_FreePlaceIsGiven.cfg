SPECIFICATION Spec
CONSTANTS
    Clients = {c1, c2}
    Server = server
    MaxForeign = 2
PROPERTIES
    FreePlaceIsGiven
CHECK_DEADLOCK FALSE

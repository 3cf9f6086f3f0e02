SPECIFICATION Spec
CONSTANTS
    LocalMip = 3
    Nodes = {1, 2}
    Targets = {3, 200}
    Texts = {14, 30}
    Ttls = {17}
    MaxNodes = 9
    Size = 32
    Scribbles <- FewScribbles
INVARIANT HelloIsUnderstood

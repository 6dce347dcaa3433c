SPECIFICATION FairSpec
CONSTANTS
    c1 = c1
    c2 = c2
    c3 = c3
    Clients <- ThreeClients
    MaxDepth = 2
INVARIANTS
    OvershootBounded
PROPERTIES
    SaturationEnds

SPECIFICATION Spec
CONSTANTS
    r1 = r1
    r2 = r2
    r3 = r3
    c1 = c1
    c2 = c2
    g1 = g1
    g2 = g2
    None = None
    Over = Over
    Runs <- MCRuns
    Clients <- MCClients
    Gateways <- MCGateways
    Slices <- MCSlices
    PortMin = 1
    PortMax = 2
    MaxRows = 2
SYMMETRY Symmetry
INVARIANT SlicesAreDisjoint
INVARIANT EnteredIsComplete
INVARIANT LossStopsEverything
INVARIANT LiveKeyOnDisk
INVARIANT ClaimsAreTrue
PROPERTY PostsAvoidOthers
CHECK_DEADLOCK FALSE
CONSTRAINT TwoCross

SPECIFICATION FairSpec
CONSTANTS
    None = None
    Panic = Panic
    GOARCH = "amd64"
    r1 = r1
    r2 = r2
    r3 = r3
    t1 = t1
    t2 = t2
    a = a
    b = b
    Contents <- Images
    Graph <- Graphs
    Toolkits <- InOrder
    NumStates = 2
    Specs = {"one", "many"}
    WatchList <- Watches
    Objects <- Contained
    Worlds <- Beginnings
    MaxLag = 2
    MaxMishaps = 2
INVARIANTS TypeOK ActiveIsDeployed StatusIsComplete WipedStaysEmpty
PROPERTIES ComesToRest StatusIsEarned
CHECK_DEADLOCK FALSE

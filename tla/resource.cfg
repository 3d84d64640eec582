SPECIFICATION FairSpec
CONSTANTS
    a = a
    b = b
    w1 = w1
    w2 = w2
    n1 = n1
    Owner = {a, b}
    Worker = {w1, w2}
    WorkerOf <- TwoWorkers
    Watched <- Owned
    Scenarios <- AllCharts
    Node = {n1, n2}
    NoVendor = NoVendor
    None = None
    MaxRevisions = 2
    MaxMishaps = 1
INVARIANTS TypeOK WaitIsSound BuildIsNeeded OldPodsAreSeen
PROPERTIES ComesToRest
CHECK_DEADLOCK FALSE

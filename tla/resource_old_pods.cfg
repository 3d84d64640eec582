SPECIFICATION Spec
CONSTANTS
    a = a
    b = b
    w1 = w1
    w2 = w2
    n1 = n1
    Owner = {a, b}
    Worker = {w1, w2}
    WorkerOf <- TwoWorkers
    Watched <- Owned
    Scenarios <- Kmod
    Node = {n1, n2}
    NoVendor = NoVendor
    None = None
    MaxRevisions = 2
    MaxMishaps = 0
INVARIANTS NoOldPods
CHECK_DEADLOCK FALSE

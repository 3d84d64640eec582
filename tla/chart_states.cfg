SPECIFICATION Spec
CONSTANTS
    n1 = n1
    n2 = n2
    k1 = k1
    k2 = k2
    t1 = t1
    t2 = t2
    None = None
    Panic = Panic
    GOARCH = "amd64"
    Contents <- Images
    AnyKernel = AnyKernel
    Node = {n1, n2}
    Kernel <- Kernels
    OSOf <- OperatingSystems
    Streams <- Upgrades
    NumStates = 2
    Affine = {1}
    MaxMishaps = 2
SYMMETRY Machines
INVARIANTS TypeOK SteadyNodesLabelled LaterStatesWait SteadyNodesClean OwnToolkit
CHECK_DEADLOCK FALSE

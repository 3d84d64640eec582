SPECIFICATION Spec
CONSTANTS
    a = a
    b = b
    None = None
    SR = {a, b}
    Deps <- OneDependency
    Stateful = {a}
    UserStates = {"Managed", "Removed", "Unmanaged"}
    Values = {0, 1}
    DefaultSet = 0
    KernelVersions = 2
    MaxLag = 2
    MaxEdits = 2
    MaxFaults = 1
    MaxRestarts = 1
INVARIANTS TypeOK FinalizerGuardsCluster  RemovedIsGone DeletedIsGone DependenciesExist
PROPERTIES ImplementsOwnership ReadyIsEarned
CHECK_DEADLOCK FALSE

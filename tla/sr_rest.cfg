SPECIFICATION FairSpec
CONSTANTS
    a = a
    b = b
    None = None
    SR = {a, b}
    Deps <- OneDependency
    Stateful = {a}
    UserStates = {"Managed", "Removed"}
    Values = {0, 1}
    DefaultSet = 0
    KernelVersions = 1
    MaxLag = 2
    MaxEdits = 2
    MaxFaults = 1
    MaxRestarts = 0
PROPERTIES ComesToRest
CHECK_DEADLOCK FALSE

SPECIFICATION Spec
CONSTANTS
    o1 = o1
    o2 = o2
    p1 = p1
    None = None
    AnyName = AnyName
    SRM = {s1, s2}
    Object = {o1}
    Path = {p1}
    Watches <- Named
    Values = {0, 1}
    MaxEdits = 3
    MaxChanges = 1
    MaxHandlers = 3
    MaxFaults = 1
    MaxRestarts = 1
SYMMETRY Modules
INVARIANTS TypeOK MapsAgree RegistrationsMatchSpecs SeenUnlessRaced
PROPERTIES OthersStayRegistered
CHECK_DEADLOCK FALSE

SPECIFICATION FairSpec
CONSTANTS
    o1 = o1
    o2 = o2
    p1 = p1
    None = None
    AnyName = AnyName
    SRM = {s1}
    Object = {o1, o2}
    Path = {p1}
    Watches <- Kind
    Values = {0, 1}
    MaxEdits = 2
    MaxChanges = 2
    MaxHandlers = 2
    MaxFaults = 1
    MaxRestarts = 0
PROPERTIES EventuallySeen
CHECK_DEADLOCK FALSE

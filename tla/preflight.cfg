SPECIFICATION FairSpec
CONSTANTS
    s1 = s1
    s2 = s2
    r1 = r1
    r2 = r2
    r3 = r3
    t1 = t1
    t2 = t2
    p1 = p1
    p2 = p2
    p2arch = p2arch
    p3 = p3
    k1 = k1
    k2 = k2
    None = None
    Panic = Panic
    GOARCH = "amd64"
    SR = {s1, s2}
    Image = {r1, r2, r3}
    Contents <- Images
    Toolkit = {t1, t2}
    Current = {t1}
    Drivers = {p1, p2}
    Charts <- Pairs
    MaxLag = 1
    MaxMishaps = 2
INVARIANTS TypeOK RestMeansVerified TrueIsEarned ToolkitsAsPublished
PROPERTIES Completes
CHECK_DEADLOCK FALSE

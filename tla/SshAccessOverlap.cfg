CONSTANTS
    Ops = {o1, o2}
    root = root
    ann = ann
    k1 = k1
    k2 = k2
    p1 = p1
    p2 = p2
    none = none
    Users = {root, ann}
    Root = root
    Passwords = {p1, p2}
    Keys = {k1, k2}
    None = none
    Starts <- MCStarts
    MayOverlap = TRUE
    MaxCalls = 2
    MaxEdits = 0
    MaxFaults = 0
SPECIFICATION Spec
INVARIANTS
    RouteWorks
CHECK_DEADLOCK FALSE

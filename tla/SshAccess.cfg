CONSTANTS
    Ops = {o1}
    root = root
    ann = ann
    k1 = k1
    k2 = k2
    p1 = p1
    p2 = p2
    none = none
    Users = {root, ann}
    Root = root
    Passwords = {p1, p2}
    Keys = {k1, k2}
    None = none
    Starts <- MCStarts
    MayOverlap = FALSE
    MaxCalls = 2
    MaxEdits = 1
    MaxFaults = 2
SPECIFICATION Spec
INVARIANTS
    RouteWorks
PROPERTIES
    LastKeyStays
    AnswersAreTrue
CHECK_DEADLOCK FALSE

CONSTANTS
    Ops = {o1, o2}
    Ports = {22, 2222}
    Base = 22
    Walls = {ufw}
    Hosts <- MCPlainHost
    MayOverlap = TRUE
    MaxFaults = 0
SPECIFICATION Spec
INVARIANTS
    EntranceAtRest
CHECK_DEADLOCK FALSE

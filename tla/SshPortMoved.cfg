CONSTANTS
    Ops = {o1}
    Ports = {22, 443, 2222}
    Base = 22
    Walls = {ufw, nft}
    Hosts <- MCMovedHosts
    MayOverlap = FALSE
    MaxFaults = 1
SPECIFICATION Spec
INVARIANTS
    NeverLockedOut
CHECK_DEADLOCK FALSE

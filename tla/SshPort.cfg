CONSTANTS
    Ops = {o1}
    Ports = {22, 2222}
    Base = 22
    Walls = {ufw, nft}
    Hosts <- MCHosts
    MayOverlap = FALSE
    MaxFaults = 2
SPECIFICATION Spec
INVARIANTS
    NeverLockedOut
    RollbackIsReal
PROPERTIES
    OthersRulesStay
CHECK_DEADLOCK FALSE

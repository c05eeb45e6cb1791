CONSTANTS
    Ports = {22, 80, 443}
    Ssh = 22
    Firewalls <- MCAll
    Ambiguous = {443}
    MaxFaults = 1
    MaxEdits = 1
    MaxRounds = 2
SPECIFICATION SpecMore
INVARIANTS
    SshStaysOpen
    SwitchOutlivesReboot
PROPERTIES
    NeverBare
    DecisionIsFresh
    UndoneIsReal
CHECK_DEADLOCK FALSE

CONSTANTS
    Ports = {22, 80, 443}
    Ssh = 22
    Firewalls <- MCAll
    Ambiguous = {443}
    MaxFaults = 1
    MaxEdits = 0
    MaxRounds = 1
SPECIFICATION SpecMore
INVARIANT UndoneIsOff
CHECK_DEADLOCK FALSE

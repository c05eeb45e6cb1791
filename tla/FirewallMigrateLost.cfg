CONSTANTS
    Ports = {22, 80, 443}
    Ssh = 22
    Firewalls <- MCAll
    Ambiguous = {}
    MaxFaults = 0
    MaxEdits = 1
    MaxRounds = 1
SPECIFICATION SpecMore
INVARIANT NothingLeftBehind
CHECK_DEADLOCK FALSE

CONSTANTS
    Ports = {22, 80, 443}
    Ssh = 22
    Firewalls <- MCNftables
    Ambiguous = {443}
    MaxFaults = 1
    MaxEdits = 0
    MaxRounds = 1
SPECIFICATION Spec
INVARIANT OffStaysOff
CHECK_DEADLOCK FALSE

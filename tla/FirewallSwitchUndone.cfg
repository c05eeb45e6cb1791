CONSTANTS
    Ports = {22, 80, 443}
    Ssh = 22
    Firewalls <- MCNftables
    Ambiguous = {}
    MaxFaults = 1
    MaxEdits = 0
    MaxRounds = 1
SPECIFICATION Spec
INVARIANT UndoneOutlivesReboot
CHECK_DEADLOCK FALSE

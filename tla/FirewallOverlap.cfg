CONSTANTS
    Ports = {22, 443}
    Ssh = 22
    Firewalls <- MCUnclear
    Ambiguous = {}
    MaxFaults = 1
    MaxEdits = 0
    MaxRounds = 2
SPECIFICATION SpecBoth
PROPERTY NeverBare
CHECK_DEADLOCK FALSE

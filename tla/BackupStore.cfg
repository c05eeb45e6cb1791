CONSTANTS
    MaxDays = 2
    MaxArts = 3
    Keep = 1
    MaxFaults = 2
    MaxEdits = 1
SPECIFICATION FairSpec
INVARIANTS
    PairBehindRecord
    KeepsLast
    OncePerOccurrence
    CancelIsHonoured
PROPERTIES
    EveryOccurrenceSettles
CHECK_DEADLOCK FALSE

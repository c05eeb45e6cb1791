CONSTANTS
    job = job
    page = page
    sync = sync
    Probers <- MCProbers
    OnLoop <- MCOnLoop
    Silent <- MCSilent
    MaxFlips = 2
    MaxRows = 1
    MaxUpsets = 1
    MaxTouches = 1
    None = None
SPECIFICATION FairSpec
PROPERTIES
    FoundOnce
    EventuallySaid
CHECK_DEADLOCK FALSE

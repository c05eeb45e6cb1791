CONSTANTS
    b1 = b1
    b2 = b2
    r1 = r1
    here = here
    elsewhere = elsewhere
    panel = panel
    cli = cli
    Backups <- MCBackups
    Restores <- MCRestores
    Targets <- MCTargets
    TargetOf <- MCTargetOf
    Procs <- MCProcs
    HomeOf <- MCHomeOf
    Reconciler = Reconciler
    None = None
    Own = r1
    Adopts = TRUE
SPECIFICATION FairSelfSpec
INVARIANTS
    Exclusion
    NoMarkerLeft
    OnlyDeadAbandoned
    TreeChangesAlone
    VerdictIsTrue
PROPERTIES
    DeathIsNoticed
CHECK_DEADLOCK FALSE

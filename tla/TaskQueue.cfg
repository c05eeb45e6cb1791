CONSTANTS
    Servers = {a, b}
    MaxTasks = 3
    HistoryLimit = 1
    Results = {"success_warn", "failed"}
    Observed = {FALSE}
    None = None
SPECIFICATION FairSpec
INVARIANTS
    NoLostWakeup
    ReportedOnce
PROPERTIES
    EveryTaskEnds
    SerialExecution
CHECK_DEADLOCK FALSE

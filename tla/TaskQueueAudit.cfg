CONSTANTS
    Servers = {a}
    MaxTasks = 2
    HistoryLimit = 1
    Results = {"success_warn", "failed"}
    Observed = {FALSE}
    None = None
SPECIFICATION Spec
INVARIANTS
    AuditPairCloses
CHECK_DEADLOCK FALSE

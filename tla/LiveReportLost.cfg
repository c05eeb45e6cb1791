CONSTANTS
    Servers = {a}
    MaxTasks = 1
    HistoryLimit = 1
    Results = {"success_warn", "failed"}
    Observed = {FALSE}
    None = None
    TelegramFails = TRUE
SPECIFICATION LiveSpec
INVARIANTS
    QuietMeansObserved
CHECK_DEADLOCK FALSE

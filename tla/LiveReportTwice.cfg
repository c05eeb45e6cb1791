CONSTANTS
    Servers = {a}
    MaxTasks = 1
    HistoryLimit = 1
    Results = {"success_warn", "failed"}
    Observed = {FALSE}
    None = None
    TelegramFails = FALSE
SPECIFICATION LiveSpec
INVARIANTS
    ToldOnce
CHECK_DEADLOCK FALSE

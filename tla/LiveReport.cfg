CONSTANTS
    Servers = {a}
    MaxTasks = 2
    HistoryLimit = 1
    Results = {"success_warn", "failed"}
    Observed = {FALSE}
    None = None
    TelegramFails = TRUE
SPECIFICATION FairLiveSpec
PROPERTIES
    WakesAfterTheEvent
    WatchersEnd
CHECK_DEADLOCK FALSE

SPECIFICATION FairSpec
CONSTANTS
    ui = ui
    poll = poll
    Ui = ui
    Threads = {ui, poll}
    Acts = {"enable", "disable", "save", "open", "clear", "quit", "kill", "kill_save"}
    Careful = TRUE
    Start <- OneSaved
    MaxDrawn = 3
    MaxFailures = 2
    MaxRuns = 2
INVARIANTS TypeOK AutoSaveKeepsUp SavedOnce HeaderNeverAhead
PROPERTIES DrawnIsSaved
CHECK_DEADLOCK FALSE

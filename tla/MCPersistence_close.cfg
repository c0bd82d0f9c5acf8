SPECIFICATION FairSpec
CONSTANTS
    ui = ui
    poll = poll
    Ui = ui
    Threads = {ui}
    Acts = {"enable", "disable"}
    Careful = FALSE
    Start <- OneSaved
    MaxDrawn = 2
    MaxFailures = 0
    MaxRuns = 1
PROPERTIES CloseReturns
CHECK_DEADLOCK FALSE

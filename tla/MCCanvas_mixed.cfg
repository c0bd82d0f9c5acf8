SPECIFICATION Spec
CONSTANTS
    ui = ui
    poll = poll
    a = a
    b = b
    c = c
    NoId = NoId
    Free = Free
    Threads = {ui, poll}
    Ids = {a, b, c}
    Calls <- MixedCalls
    Loads <- MixedLoads
    Clearers = {ui, poll}
    MaxSeq = 4
INVARIANTS TypeOK NoDuplicateIds RasterMatchesHistory HistoryBelowNext
PROPERTY ImplementsLog

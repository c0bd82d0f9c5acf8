SPECIFICATION Spec
CONSTANTS
    h = h
    m1 = m1
    m2 = m2
    a = a
    b = b
    c = c
    old = old
    own = own
    Host = h
    Members = {m1}
    Strokes <- HostStrokes
    Start <- Opened
    Clearers = {h, m1}
    MaxClears = 1
    Settled = TRUE
    Courses <- Courses2
INVARIANTS OneSeqPerStroke MembersShowTheHost
CHECK_DEADLOCK FALSE

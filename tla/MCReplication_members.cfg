SPECIFICATION FairSpec
CONSTANTS
    h = h
    m1 = m1
    m2 = m2
    a = a
    b = b
    c = c
    old = old
    own = own
    Host = h
    Members = {m1, m2}
    Strokes <- MemberStrokes
    Start <- Opened
    Clearers = {}
    MaxClears = 0
    Settled = FALSE
    Courses <- Courses1
INVARIANTS TypeOK MembersFollowInOrder
PROPERTIES StrokesComeBack CanvasesConverge
CHECK_DEADLOCK FALSE

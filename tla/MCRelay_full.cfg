SPECIFICATION Spec
CONSTANTS
    h = h
    m1 = m1
    m2 = m2
    Host = h
    Members = {m1, m2}
    Joining = {m2}
    Capacity = 1
    MaxDraws <- Draws
    MaxClears <- Clears
    MaxGaps <- Gaps
INVARIANTS DeadlockNeedsFullConnection OneOrder
PROPERTIES DeliveredOrDeadlocked
CHECK_DEADLOCK FALSE

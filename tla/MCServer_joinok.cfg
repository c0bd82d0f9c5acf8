SPECIFICATION Spec
CONSTANTS
    Conns = {c1, c2}
    Free = Free
    NoConn = NoConn
    MaxSessions = 2
    MaxMembers = 3
    Orderly = TRUE
INVARIANT JoinOkNamesMember

SPECIFICATION Spec
CONSTANTS
    Conns = {c1, c2, c3}
    Free = Free
    NoConn = NoConn
    MaxSessions = 2
    MaxMembers = 4
    Orderly = TRUE
SYMMETRY ConnSymmetry
INVARIANTS TypeOK NoDanglingSend NoGhostMembers RosterComplete

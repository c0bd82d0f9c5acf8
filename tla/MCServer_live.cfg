SPECIFICATION FairSpec
CONSTANTS
    Conns = {c1, c2}
    Free = Free
    NoConn = NoConn
    MaxSessions = 2
    MaxMembers = 3
    Orderly = FALSE
INVARIANTS HostIsMember
PROPERTIES HostExitClosesSession RequestsComplete

SPECIFICATION Spec
CONSTANTS
    t1 = t1
    t2 = t2
    A = A
    B = B
    p1 = p1
    Base = 11
    MaxThickness = 4
    Senders <- MCSenders
    Room = 8
    Servers <- MCServers
    Local = A
    MaxSessions = 2
    Ports <- MCPorts
    MaxAttempts = 2
    Tools <- MCTools
    Points <- MCPoints
    Edge <- MCEdge
    member_id = 2
    color = 1
    thickness = 1
    connect_thread = t1
    user_name <- MCName
    Traffic <- MCTraffic
    Messages <- MCMessages
INVARIANTS TypeOK ReadBack JoinGoesWhereOffered StrokesArriveValid
PROPERTIES ImplementsChannel EverythingArrives
CHECK_DEADLOCK FALSE

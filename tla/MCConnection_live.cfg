SPECIFICATION FairSpec
CONSTANTS
    Protocols = {"tcp", "websocket"}
    Crashes = TRUE
    Drops = TRUE
    Careful = TRUE
    MaxTries = 2
    MaxClicks = 4
INVARIANTS TypeOK NoDanglingClient  GoneIsClean
PROPERTIES CallsReturn
CHECK_DEADLOCK FALSE

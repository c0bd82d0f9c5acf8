SPECIFICATION FairSpec
CONSTANTS
    Foreign = 2
    Closing = TRUE
    Patient = TRUE
    MaxClicks = 6
INVARIANTS SidesAgree NoGhosts
PROPERTIES Answered
CHECK_DEADLOCK FALSE

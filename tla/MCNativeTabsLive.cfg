SPECIFICATION LiveSpec
CONSTANTS
    MaxTabs = 2
    MaxLosses = 1
    Faulty = FALSE
    Stored <- FreshOrRemote
    MaxInputs = 3
    MaxSessions = 2
PROPERTIES
    WorkEnds
CHECK_DEADLOCK FALSE

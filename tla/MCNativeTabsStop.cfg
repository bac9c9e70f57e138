SPECIFICATION Spec
CONSTANTS
    MaxTabs = 2
    MaxLosses = 0
    Faulty = FALSE
    Stored <- OnlyStored
    MaxInputs = 3
    MaxSessions = 1
PROPERTIES
    StopRemovesItsNavigation
CHECK_DEADLOCK FALSE

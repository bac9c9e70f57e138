SPECIFICATION SchedulerSpec
CONSTANTS
    Debounce = 2
    MaxDirty = 3
    Threshold = 3
    MaxClock = 7
    MaxStoreRevision = 4
    MaxProfile = 2
INVARIANTS WindowTracksUncovered
PROPERTY SleepIsBounded
CHECK_DEADLOCK FALSE

SPECIFICATION Spec
CONSTANTS
    p1 = p1
    p2 = p2
    s1 = s1
    s2 = s2
    Profile <- TwoProfiles
    Store <- TwoStores
    SaveOrder <- Order
    NoProfile = NoProfile
    MaxContent = 2
    MaxCycles = 1
SYMMETRY ProfileSymmetry
INVARIANTS
    LockCustody
    NoStaleCompletion
    NoLostMutation
    NoLostWakeup
PROPERTIES
    ShutdownIsOrderly
CHECK_DEADLOCK FALSE

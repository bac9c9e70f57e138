SPECIFICATION FairSpec
CONSTANTS
    p1 = p1
    p2 = p2
    s1 = s1
    s2 = s2
    Profile <- TwoProfiles
    Store <- TwoStores
    SaveOrder <- Order
    NoProfile = NoProfile
    MaxContent = 1
    MaxCycles = 1
PROPERTIES
    UndertakingsEnd
CHECK_DEADLOCK FALSE

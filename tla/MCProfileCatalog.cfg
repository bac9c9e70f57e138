SPECIFICATION Spec
SYMMETRY Symmetric
CONSTANTS
    Proc = {p1, p2}
    NoProc = none
    Name = {a, b}
    MaxProfiles = 2
    MaxEntries = 4
    MaxRecords = 3
    MaxIdentities = 2
    MaxRenames = 3
    MaxWork = 4
INVARIANTS
    DiscoveryNeverBreaks
    ProfilesStay
    RenamesAreKept
    OpenProfileIsCurrent
CHECK_DEADLOCK FALSE

SPECIFICATION Spec
SYMMETRY Symmetric
CONSTRAINT Narrow
CONSTANTS
    Location = {a, b}
    MaxEntries = 2
    Limits <- MCLimits
    MaxSessionWindows = 2
    MaxTabsPerWindow = 2
    MaxSessionTabs = 2
INVARIANTS
    BrowserIsCoherent
    BindingsMatchSession
    StoredIdsAreNeverReused
    RestoreIsExact
PROPERTIES
    SupersededNeverLands
    StoredIsWhatIsShown
CHECK_DEADLOCK FALSE

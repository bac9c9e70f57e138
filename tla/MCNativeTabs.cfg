\* Three tabs, two losses of the surface in a row, any command failing, and a
\* switch from any of three sessions to any other.
SPECIFICATION Spec
CONSTANTS
    MaxTabs = 3
    MaxLosses = 2
    Faulty = TRUE
    Stored <- FreshOrStored
    MaxInputs = 4
    MaxSessions = 2
INVARIANTS
    NoProtocolFault
    RequestsInFlight
    NothingCrossesSwitch
PROPERTIES
    ImplementsShownTab
CHECK_DEADLOCK FALSE

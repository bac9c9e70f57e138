SPECIFICATION Spec
SYMMETRY Symmetric
CONSTANTS
    Tab = {t1, t2}
    Site = {s1}
    MaxTickets = 2
    MaxInFlight = 1
    MaxHosts = 2
    MaxPending = 2
    BodyBudget = 1
    TextBudget = 1
    Payload = {1}
    MaxRequests = 2
    MaxTrackers = 2
INVARIANTS
    NothingLeaks
    AuthorityFollowsDocument
    AccountsAreExact
    CapabilitiesAreCurrent
PROPERTIES
    AnsweredOnce
CHECK_DEADLOCK FALSE

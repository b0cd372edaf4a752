SPECIFICATION Spec
CONSTANTS
    dal250 = dal250
    ymml = ymml
    NoCallsign = NoCallsign
    NoRoute = NoRoute
    Callsigns <- OneCallsign
    Routes <- OneRoute
    ReplaySlots = 1
    MaximumStaged = 2
    CommitBatch = 1
    RecordsPerFact = 2
    ReadLimit = 4
    RecoveryWindow = 20
    RequestIds = 2
    StaleFiles = FALSE
    Contention = FALSE
    TextKinds = {"direct"}
    Truncates = TRUE
    MaxFiles = 1
    MaxLines = 3
    MaxDisturbances = 2
INVARIANTS TypeOK InboxFollowsLog NoMessageTwice AcceptedRangeIsCurrent
PROPERTIES AdmitsOpenSessionOnly

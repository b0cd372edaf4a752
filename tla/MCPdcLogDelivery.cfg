SPECIFICATION DeliverySpec
CONSTANTS
    dal250 = dal250
    ymml = ymml
    NoCallsign = NoCallsign
    NoRoute = NoRoute
    Callsigns <- OneCallsign
    Routes <- OneRoute
    ReplaySlots = 2
    MaximumStaged = 2
    CommitBatch = 1
    RecordsPerFact = 2
    ReadLimit = 4
    RecoveryWindow = 20
    RequestIds = 2
    StaleFiles = TRUE
    Contention = FALSE
    TextKinds = {}
    Truncates = FALSE
    MaxFiles = 2
    MaxLines = 3
    MaxDisturbances = 1

PROPERTIES EveryMessageArrives

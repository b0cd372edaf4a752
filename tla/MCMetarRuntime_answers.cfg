SPECIFICATION FairSpec
CONSTANTS
    Home = a1
    Away = a2
    Airports <- MCAirports
    NoAirport = NoAirport
    NoContext = NoContext
    NoRequest = NoRequest
    NoFact = NoFact
    Request <- MCRequest
    Context <- MCContext
    FirstContext <- MCFirstContext
    MaxReports = 1
    MaxEvents = 2
PROPERTIES
    LookupIsAnswered
    PrimaryIsResolved

SPECIFICATION Spec
CONSTANTS
    Home = a1
    Away = a2
    Airports <- MCAirports
    NoAirport = NoAirport
    NoContext = NoContext
    NoRequest = NoRequest
    NoFact = NoFact
    Request <- MCRequest
    Context <- MCContext
    FirstContext <- MCFirstContext
    MaxReports = 2
    MaxEvents = 3
INVARIANTS
    TypeOK
    PrimaryIsTrue
    LateAnswersAreNotShown
    SpotlightAnswersTheQuestion
PROPERTIES
    ReportsNeverGoBack
    NoFactIsLost

SPECIFICATION FairSpec
CONSTANTS
    None = None
    Derived = Derived
    Plans = {p1, p2}
    Sources = {s1}
    FmsFiles = {1, 2}
    Ids <- MCIds
    Routes <- MCRoutes
    RequestNodes = 2
    FactNodes = 2
    MaxDisturbances = 2
INVARIANTS TypeOK EligibleInFlight BrainShowsDesired LeasesAccountedFor
PROPERTIES StopJoins FmsNoticed PublishesCurrentRoute
CHECK_DEADLOCK FALSE

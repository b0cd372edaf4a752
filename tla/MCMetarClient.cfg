SPECIFICATION FairSpec
CONSTANTS
    Request = {r1, r2}
    NoRequest = NoRequest
    NoFact = NoFact
    MaxReports = 2
    MaxLate = 2
INVARIANTS
    TypeOK
    HandleHasOneOwner
    ReportedClosedIsClosed
PROPERTIES
    KeepsPromise
    JoinsReturn

CONSTANTS
  qfa1 = qfa1  qfa2 = qfa2  tower = tower
  NoCallsign = NoCallsign
  NoController = NoController
  Callsigns <- OneCallsign
  Controllers <- OneController
  QueueCapacity = 4
  PipeDepth = 1
  IncomingCapacity = 4
  OutgoingCapacity = 2
  MaximumObservations = 1
  MaximumDeferred = 1
  Faults = {"answer is late", "list fails"}
  MaxMessages = 0
  MaxChanges = 2
  MaxConnections = 1
  MaxDisturbances = 1
  MaxRequests = 2
  MaxFlights = 1
SPECIFICATION LaterSpec
INVARIANTS TypeOK BuildAnswersRequest ListIsAccurate LossIsReported

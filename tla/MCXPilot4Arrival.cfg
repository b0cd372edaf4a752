CONSTANTS
  qfa1 = qfa1  qfa2 = qfa2  tower = tower
  NoCallsign = NoCallsign
  NoController = NoController
  Callsigns <- OneCallsign
  Controllers <- OneController
  QueueCapacity = 3
  PipeDepth = 1
  IncomingCapacity = 4
  OutgoingCapacity = 2
  MaximumObservations = 2
  MaximumDeferred = 1
  Faults = {"list fails", "answer is late", "xPilot restarts"}
  MaxMessages = 0
  MaxChanges = 2
  MaxConnections = 2
  MaxDisturbances = 1
  MaxRequests = 4
  MaxFlights = 1
SPECIFICATION ArrivalSpec
PROPERTIES ListArrives

CONSTANTS
  qfa1 = qfa1  qfa2 = qfa2  tower = tower
  NoCallsign = NoCallsign
  NoController = NoController
  Callsigns <- TwoCallsigns
  Controllers <- NoControllers
  QueueCapacity = 2
  PipeDepth = 1
  IncomingCapacity = 12
  OutgoingCapacity = 2
  MaximumObservations = 1
  MaximumDeferred = 1
  Faults = {"pipe breaks", "xPilot restarts", "plugin restarts", "session ends", "messages expire"}
  MaxMessages = 2
  MaxChanges = 0
  MaxConnections = 2
  MaxDisturbances = 1
  MaxRequests = 0
  MaxFlights = 2
SPECIFICATION LaterSpec
INVARIANTS MessageReachesItsCallsign EachMessageOnce

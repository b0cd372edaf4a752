CONSTANTS
  other = other
  OtherCallers <- OneOther
  Capacity <- SmallLanes
  MaxRecords <- FewRecords
  MaxFailures = 1
  MaxSessions = 2
  MaxQuestions = 1
SPECIFICATION FairSpec
INVARIANTS TypeOK SlotsAreNotShared IdleIsDrained
PROPERTIES KeepsPromise StopReturns
CHECK_DEADLOCK FALSE

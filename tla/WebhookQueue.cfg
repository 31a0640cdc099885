SPECIFICATION FairSpec
CONSTANTS
  e1 = e1
  e2 = e2
  e3 = e3
  Events <- ThreeEvents
  Wanted <- ThreeEvents
  BatchSize = 2
  MaxAttempts = 3
  MaxLost = 1
INVARIANTS CallsAreCounted AttemptsAreLimited
PROPERTIES KeepsDeliveryPromise RowsAreClosed
CHECK_DEADLOCK FALSE

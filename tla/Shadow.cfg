SPECIFICATION FairSpec
CONSTANTS
  Apps = {a1, a2}
  NoThread = NoThread
  Reader = reader
  Properties = {p1}
  MAX_APPENDING_REQUEST_AT_ANY_GIVEN_TIME = 2
  MaxRequests = 2
  MaxHandlers = 1
  MaxDeltas = 1
INVARIANTS
  CallbackOnce
  WaiterSettled
PROPERTIES
  SyncReturns
CHECK_DEADLOCK FALSE

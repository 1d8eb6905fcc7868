SPECIFICATION Spec
CONSTANTS
  Devices = {"dev1", "dev10"}
  NamePrefixes <- MCNamePrefixes
  GATEWAY_LOOP_MAX_COUNT = 0
  MaxRequests = 3
  MaxLosses = 1
PROPERTY OfflineClosesOwn
CHECK_DEADLOCK FALSE

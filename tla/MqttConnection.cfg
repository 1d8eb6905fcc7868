SPECIFICATION FairSpec
CONSTANTS
  Writers = {w1}
  NoThread = NoThread
  InitialIntervals = {1000, 1990}
  MAX_RECONNECT_WAIT_INTERVAL = 4000
  MQTT_PING_RETRY_TIMES = 2
  MaxLinkChanges = 2
INVARIANTS
  TypeOK
  GivesUpLate
  EventsAgree
PROPERTIES
  DeadLinkNoticed
  Recovers
CHECK_DEADLOCK FALSE

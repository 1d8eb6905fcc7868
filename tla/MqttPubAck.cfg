SPECIFICATION FairSpec
CONSTANTS
  Publishers = {p1, p2}
  Yielder = yielder
  NoThread = NoThread
  MAX_REPUB_NUM = 2
  MAX_PACKET_ID = 3
  MaxIds = 2
INVARIANTS
  TypeOK
  UniquePendingIds
  NodesLive
PROPERTIES
  RemovedWhenSettled
  AckedNeverTimesOut
  PendingSettled
CHECK_DEADLOCK FALSE

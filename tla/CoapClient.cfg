SPECIFICATION FairSpec
CONSTANTS
  Senders = {s1, s2}
  NoThread = NoThread
  max_retry_count = 1
  COAP_MSG_MAX_MSG_ID = 2
  MaxMessages = 2
  NeedResp = {1}
  MaxFaults = 1
INVARIANTS
  CallbackOnce
  GivesUpLate
PROPERTIES
  Settled
CHECK_DEADLOCK FALSE

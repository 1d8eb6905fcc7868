SPECIFICATION Spec
CONSTANTS
  MQTT_MAX_REPEAT_BUF_LEN = 2
  MaxInflight = 2
  MaxId = 5
  MaxMessages = 4
  Oversized = {2}
  MaxDrops = 2
  Faults = {"read_timeout", "puback_failure", "server_retry"}
  MaxFaults = 1
INVARIANTS
  AckedIsDelivered
  DeliveredOnce
CHECK_DEADLOCK FALSE

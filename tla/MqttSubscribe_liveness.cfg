SPECIFICATION FairSpec
CONSTANTS
  Apps = {a1}
  Yielder = yielder
  NoThread = NoThread
  Filters = {f1, f2}
  Wildcards = {f2}
  Handlers = {h1}
  MAX_MESSAGE_HANDLERS = 1
  MaxCalls = 2
  MaxDrops = 1
  Faults = {"send_failure", "late_send_failure", "refusal", "late_unsuback", "unsubscribe_overlap"}
  MaxFaults = 1
PROPERTIES
  RequestsSettled

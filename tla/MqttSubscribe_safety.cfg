SPECIFICATION Spec
CONSTANTS
  Apps = {a1, a2}
  Yielder = yielder
  NoThread = NoThread
  Filters = {f1, f2}
  Wildcards = {}
  Handlers = {h1}
  MAX_MESSAGE_HANDLERS = 2
  MaxCalls = 3
  MaxDrops = 1
  Faults = {"send_failure", "late_send_failure", "refusal", "late_unsuback", "unsubscribe_overlap"}
  MaxFaults = 1
SYMMETRY Symmetry
INVARIANTS
  FreedOnce
  NoLeak
  NoDuplicateHandlers
  SuccessExclusive
  ReadyIsSubscribed

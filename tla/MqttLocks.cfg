SPECIFICATION LocksSpec
CONSTANTS
  AppThreads = {a1, a2}
  LoopThread = loop
  Nobody = Nobody
INVARIANT NoLockCycle
CHECK_DEADLOCK FALSE

SPECIFICATION Spec
CONSTANTS
  Threads = {t1, t2}
  NoThread = NoThread
  CLINET_BUFF_LEN = 2
  MaxCommands = 2
  MaxNoise = 1
  Size = 3
  Data <- MCData
  Zero <- MCZero
INVARIANTS
  AnswersMatch
PROPERTIES
  RingImplementsFifo
CHECK_DEADLOCK FALSE

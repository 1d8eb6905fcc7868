SPECIFICATION LogSpec
CONSTANTS
  LOG_BUF_FIXED_HEADER_SIZE = 1
  LOG_UPLOAD_BUFFER_SIZE = 7
  LOG_LOW_BUFFER_THRESHOLD = 3
  MAX_HTTP_LOG_POST_SIZE = 4
  MAX_LOG_SAVE_SIZE = 6
  Sizes = {1, 2}
  MaxLogs = 4
  MaxFaults = 2
  MaxReboots = 1
  MaxLevels = 1
INVARIANTS
  NothingLost
  NoDuplicate
  WholeRecords
  MovesInRange
CHECK_DEADLOCK FALSE

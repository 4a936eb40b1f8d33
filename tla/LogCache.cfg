\* The queue exceeds its limit, files fill up and every name is used again.
SPECIFICATION LiveSpec
CONSTANTS
  MaxLogs = 5
  MaxRetry = 1
  MaxCount = 2
  FileMaxSize = 2
  FileMaxCount = 2
  Kinds = {"file", "tcp", "wx", "h5"}
INVARIANTS InOrder NewestKept
PROPERTIES EveryLogSettles
CHECK_DEADLOCK FALSE

\* A file that opens late: the first log is given up while the next one comes.
SPECIFICATION Spec
CONSTANTS
  MaxLogs = 3
  MaxRetry = 1
  MaxCount = 3
  FileMaxSize = 4
  FileMaxCount = 2
  Kinds = {"file"}
INVARIANTS NeverReentered
CHECK_DEADLOCK FALSE

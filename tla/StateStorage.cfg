\* Overlapping saves; any request may fail.
SPECIFICATION LiveSpec
CONSTANTS
  MaxValue = 2
  MaxWrites = 2
  Fresh = TRUE
  Savers = {11, 12}
  MaxStarts = 2
  MaxFaults = 2
  Faulty = {"write", "update", "set", "commit", "drop_single", "drop_path"}
  Aborts = TRUE
INVARIANTS CleanIsCommitted CurrentInStep
PROPERTIES DirtyIsSaved StopClears AbortIsFinal
CHECK_DEADLOCK FALSE

\* A write may bring back what was there before; nothing fails.
SPECIFICATION Spec
CONSTANTS
  MaxValue = 1
  MaxWrites = 2
  Fresh = FALSE
  Savers = {11, 12}
  MaxStarts = 0
  MaxFaults = 0
  Faulty = {}
  Aborts = FALSE
INVARIANTS CleanIsCommitted
CHECK_DEADLOCK FALSE

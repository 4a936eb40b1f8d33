SPECIFICATION Spec
CONSTANTS
  Keys = {1, 2}
  MaxOps = 3
  MaxSession = 2
INVARIANTS HandlersRegistered GhostsQueued
CHECK_DEADLOCK FALSE

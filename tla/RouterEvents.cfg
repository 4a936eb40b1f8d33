\* Liveness needs the router to serve what it is sent, nothing else.
SPECIFICATION LiveSpec
CONSTANTS
  Keys = {1, 2}
  MaxOps = 3
  MaxSession = 2
  Refusals = TRUE
  Timeouts = TRUE
  Garbles = {"bad", "fatal"}
INVARIANTS ListenersRegistered GhostsQueued
 
CHECK_DEADLOCK FALSE

\* Two callers of wait_online over the client with two sessions.
SPECIFICATION StackLiveSpec
CONSTANTS
  Begins = {"quick", "slow", "throws"}
  Closes = {"accepts", "refuses"}
  MaxSession = 2
  Callers = {c1, c2}
  Timed = {c1}
INVARIANTS TypeOK OneSession OfferedIsBound
PROPERTIES ImplementsHandlerSessions LostIsRetried StopEndsLoop WaitOnlineReturns OnlineWhenServed
CHECK_DEADLOCK FALSE

\* Two sessions over which the router uses the same numbers again.
SPECIFICATION DispatchLiveSpec
CONSTANTS
  Begins = {"quick", "slow", "throws"}
  Closes = {"accepts", "refuses"}
  MaxSession = 2
  Requests = {r1, r2}
  Keys = {k1}
  Seqs = {1, 2}
  Catching = {TRUE, FALSE}
INVARIANTS DispatchTypeOK AnswersBelong
PROPERTIES EveryRequestAnswered
CHECK_DEADLOCK FALSE

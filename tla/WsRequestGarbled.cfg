\* The router may send an error packet that does not decode.
SPECIFICATION LiveSpec
CONSTANTS
  Callers = {c1}
  SeqLimit = 4
  NoItem = NoItem
  AnswerKinds = {"ok", "bad"}
PROPERTIES RemovedCallReturns
CHECK_DEADLOCK FALSE

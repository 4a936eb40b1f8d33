\* Three calls share two numbers, so next_seq rolls back onto open requests.
SPECIFICATION LiveSpec
CONSTANTS
  Callers = {c1, c2, c3}
  SeqLimit = 3
  NoItem = NoItem
  AnswerKinds = {"ok", "bad"}
INVARIANTS TypeOK OwnAnswer ListedUnanswered WaiterListed EndedReleasesCallers
PROPERTIES FirstResultStands OnlyReuseStrands ImplementsRpc EveryCallReturns
CHECK_DEADLOCK FALSE

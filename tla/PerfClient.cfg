\* More ids than slots, so that the slots can run out; a and b share x.
SPECIFICATION Spec
CONSTANTS
  a = a
  b = b
  c = c
  x = x
  y = y
  Ids = {a, b, c}
  Isolates = {x, y}
  Measured <- MCMeasured
  Keys = {k}
  Slots = {0, 1}
  NoId = NoId
  MaxEvents = 2
  MaxPuts = 2
INVARIANTS Conserved OneSlot RecordedHasSlot
CHECK_DEADLOCK FALSE

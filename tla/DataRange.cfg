\* Up to two specs or ranges over 0 to 4, for data of up to 3 bytes.
SPECIFICATION Spec
CONSTANTS
  Numbers = {0, 1, 2, 3, 4}
  Sizes = {0, 1, 2, 3}
  Blank = Blank
  Headers <- MCHeaders
  Lists <- MCLists
INVARIANTS InData TextServed ListServed TextOfRangeAgrees
CHECK_DEADLOCK FALSE

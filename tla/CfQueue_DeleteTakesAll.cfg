CONSTANTS
  Elem = {a, b}
  Garbage = Garbage
  NULL = NULL
  ALLOCSZ = 2
  MaxAllocsz = 4
  UNWRAP = 7
  Limits = {1, 3}
SPECIFICATION Spec
CHECK_DEADLOCK FALSE
PROPERTY DeleteTakesAll

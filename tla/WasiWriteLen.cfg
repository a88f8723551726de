SPECIFICATION Spec
CONSTANTS
  MaxIov = 2
  MaxLen = 3
CHECK_DEADLOCK FALSE
INVARIANTS WritesLen

SPECIFICATION Spec
CONSTANTS
  BUFLEN = 5
  MaxTyped = 8
CHECK_DEADLOCK FALSE
PROPERTIES WordErased

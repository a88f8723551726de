SPECIFICATION StackSpec
CONSTANTS
  Top = 7
  Skip = 2
  Consec = 2
  MaxCalls = 3
CHECK_DEADLOCK FALSE
INVARIANTS StackTypeOK NeverTooMuch NeverTooLittle

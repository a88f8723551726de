SPECIFICATION Spec
CONSTANTS
  Addr = {a1, a2}
  Null = Null
  None = None
  MaxCapture = 3
  Sizes = {1, 2}
CHECK_DEADLOCK FALSE
INVARIANTS TotalCoversDict

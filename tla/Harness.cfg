SPECIFICATION Spec
CONSTANTS
  NBench = 2
  MaxRefused = 1
CHECK_DEADLOCK FALSE
INVARIANTS TypeOK RowsFaithful TimesOfOwnBenchmark OneDebugger NeverWaitsInVain StopsAtEnd
PROPERTY AlwaysLessLeft

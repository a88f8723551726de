SPECIFICATION Spec
CONSTANTS
  Word = 20
  Second = 6
  ClocksPerSec = 2
  MaxNow = 24
CHECK_DEADLOCK FALSE
INVARIANTS TypeOK DelayAccurate TimerAccurate TimerWithinDelay
PROPERTIES MilsecsMonotonic

SPECIFICATION Spec
CONSTANTS
  MaxData = 2
  MaxRuns = 2
  MaxLost = 1
  MaxWire = 2
CHECK_DEADLOCK FALSE
INVARIANTS TypeOK OneWholeCapture LengthKept
PROPERTIES CaptureEnds

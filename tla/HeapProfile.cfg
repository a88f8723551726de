SPECIFICATION Spec
CONSTANTS
  Addr = {a1, a2}
  Null = Null
  None = None
  SizeLimit = 3
  MaxPackets = 4
SYMMETRY AddrSymmetry
CHECK_DEADLOCK FALSE
INVARIANTS TypeOK ReplayFollowsDevice PeakExact ReplaySucceeds
PROPERTIES ImplementsMeter

SPECIFICATION CallsSpec
CONSTANTS
  MaxIov = 2
  MaxLen = 3
CHECK_DEADLOCK FALSE
INVARIANTS CallsTypeOK OutputFaithful FailsCleanly TableFreed ToldWhatHappened
PROPERTY Returns

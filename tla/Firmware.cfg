SPECIFICATION Spec
CHECK_DEADLOCK FALSE
INVARIANTS TypeOK RowMeansSuccess ReleasedInOrder SuccessReleasesAll
PROPERTIES ImplementsBoard

SPECIFICATION Spec
CONSTANTS
  BUFLEN = 5
  MaxTyped = 8
CHECK_DEADLOCK FALSE
INVARIANTS TypeOK RingIsWhatYouSee ReadsWhatWasEntered

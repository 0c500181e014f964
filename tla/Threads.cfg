SPECIFICATION Spec
CONSTANTS
  Workers = {w1, w2, w3}
  Triers = {w3}
  Nobody = Nobody
INVARIANTS TypeOK NoUseAfterFree NothingLeaks
PROPERTIES KeepsPromise ThreadsEnd
CHECK_DEADLOCK FALSE

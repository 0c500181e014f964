SPECIFICATION Spec
CONSTANTS
  Senders = {s1, s2, s3}
  First = s1
  MaxSends = 2
  DropsOverlap = FALSE
INVARIANTS TypeOK NoSleepOnNews NoUseAfterFree NothingLeaks
PROPERTIES KeepsPromise RecvReturns
CHECK_DEADLOCK FALSE

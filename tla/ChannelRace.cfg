SPECIFICATION Spec
CONSTANTS
  Senders = {s1}
  First = s1
  MaxSends = 1
  DropsOverlap = TRUE
INVARIANTS NoUseAfterFree
CHECK_DEADLOCK FALSE

SPECIFICATION MCSpec
CONSTANTS
  Tasks = {t1, t2, t3}
  Values = {1}
INVARIANTS TypeOK QueueSound HandleSafety NoLostWake
PROPERTIES NoOvertaking EveryWakeServed
CHECK_DEADLOCK FALSE

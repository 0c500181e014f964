SPECIFICATION Spec
CONSTANTS
  Platform = "linux"
  Fds = {1}
  Timers = {1, 2, 3}
  t1 = t1
  t2 = t2
  Tasks = {t1, t2}
  Root = Root
  MaxSlots = 2
  Programs <- AllPrograms
INVARIANTS NeverSleepsOnProgress NoUseAfterFree WaitersAreWatched
PROPERTIES Completes
CHECK_DEADLOCK FALSE

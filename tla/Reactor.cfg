SPECIFICATION Spec
CONSTANTS
  Platforms = {"linux", "macos"}
  Fds = {1, 2}
  Timers = {1}
  Tasks = {t1}
  NoTask = NoTask
  MaxSlots = 2
INVARIANTS CountMatchesTable EventRouting RegistrationsDisjoint NoMissedEvent
  ParkedIsWatched OneShotNotLost
CHECK_DEADLOCK FALSE

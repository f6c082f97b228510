SPECIFICATION Spec
CONSTANTS
  p1 = p1
  p2 = p2
  t1 = t1
  t2 = t2
  NoThread = NoThread
  Process = {p1}
  Thread = {t1, t2}
  ProcessOf <- TwoThreadsInOne
  KILL_UNRELEASED_LOCK_AFTER = 10
  LOCK_TRY_MAX = 2
  AppAlarms = {}
INVARIANT OriginalStored

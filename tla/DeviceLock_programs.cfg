SPECIFICATION FairSpec
CONSTANTS
  p1 = p1
  p2 = p2
  t1 = t1
  t2 = t2
  NoThread = NoThread
  Process = {p1, p2}
  Thread = {t1, t2}
  ProcessOf <- OneThreadEach
  KILL_UNRELEASED_LOCK_AFTER = 4
  LOCK_TRY_MAX = 2
  AppAlarms = {2, 5}
INVARIANT TypeOK
INVARIANT LockHeldWhereExpected
INVARIANT DeviceExclusive
INVARIANT GuardedHold
INVARIANT SignalsRestored
PROPERTY OpenReturns
PROPERTY OwnershipSpec

\* Three threads, both classes of the lock, each thread twice as reader and as writer.
CONSTANTS
  t1 = t1
  t2 = t2
  t3 = t3
  Threads = {t1, t2, t3}
  Classes <- BothClasses
  MaxRecurrence = 2
SPECIFICATION FairSpec
INVARIANTS Exclusion NothingLeftBehind NoLostWakeup
PROPERTIES WritersGetIn ImplementsSharedAccess
\* In the bare class the upgrade of a lone reader waits for ever, and everyone behind it.
CHECK_DEADLOCK FALSE

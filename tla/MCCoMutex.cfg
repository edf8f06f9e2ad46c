CONSTANTS
  Object = {m, n}
  Task = {t1, t2, t3}
  Thread = {h}
  NULL = NULL
  InitWakeup <- MCOne
  MaxWakeup <- MCOne
SPECIFICATION MSpec
INVARIANTS NoIdleWakeup QueuedOnce MutualExclusion
PROPERTIES NoOvertaking LockGranted

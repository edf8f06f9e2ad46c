CONSTANTS
  t1 = t1
  t2 = t2
  r1 = r1
  r2 = r2
  w = w
  d1 = d1
  d2 = d2
  NULL = NULL
  Task = {t1, t2}
  Fd = {r1, r2, w}
  EpollOf <- MCEpollOf
  DescOf <- MCDescOf
  Calls <- MCCalls
  Connects <- MCConnects
  Sleeper = {t2}
  Waits <- MCWaits
  AddFails = {w}
  MaxId <- MCMaxId
  MaxEvents = 2
SPECIFICATION HookSpec
INVARIANTS RefCountSafe RegisteredWhileWaiting WokenOnce PollCountOfWait FlagRestored
PROPERTIES TimedCallEnds
